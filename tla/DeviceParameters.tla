-------------------------- MODULE DeviceParameters --------------------------
(***************************************************************************)
(* What the Modbus task writes: the parameters a control base translates   *)
(* to (translation.rs), and the sequence of writes that brings them to the *)
(* SunSpec device (modbus_connection.rs).                                  *)
(*                                                                         *)
(* Limits and setpoints are in watts or in whole percent of the rating,    *)
(* which is where the code does arithmetic.  Of the optional values        *)
(* written only when present, es stands for all of model 703; of those of  *)
(* model 704 with a register that enables them, the fixed var stands for   *)
(* the two power factors too.  A curve is its content with the settings    *)
(* that go along with it.                                                  *)
(***************************************************************************)
EXTENDS Integers, Sequences, SequencesExt

CONSTANTS
  None,              \* an absent value
  Rating,            \* W_MAX_RTG, in watts
  SiteLimitsMapped,  \* the feature map-imp-exp-site-limits
  Model,             \* the device's curve models, in the order they are sent
  Slots,             \* their curves: [models -> sequences of curves], three at most
  Curve,             \* curve data
  Fits               \* those the device has room for: n_pt points, two sets

CurveModel == {Model[i] : i \in DOMAIN Model}
SlotsOf(m) == {Slots[m][i] : i \in DOMAIN Slots[m]}
Slot == UNION {SlotsOf(m) : m \in CurveModel}

ASSUME ParametersAssumption ==
  /\ Rating \in Nat \ {0}
  /\ SiteLimitsMapped \in BOOLEAN
  /\ Model \in Seq(CurveModel)
  /\ \A m \in CurveModel : Slots[m] \in Seq(Slot) /\ Len(Slots[m]) <= 3
  /\ Fits \subseteq Curve
  /\ None \notin Curve \cup Int \cup BOOLEAN \cup {"WMaxPct", "Watts"}

-----------------------------------------------------------------------------
(* From a control base to parameters. *)

Magnitude(w) == IF w < 0 THEN -w ELSE w
IsSet(v) == v # None

ImportSiteLimit(base) ==
  IF SiteLimitsMapped /\ IsSet(base.impLimW) THEN -Magnitude(base.impLimW) ELSE None

ExportSiteLimit(base) ==
  IF SiteLimitsMapped /\ IsSet(base.expLimW) THEN Magnitude(base.expLimW) ELSE None

WSetMod(base, wSet) ==
  CASE IsSet(base.fixedW) -> "WMaxPct"
    [] ~IsSet(base.fixedW) /\ IsSet(wSet) -> "Watts"
    [] OTHER -> None

(* A curve is linked to; one that has not been fetched counts as absent. *)
Translate(base) ==
  LET siteLimit == ImportSiteLimit(base)
      wSet == IF IsSet(base.targetW) THEN base.targetW ELSE siteLimit
  IN [es |-> base.connect,
      varEna |-> IsSet(base.fixedVar),
      varPct |-> base.fixedVar,
      wMaxLimEna |-> IsSet(base.maxLimW),
      wMaxLimPct |-> base.maxLimW,
      wMaxLim |-> ExportSiteLimit(base),
      wSetEna |-> IsSet(base.fixedW) \/ IsSet(wSet),
      wSetPct |-> base.fixedW,
      wSet |-> wSet,
      isImportSiteLimit |-> ~IsSet(base.targetW) /\ IsSet(siteLimit),
      wSetMod |-> WSetMod(base, wSet),
      curves |-> [s \in Slot |->
                   IF base.links[s] \in base.fetched THEN base.links[s] ELSE None]]

-----------------------------------------------------------------------------
(* From watts to percent of the rating. *)

Clamp(x, low, high) == IF x < low THEN low ELSE IF x > high THEN high ELSE x

SignOf(w) == IF w < 0 THEN -1 ELSE 1

(* scaled_percent_raw, with div_round_toward_zero. *)
PercentTowardZero(w) == SignOf(w) * ((Magnitude(w) * 100) \div Rating)

(* scaled_percent_raw, with div_round_half_away_from_zero. *)
PercentNearest(w) ==
  LET n == Magnitude(w) * 100
      up == IF 2 * (n % Rating) >= Rating THEN 1 ELSE 0
  IN  SignOf(w) * (n \div Rating + up)

(* One value of each type says that the register is not implemented. *)
MaxU16 == 65534
MaxI16 == 32767

WMaxLimToPct(w) == Clamp(PercentTowardZero(w), 0, MaxU16)
WSetToPct(w, towardZero) ==
  Clamp(IF towardZero THEN PercentTowardZero(w) ELSE PercentNearest(w), -MaxI16, MaxI16)

-----------------------------------------------------------------------------
(* The writes. *)

Point(p, v) == [kind |-> "point", at |-> p, value |-> v]
Stage(s, c) == [kind |-> "stage", at |-> s, value |-> c]
Adopt(m) == [kind |-> "adopt", at |-> m, value |-> TRUE]
Enable(m, on) == [kind |-> "enable", at |-> m, value |-> on]

(* write_if_some: an absent value leaves the register as it is. *)
IfSome(p, v) == IF IsSet(v) THEN <<Point(p, v)>> ELSE <<>>

When(condition, writes) == IF condition THEN writes ELSE <<>>

(* The percentages that can be told from the watts need the rating. *)
LimitPending(p, rated) == IsSet(p.wMaxLim) /\ ~rated

LimitPct(p, rated) ==
  LET derived == WMaxLimToPct(p.wMaxLim)
  IN  IF ~IsSet(p.wMaxLim) \/ ~rated THEN p.wMaxLimPct
      ELSE IF IsSet(p.wMaxLimPct) /\ derived >= p.wMaxLimPct THEN p.wMaxLimPct
      ELSE derived

Mutant_LimitWrites_explicit(p, rated, retryOnly) ==
  When(~retryOnly \/ IsSet(p.wMaxLim),
       IfSome("wMaxLimEna", p.wMaxLimEna \/ (IsSet(p.wMaxLim) /\ rated))
         \o IfSome("wMaxLimPct", LimitPct(p, rated)))

(* The export limit: nothing is touched while it cannot be told.  Where it   *)
(* comes from the site alone, it is enabled here.                            *)
LimitWrites(p, rated, retryOnly) ==
  When((~retryOnly \/ IsSet(p.wMaxLim)) /\ ~LimitPending(p, rated),
       <<Point("wMaxLimEna", p.wMaxLimEna \/ (IsSet(p.wMaxLim) /\ ~IsSet(p.wMaxLimPct)))>>
         \o IfSome("wMaxLimPct", LimitPct(p, rated)))

SetDerived(p) == IsSet(p.wSet) /\ ~IsSet(p.wSetPct)
SetPending(p, rated) == SetDerived(p) /\ ~rated

SetPct(p, rated) ==
  IF SetDerived(p) /\ rated THEN WSetToPct(p.wSet, p.isImportSiteLimit) ELSE p.wSetPct

(* The setpoint: the same for an import limit of the site, which is a        *)
(* percentage in the end and so never written in watts.  A target in watts   *)
(* is written as watts at once, and its percentage when it can be told.      *)
SetWrites(p, rated, retryOnly) ==
  LET pct == SetPct(p, rated)
      viaPct == p.isImportSiteLimit /\ IsSet(pct)
      mode == IF viaPct THEN "WMaxPct" ELSE p.wSetMod
      setsMode == ~retryOnly \/ p.isImportSiteLimit
  IN When((~retryOnly \/ SetDerived(p)) /\ ~(p.isImportSiteLimit /\ SetPending(p, rated)),
          When(setsMode, <<Point("wSetEna", p.wSetEna)>>)
            \o IfSome("wSetPct", pct)
            \o When(~retryOnly /\ ~viaPct, IfSome("wSet", p.wSet))
            \o When(setsMode, IfSome("wSetMod", mode)))

(* ApplyStatus: something is left to derive. *)
Deferred(p, rated) == LimitPending(p, rated) \/ SetPending(p, rated)

DerivationWrites(p, rated, retryOnly) ==
  LimitWrites(p, rated, retryOnly) \o SetWrites(p, rated, retryOnly)

(* The curves of a model are staged in its second set, in their order, then  *)
(* adopted as a whole if there was any; without one the model is disabled.   *)
Usable(m, curves) == {s \in SlotsOf(m) : curves[s] \in Fits}

StageWrites(m, curves, i) ==
  When(i \in DOMAIN Slots[m] /\ Slots[m][i] \in Usable(m, curves),
       <<Stage(Slots[m][i], curves[Slots[m][i]])>>)

AdoptWrites(m, curves) ==
  When(Usable(m, curves) # {}, <<Adopt(m)>>) \o <<Enable(m, Usable(m, curves) # {})>>

CurveWrites(m, curves) ==
  StageWrites(m, curves, 1) \o StageWrites(m, curves, 2) \o StageWrites(m, curves, 3)
    \o AdoptWrites(m, curves)

Settings704(p) == <<Point("varEna", p.varEna)>> \o IfSome("varPct", p.varPct)

(* send_new_parameters, models 703 and 704: the curve models follow. *)
PointWrites(p, rated) ==
  IfSome("es", p.es) \o Settings704(p) \o DerivationWrites(p, rated, FALSE)

-----------------------------------------------------------------------------
(* What the parameters ask for, said without the writes. *)

(* A limit beyond the rating is none. *)
Unlimited == 100
Capped(pct) == IF pct > Unlimited THEN Unlimited ELSE pct

(* A percentage exceeds no limit that is asked for. *)
Within(x, p) ==
  /\ IsSet(p.wMaxLimPct) => x <= p.wMaxLimPct
  /\ IsSet(p.wMaxLim) => x * Rating <= p.wMaxLim * 100

(* The largest such percentage: the next one exceeds some limit. *)
AskedLimit(p) ==
  CHOOSE x \in 0 .. Unlimited :
    Within(x, p) /\ (x = Unlimited \/ ~Within(x + 1, p))

(* The power asked for, in hundredths of the rating's watts. *)
AskedPower(p) == IF IsSet(p.wSetPct) THEN p.wSetPct * Rating ELSE p.wSet * 100

=============================================================================
