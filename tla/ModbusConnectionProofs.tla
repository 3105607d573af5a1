----------------------- MODULE ModbusConnectionProofs -----------------------
(***************************************************************************)
(* Proofs about ModbusConnection, for every device, every set of control   *)
(* bases and however often requests fail and the device restarts.  The     *)
(* argument: what a job is still to write and what the registers hold      *)
(* together make up what its parameters ask for, so that when nothing is   *)
(* left to write, the registers do.                                        *)
(***************************************************************************)
EXTENDS ModbusConnection, TLAPS

-----------------------------------------------------------------------------
(* The percentages derived from watts, for every rating and every limit. *)

(* Division of natural numbers is exact to within one divisor. *)
LEMMA Division ==
  ASSUME NEW n \in Nat, NEW d \in Nat \ {0}
  PROVE  /\ n \div d \in Nat
         /\ d * (n \div d) <= n
         /\ n < d * (n \div d) + d
BY Z3

(* A smaller factor gives a smaller product. *)
LEMMA Product ==
  ASSUME NEW a \in Int, NEW b \in Int, NEW d \in Nat, a <= b
  PROVE  a * d <= b * d
BY Z3

(* div_round_toward_zero on a limit: the percentage exceeds it nowhere, and a *)
(* higher one would.                                                          *)
LEMMA PercentOfLimit ==
  ASSUME NEW w \in Nat
  PROVE  /\ PercentTowardZero(w) \in Nat
         /\ PercentTowardZero(w) * Rating <= w * 100
         /\ w * 100 < PercentTowardZero(w) * Rating + Rating
<1>1. Rating \in Nat \ {0} /\ w * 100 \in Nat
  BY ParametersAssumption
<1> DEFINE q == (w * 100) \div Rating
<1>2. q \in Nat /\ Rating * q <= w * 100 /\ w * 100 < Rating * q + Rating
  BY <1>1, Division
<1>3. PercentTowardZero(w) = q
  <2>1. Magnitude(w) = w
    BY DEF Magnitude
  <2>2. SignOf(w) = 1
    BY DEF SignOf
  <2>3. PercentTowardZero(w) = 1 * q
    BY <2>1, <2>2 DEF PercentTowardZero
  <2> QED
    BY <1>2, <2>3
<1>4. Rating * q = q * Rating
  BY <1>1, <1>2
<1> QED
  BY <1>2, <1>3, <1>4

(* The largest percentage a register holds is beyond the rating. *)
LEMMA MaxU16Type == MaxU16 \in Nat /\ MaxU16 >= Unlimited
BY DEF MaxU16, Unlimited

(* What to_w_max_lim_pct_from_w_max_lim writes never allows more than the     *)
(* export limit asks for, and is never the value for "not implemented".       *)
THEOREM ExportLimitNotExceeded ==
  ASSUME NEW w \in Nat
  PROVE  /\ WMaxLimToPct(w) \in 0 .. MaxU16
         /\ WMaxLimToPct(w) * Rating <= w * 100
<1>1. PercentTowardZero(w) \in Nat
  BY PercentOfLimit
<1>2. WMaxLimToPct(w) \in 0 .. MaxU16 /\ WMaxLimToPct(w) <= PercentTowardZero(w)
  BY <1>1, MaxU16Type DEF WMaxLimToPct, Clamp
<1>3. Rating \in Nat
  BY ParametersAssumption
<1>4. WMaxLimToPct(w) * Rating <= PercentTowardZero(w) * Rating
  BY MaxU16Type, <1>1, <1>2, <1>3, Product
<1>5. PercentTowardZero(w) * Rating <= w * 100
  BY PercentOfLimit
<1> QED
  BY <1>1, <1>2, <1>3, <1>4, <1>5, MaxU16Type

(* The percentages of a limit that do not exceed it are those up to the one   *)
(* derived.                                                                   *)
LEMMA WithinDerived ==
  ASSUME NEW w \in Nat, NEW x \in Nat
  PROVE  x * Rating <= w * 100 <=> x <= PercentTowardZero(w)
<1>1. PICK q \in Nat : /\ q = PercentTowardZero(w) /\ q * Rating <= w * 100
                       /\ w * 100 < q * Rating + Rating
  BY PercentOfLimit
<1>2. Rating \in Nat /\ w * 100 \in Nat /\ x * Rating \in Int /\ q * Rating \in Int
  BY ParametersAssumption
<1>3. CASE x <= q
  <2>1. x * Rating <= q * Rating
    BY <1>2, <1>3, Product
  <2> QED
    BY <1>1, <1>2, <1>3, <2>1
<1>4. CASE x > q
  <2>1. q + 1 <= x
    BY <1>4
  <2>2. (q + 1) * Rating <= x * Rating
    BY <1>2, <2>1, Product
  <2>3. (q + 1) * Rating = q * Rating + Rating
    BY <1>2, Z3
  <2> QED
    BY <1>1, <1>2, <1>4, <2>2, <2>3
<1> QED
  BY <1>3, <1>4

(* What the parameters of a control can say about the export limit. *)
HasLimits(p) ==
  /\ p.wMaxLim \in Nat \cup {None}
  /\ p.wMaxLimPct \in 0 .. Unlimited \cup {None}

(* Once the rating is known, the percentage that is written is the largest    *)
(* that exceeds neither the explicit limit nor the site's, for every rating   *)
(* and every pair of limits (send_model704_pending_limit_derivations).        *)
THEOREM WritesAskedLimit ==
  ASSUME NEW p, HasLimits(p), IsSet(p.wMaxLim) \/ IsSet(p.wMaxLimPct)
  PROVE  Capped(LimitPct(p, TRUE)) = AskedLimit(p)
<1> DEFINE c == Capped(LimitPct(p, TRUE))
<1> HIDE DEF c
<1>1. c \in 0 .. Unlimited /\ \A x \in 0 .. Unlimited : Within(x, p) <=> x <= c
  <2>1. CASE ~IsSet(p.wMaxLim)
    <3>1. p.wMaxLimPct \in 0 .. Unlimited
      BY <2>1 DEF HasLimits, IsSet
    <3>2. c = p.wMaxLimPct
      BY <2>1, <3>1 DEF c, LimitPct, Capped, Unlimited
    <3> QED
      BY <2>1, <3>1, <3>2 DEF Within, IsSet
  <2>2. CASE IsSet(p.wMaxLim)
    <3>1. PICK w \in Nat : p.wMaxLim = w
      BY <2>2 DEF HasLimits, IsSet
    <3>2. PICK q \in Nat : q = PercentTowardZero(w)
      BY PercentOfLimit
    <3>3. \A x \in 0 .. Unlimited : x * Rating <= w * 100 <=> x <= q
      BY <3>2, WithinDerived DEF Unlimited
    <3>4. WMaxLimToPct(w) = IF q > MaxU16 THEN MaxU16 ELSE q
      BY <3>2, MaxU16Type DEF WMaxLimToPct, Clamp
    <3>5. CASE ~IsSet(p.wMaxLimPct)
      <4>1. c = IF q > Unlimited THEN Unlimited ELSE q
        BY <2>2, <3>1, <3>2, <3>4, <3>5, MaxU16Type DEF c, LimitPct, Capped, Unlimited
      <4>2. \A x \in 0 .. Unlimited : Within(x, p) <=> x <= q
        BY <2>2, <3>1, <3>3, <3>5 DEF Within
      <4> QED
        BY <3>2, <4>1, <4>2 DEF Unlimited
    <3>6. CASE IsSet(p.wMaxLimPct)
      <4>1. PICK e \in 0 .. Unlimited : p.wMaxLimPct = e
        BY <3>6 DEF HasLimits, IsSet
      <4>2. c = IF q >= e THEN e ELSE q
        BY <2>2, <3>1, <3>2, <3>4, <3>6, <4>1, MaxU16Type DEF c, LimitPct, Capped, Unlimited
      <4>3. \A x \in 0 .. Unlimited : Within(x, p) <=> x <= q /\ x <= e
        BY <2>2, <3>1, <3>3, <3>6, <4>1 DEF Within
      <4> QED
        BY <3>2, <4>1, <4>2, <4>3 DEF Unlimited
    <3> QED
      BY <3>5, <3>6
  <2> QED
    BY <2>1, <2>2
<1>2. \A x \in 0 .. Unlimited :
        Within(x, p) /\ (x = Unlimited \/ ~Within(x + 1, p)) <=> x = c
  <2> SUFFICES ASSUME NEW x \in 0 .. Unlimited
               PROVE  Within(x, p) /\ (x = Unlimited \/ ~Within(x + 1, p)) <=> x = c
    OBVIOUS
  <2>1. Within(x, p) <=> x <= c
    BY <1>1
  <2>2. x # Unlimited => x + 1 \in 0 .. Unlimited /\ (Within(x + 1, p) <=> x + 1 <= c)
    BY <1>1 DEF Unlimited
  <2> QED
    BY <1>1, <2>1, <2>2 DEF Unlimited
<1>3. c = CHOOSE x \in 0 .. Unlimited :
            Within(x, p) /\ (x = Unlimited \/ ~Within(x + 1, p))
  BY <1>1, <1>2
<1> QED
  BY <1>3 DEF c, AskedLimit

(* div_round_toward_zero on a setpoint: within one percent of it, and not     *)
(* beyond.                                                                    *)
LEMMA PercentOfSetpoint ==
  ASSUME NEW w \in Int
  PROVE  \E pct \in Int, power \in Int, watts \in Nat :
           /\ pct = PercentTowardZero(w) /\ power = pct * Rating /\ watts = Magnitude(w)
           /\ Magnitude(power - w * 100) < Rating
           /\ Magnitude(power) <= Magnitude(w * 100)
           /\ Magnitude(pct) * Rating <= watts * 100
<1>1. PICK m \in Nat : m = Magnitude(w) /\ (w = m \/ w = -m) /\ (w < 0 => w = -m) /\ (w >= 0 => w = m)
  BY DEF Magnitude
<1>2. Rating \in Nat \ {0} /\ m * 100 \in Nat
  BY ParametersAssumption
<1>3. PICK q \in Nat : q = (m * 100) \div Rating /\ Rating * q <= m * 100 /\ m * 100 < Rating * q + Rating
  BY <1>2, Division
<1>4. PICK product \in Nat : product = q * Rating /\ product = Rating * q /\ (-q) * Rating = -product
  BY <1>2, Z3
<1>5. CASE w >= 0
  <2>1. PercentTowardZero(w) = q
    BY <1>1, <1>3, <1>5 DEF PercentTowardZero, SignOf
  <2>2. /\ Magnitude(product - w * 100) < Rating
        /\ Magnitude(product) <= Magnitude(w * 100) /\ Magnitude(q) = q
    BY <1>1, <1>2, <1>3, <1>4, <1>5 DEF Magnitude
  <2>3. QED
    BY <1>1, <1>3, <1>4, <2>1, <2>2
<1>6. CASE w < 0
  <2>1. PercentTowardZero(w) = -q
    BY <1>1, <1>3, <1>6 DEF PercentTowardZero, SignOf
  <2>2. /\ Magnitude(-product - w * 100) < Rating
        /\ Magnitude(-product) <= Magnitude(w * 100) /\ Magnitude(-q) = q
    BY <1>1, <1>2, <1>3, <1>4, <1>6 DEF Magnitude
  <2>3. -q \in Int /\ -product \in Int
    OBVIOUS
  <2>4. QED
    BY <1>1, <1>3, <1>4, <2>1, <2>2, <2>3
<1>7. QED
  BY <1>5, <1>6

(* What to_w_set_pct_from_w_set writes for an import limit of the site that a *)
(* percentage of the rating can say: within one of what was asked for, and    *)
(* not more than that.                                                        *)
THEOREM ImportLimitNotExceeded ==
  ASSUME NEW w \in Int, Magnitude(w) * 100 <= MaxI16 * Rating,
         NEW towardZero \in BOOLEAN, towardZero
  PROVE  /\ WSetToPct(w, towardZero) \in Int
         /\ Magnitude(WSetToPct(w, towardZero) * Rating - w * 100) < Rating
         /\ Magnitude(WSetToPct(w, towardZero) * Rating) <= Magnitude(w * 100)
<1>1. PICK pct \in Int, power \in Int, watts \in Nat :
           /\ pct = PercentTowardZero(w) /\ power = pct * Rating /\ watts = Magnitude(w)
           /\ Magnitude(power - w * 100) < Rating
           /\ Magnitude(power) <= Magnitude(w * 100)
           /\ Magnitude(pct) * Rating <= watts * 100
  BY PercentOfSetpoint
<1>2. PICK size \in Nat : size = Magnitude(pct) /\ size \in {pct, -pct}
  BY DEF Magnitude
<1>3. size <= MaxI16
  <2>1. Rating \in Nat \ {0} /\ MaxI16 \in Nat /\ MaxI16 + 1 \in Nat
    BY ParametersAssumption DEF MaxI16
  <2>2. SUFFICES ASSUME MaxI16 + 1 <= size
                 PROVE  FALSE
    BY <2>1
  <2>3. (MaxI16 + 1) * Rating <= size * Rating
    BY <2>1, <2>2, Product
  <2>4. (MaxI16 + 1) * Rating = MaxI16 * Rating + Rating
    BY <2>1, Z3
  <2>5. QED
    BY <1>1, <1>2, <2>1, <2>3, <2>4, Z3
<1>4. WSetToPct(w, towardZero) = pct
  BY <1>1, <1>2, <1>3 DEF WSetToPct, Clamp, MaxI16
<1>5. QED
  BY <1>1, <1>4, Zenon

-----------------------------------------------------------------------------
(* What is written, and what the registers hold. *)

(* What translation makes of a control base. *)
IsParameters(p) ==
  /\ p.es \in BOOLEAN \cup {None}
  /\ p.varEna = IsSet(p.varPct) /\ p.varPct \in Int \cup {None}
  /\ p.wMaxLimEna = IsSet(p.wMaxLimPct) /\ HasLimits(p)
  /\ p.wSetEna = (IsSet(p.wSetPct) \/ IsSet(p.wSet)) /\ p.wSetPct \in Int \cup {None}
  /\ IsSet(p.wSet) => p.wSet \in Int /\ Magnitude(p.wSet) * 100 <= MaxI16 * Rating
  /\ p.isImportSiteLimit \in BOOLEAN /\ (p.isImportSiteLimit => IsSet(p.wSet))
  /\ p.wSetMod = IF IsSet(p.wSetPct) THEN "WMaxPct" ELSE IF IsSet(p.wSet) THEN "Watts" ELSE None
  /\ \A s \in Slot : p.curves[s] \in Curve \cup {None}

LEMMA MagnitudeType ==
  ASSUME NEW w \in Int
  PROVE  /\ Magnitude(w) \in Nat /\ -Magnitude(w) \in Int
         /\ Magnitude(-Magnitude(w)) = Magnitude(w)
BY DEF Magnitude

LEMMA TranslateShape ==
  ASSUME NEW base \in Base
  PROVE  IsParameters(Translate(base)) /\ Translate(base) # None
<1> DEFINE p == Translate(base)
<1>0. IsControlBase(base) /\ p # None
  BY BaseAssumption
<1>a. None \notin Int /\ None \notin BOOLEAN /\ None # "WMaxPct" /\ None # "Watts"
  BY ParametersAssumption
<1>1. p.es \in BOOLEAN \cup {None}
  BY <1>0 DEF IsControlBase, Translate
<1>2. p.varEna = IsSet(p.varPct) /\ p.varPct \in Int \cup {None}
  BY <1>0 DEF IsControlBase, Translate
<1>3. p.wMaxLimEna = IsSet(p.wMaxLimPct)
  BY DEF Translate
<1>4. HasLimits(p)
  <2>1. p.wMaxLim = ExportSiteLimit(base) /\ p.wMaxLimPct = base.maxLimW
    BY DEF Translate
  <2>2. base.expLimW \in Int \cup {None} /\ base.maxLimW \in 0 .. Unlimited \cup {None}
    BY <1>0 DEF IsControlBase
  <2>3. ExportSiteLimit(base) \in Nat \cup {None}
    BY <2>2, MagnitudeType DEF ExportSiteLimit, IsSet
  <2>4. QED
    BY <2>1, <2>2, <2>3 DEF HasLimits
<1>5. /\ p.wSetEna = (IsSet(p.wSetPct) \/ IsSet(p.wSet)) /\ p.wSetPct = base.fixedW
      /\ p.wSet = IF IsSet(base.targetW) THEN base.targetW ELSE ImportSiteLimit(base)
      /\ p.isImportSiteLimit = (~IsSet(base.targetW) /\ IsSet(ImportSiteLimit(base)))
      /\ p.wSetMod = WSetMod(base, p.wSet)
  BY DEF Translate
<1>6. p.wSetPct \in Int \cup {None}
  BY <1>0, <1>5 DEF IsControlBase
<1>7. IsSet(p.wSet) => p.wSet \in Int /\ Magnitude(p.wSet) * 100 <= MaxI16 * Rating
  <2>1. \A w \in {base.targetW, base.impLimW} \ {None} :
          w \in Int /\ Magnitude(w) * 100 <= MaxI16 * Rating
    BY <1>0 DEF IsControlBase
  <2>2. CASE IsSet(base.targetW)
    BY <1>5, <2>1, <2>2 DEF IsSet
  <2>3. CASE ~IsSet(base.targetW) /\ IsSet(ImportSiteLimit(base))
    <3>1. IsSet(base.impLimW) /\ p.wSet = -Magnitude(base.impLimW)
      BY <1>5, <2>3 DEF ImportSiteLimit, IsSet
    <3>2. PICK w \in Int : w = base.impLimW /\ Magnitude(w) * 100 <= MaxI16 * Rating
      BY <2>1, <3>1 DEF IsSet
    <3>3. QED
      BY <3>1, <3>2, MagnitudeType
  <2>4. QED
    BY <1>5, <2>2, <2>3 DEF IsSet
<1>8. p.isImportSiteLimit \in BOOLEAN /\ (p.isImportSiteLimit => IsSet(p.wSet))
  BY <1>5 DEF IsSet
<1>9. p.wSetMod = IF IsSet(p.wSetPct) THEN "WMaxPct" ELSE IF IsSet(p.wSet) THEN "Watts" ELSE None
  BY <1>5 DEF WSetMod
<1>10. \A s \in Slot : p.curves[s] \in Curve \cup {None}
  BY <1>0 DEF IsControlBase, Translate
<1> HIDE DEF p
<1>11. IsParameters(p)
  BY <1>1, <1>2, <1>3, <1>4, <1>5, <1>6, <1>7, <1>8, <1>9, <1>10 DEF IsParameters
<1>12. QED
  BY <1>0, <1>11 DEF p

-----------------------------------------------------------------------------
(* Sequences of writes, of which only the range matters for registers that  *)
(* are written once.                                                        *)

LEMMA Concat ==
  ASSUME NEW S, NEW s \in Seq(S), NEW t \in Seq(S)
  PROVE  s \o t \in Seq(S) /\ Range(s \o t) = Range(s) \cup Range(t)
<1>1. /\ s \o t \in Seq(S) /\ Len(s \o t) = Len(s) + Len(t)
      /\ Len(s) \in Nat /\ Len(t) \in Nat
      /\ DOMAIN s = 1 .. Len(s) /\ DOMAIN t = 1 .. Len(t) /\ DOMAIN (s \o t) = 1 .. Len(s \o t)
      /\ \A i \in 1 .. Len(s) : (s \o t)[i] = s[i]
      /\ \A i \in 1 .. Len(t) : (s \o t)[Len(s) + i] = t[i]
  OBVIOUS
<1>2. \A i \in 1 .. Len(s) + Len(t) :
        i \in 1 .. Len(s) \/ (i - Len(s) \in 1 .. Len(t) /\ i = Len(s) + (i - Len(s)))
  BY <1>1
<1>3. Range(s \o t) \subseteq Range(s) \cup Range(t)
  BY <1>1, <1>2 DEF Range
<1>4. Range(s) \cup Range(t) \subseteq Range(s \o t)
  <2>1. \A i \in 1 .. Len(s) : i \in DOMAIN (s \o t)
    BY <1>1
  <2>2. \A i \in 1 .. Len(t) : Len(s) + i \in DOMAIN (s \o t)
    BY <1>1
  <2>3. QED
    BY <1>1, <2>1, <2>2 DEF Range
<1>5. QED
  BY <1>1, <1>3, <1>4

Joined(s, t) == s \o t

LEMMA JoinedRange ==
  ASSUME NEW S, NEW s \in Seq(S), NEW t \in Seq(S)
  PROVE  Joined(s, t) \in Seq(S) /\ Range(Joined(s, t)) = Range(s) \cup Range(t)
BY Concat DEF Joined

LEMMA Single ==
  ASSUME NEW S, NEW w \in S
  PROVE  /\ <<w>> \in Seq(S) /\ Range(<<w>>) = {w}
         /\ <<>> \in Seq(S) /\ Range(<<>>) = {}
BY DEF Range

LEMMA FirstAndRest ==
  ASSUME NEW S, NEW s \in Seq(S), s # <<>>
  PROVE  /\ Head(s) \in Range(s) /\ Range(s) \subseteq S
         /\ Tail(s) \in Seq(S) /\ Range(s) = {Head(s)} \cup Range(Tail(s))
<1>1. /\ Len(s) \in Nat \ {0} /\ Head(s) = s[1] /\ Tail(s) \in Seq(S)
      /\ DOMAIN s = 1 .. Len(s) /\ DOMAIN Tail(s) = 1 .. Len(s) - 1
      /\ \A i \in 1 .. Len(s) - 1 : Tail(s)[i] = s[i + 1]
      /\ \A i \in 1 .. Len(s) : s[i] \in S
  OBVIOUS
<1>3. 1 \in 1 .. Len(s) /\ \A i \in 1 .. Len(s) - 1 : i + 1 \in 1 .. Len(s)
  BY <1>1
<1>4. Range(s) \subseteq {Head(s)} \cup Range(Tail(s))
  <2> SUFFICES ASSUME NEW i \in 1 .. Len(s)
               PROVE  s[i] \in {Head(s)} \cup Range(Tail(s))
    BY <1>1 DEF Range
  <2>1. CASE i = 1
    BY <1>1, <2>1
  <2>2. CASE i # 1
    <3>1. i - 1 \in 1 .. Len(s) - 1 /\ s[(i - 1) + 1] = s[i]
      BY <1>1, <2>2
    <3>2. Tail(s)[i - 1] = s[i] /\ i - 1 \in DOMAIN Tail(s)
      BY <1>1, <3>1
    <3>3. QED
      BY <3>2 DEF Range
  <2>3. QED
    BY <2>1, <2>2
<1>5. {Head(s)} \cup Range(Tail(s)) \subseteq Range(s)
  BY <1>1, <1>3 DEF Range
<1>6. QED
  BY <1>1, <1>4, <1>5 DEF Range

Content == BOOLEAN \cup Int \cup Curve \cup {"WMaxPct", "Watts"}

PointName ==
  {"es", "varEna", "varPct", "wMaxLimEna", "wMaxLimPct", "wSetEna", "wSetPct", "wSet", "wSetMod"}

Op == [kind : {"point", "stage", "adopt", "enable"},
       at : PointName \cup Slot \cup CurveModel, value : Content]

PointOp == {Point(x, v) : x \in PointName, v \in Content}

LEMMA AlwaysWrite ==
  ASSUME NEW x \in PointName, NEW v \in Content
  PROVE  <<Point(x, v)>> \in Seq(PointOp) /\ Range(<<Point(x, v)>>) = {Point(x, v)}
<1>1. Point(x, v) \in PointOp
  BY DEF PointOp
<1>2. QED
  BY <1>1, Single

LEMMA OneWrite ==
  ASSUME NEW x \in PointName, NEW v \in Content \cup {None}
  PROVE  /\ v # None => Point(x, v) \in PointOp
         /\ IfSome(x, v) \in Seq(PointOp)
         /\ Range(IfSome(x, v)) = IF v = None THEN {} ELSE {Point(x, v)}
<1>1. v # None => Point(x, v) \in PointOp
  BY DEF PointOp
<1>2. CASE v = None
  <2>1. IfSome(x, v) = <<>>
    BY <1>2 DEF IfSome, IsSet
  <2>2. <<>> \in Seq(PointOp) /\ Range(<<>>) = {}
    BY DEF Range
  <2>3. QED
    BY <1>2, <2>1, <2>2
<1>3. CASE v # None
  <2>1. IfSome(x, v) = <<Point(x, v)>>
    BY <1>3 DEF IfSome, IsSet
  <2>2. QED
    BY <1>1, <1>3, <2>1, Single
<1>4. QED
  BY <1>1, <1>2, <1>3

LEMMA Conditional ==
  ASSUME NEW S, NEW condition \in BOOLEAN, NEW s \in Seq(S)
  PROVE  /\ When(condition, s) \in Seq(S)
         /\ Range(When(condition, s)) = IF condition THEN Range(s) ELSE {}
<1>1. CASE condition
  BY <1>1 DEF When
<1>2. CASE ~condition
  BY <1>2 DEF When, Range
<1>3. QED
  BY <1>1, <1>2

-----------------------------------------------------------------------------
(* What is written to the registers of models 703 and 704. *)

LEMMA Distinct ==
  /\ None \notin Int /\ None \notin BOOLEAN /\ None # "WMaxPct" /\ None # "Watts"
  /\ None \notin Curve /\ None \notin Content
BY ParametersAssumption DEF Content

LEMMA LimitPctType ==
  ASSUME NEW p, IsParameters(p), NEW r \in BOOLEAN
  PROVE  /\ LimitPct(p, r) \in Int \cup {None}
         /\ (IsSet(p.wMaxLim) /\ r) \/ IsSet(p.wMaxLimPct) => LimitPct(p, r) # None
         /\ ~IsSet(p.wMaxLim) => LimitPct(p, r) = p.wMaxLimPct
<1>1. p.wMaxLim \in Nat \cup {None} /\ p.wMaxLimPct \in 0 .. Unlimited \cup {None}
  BY DEF IsParameters, HasLimits
<1>2. 0 .. Unlimited \subseteq Int /\ 0 .. MaxU16 \subseteq Int
  BY MaxU16Type DEF Unlimited
<1>3. IsSet(p.wMaxLim) => WMaxLimToPct(p.wMaxLim) \in Int
  BY <1>1, <1>2, ExportLimitNotExceeded DEF IsSet
<1> DEFINE derived == WMaxLimToPct(p.wMaxLim)
<1>4. LimitPct(p, r) = IF ~IsSet(p.wMaxLim) \/ ~r THEN p.wMaxLimPct
                       ELSE IF IsSet(p.wMaxLimPct) /\ derived >= p.wMaxLimPct THEN p.wMaxLimPct
                       ELSE derived
  BY DEF LimitPct
<1>5. IsSet(p.wMaxLim) => derived # None
  BY <1>3, Distinct
<1> HIDE DEF derived
<1>6. IsSet(p.wMaxLimPct) => p.wMaxLimPct # None /\ p.wMaxLimPct \in Int
  BY <1>1, <1>2 DEF IsSet
<1>7. p.wMaxLimPct \in Int \cup {None}
  BY <1>1, <1>2
<1>8. QED
  BY <1>3, <1>4, <1>5, <1>6, <1>7 DEF derived

LimitOn(p) == IsSet(p.wMaxLim) \/ IsSet(p.wMaxLimPct)

LimitGoes(p, r, retry) == (~retry \/ IsSet(p.wMaxLim)) /\ ~LimitPending(p, r)

LEMMA LimitWritesRange ==
  ASSUME NEW p, IsParameters(p), NEW r \in BOOLEAN, NEW retry \in BOOLEAN
  PROVE  /\ LimitWrites(p, r, retry) \in Seq(PointOp)
         /\ Range(LimitWrites(p, r, retry)) =
              IF LimitGoes(p, r, retry)
              THEN {Point("wMaxLimEna", LimitOn(p))}
                     \cup (IF LimitPct(p, r) = None THEN {} ELSE {Point("wMaxLimPct", LimitPct(p, r))})
              ELSE {}
<1> DEFINE on == LimitOn(p)
           first == <<Point("wMaxLimEna", on)>>
           second == IfSome("wMaxLimPct", LimitPct(p, r))
<1>1. on = (p.wMaxLimEna \/ (IsSet(p.wMaxLim) /\ ~IsSet(p.wMaxLimPct))) /\ on \in BOOLEAN
  BY DEF IsParameters, IsSet, LimitOn
<1>3. first \in Seq(PointOp) /\ Range(first) = {Point("wMaxLimEna", on)}
  <2>1. PICK b \in BOOLEAN : b = on
    BY <1>1
  <2>2. b \in Content /\ "wMaxLimEna" \in PointName
    BY DEF Content, PointName
  <2>3. QED
    BY <2>1, <2>2, AlwaysWrite
<1>4. LimitPct(p, r) \in Content \cup {None} /\ "wMaxLimPct" \in PointName
  BY LimitPctType DEF Content, PointName
<1>5. /\ second \in Seq(PointOp)
      /\ Range(second) = IF LimitPct(p, r) = None THEN {} ELSE {Point("wMaxLimPct", LimitPct(p, r))}
  BY <1>4, OneWrite
<1>6. LimitWrites(p, r, retry) = When(LimitGoes(p, r, retry), first \o second)
  BY <1>1 DEF LimitWrites, LimitGoes
<1>7. LimitGoes(p, r, retry) \in BOOLEAN
  BY DEF LimitGoes
<1> HIDE DEF on, first, second
<1>8. first \o second \in Seq(PointOp) /\ Range(first \o second) = Range(first) \cup Range(second)
  BY <1>3, <1>5, Concat
<1>9. /\ LimitWrites(p, r, retry) \in Seq(PointOp)
      /\ Range(LimitWrites(p, r, retry)) =
           IF LimitGoes(p, r, retry) THEN Range(first) \cup Range(second) ELSE {}
  <2>1. PICK g \in BOOLEAN : g = LimitGoes(p, r, retry)
    BY <1>7
  <2>2. PICK both \in Seq(PointOp) : both = first \o second
    BY <1>8
  <2>3. /\ When(g, both) \in Seq(PointOp)
        /\ Range(When(g, both)) = IF g THEN Range(both) ELSE {}
    BY Conditional
  <2>4. QED
    BY <1>6, <1>8, <2>1, <2>2, <2>3
<1>10. QED
  BY <1>3, <1>5, <1>9 DEF on

LEMMA SetPctType ==
  ASSUME NEW p, IsParameters(p), NEW r \in BOOLEAN
  PROVE  /\ SetPct(p, r) \in Int \cup {None}
         /\ SetPct(p, r) # None <=> IsSet(p.wSetPct) \/ (SetDerived(p) /\ r)
<1>1. SetDerived(p) => WSetToPct(p.wSet, p.isImportSiteLimit) \in Int
  <2> SUFFICES ASSUME SetDerived(p)
               PROVE  WSetToPct(p.wSet, p.isImportSiteLimit) \in Int
    OBVIOUS
  <2>1. PICK w \in Int : w = p.wSet
    BY DEF SetDerived, IsParameters
  <2>2. SignOf(w) \in Int /\ Magnitude(w) \in Nat /\ Magnitude(w) * 100 \in Nat /\ Rating \in Nat \ {0}
    <3>1. Rating \in Nat \ {0}
      BY ParametersAssumption
    <3>2. QED
      BY <3>1, MagnitudeType DEF SignOf
  <2>3. \A n \in Nat : n \div Rating \in Nat
    BY <2>2, Division
  <2>4. PercentTowardZero(w) \in Int
    <3>1. PICK q \in Nat : q = (Magnitude(w) * 100) \div Rating
      BY <2>2, <2>3
    <3>2. QED
      BY <2>2, <3>1, Z3 DEF PercentTowardZero
  <2>5. PercentNearest(w) \in Int
    <3>1. PICK q \in Nat : q = (Magnitude(w) * 100) \div Rating
      BY <2>2, <2>3
    <3>2. PICK up \in {0, 1} :
            up = IF 2 * ((Magnitude(w) * 100) % Rating) >= Rating THEN 1 ELSE 0
      OBVIOUS
    <3>3. PercentNearest(w) = SignOf(w) * (q + up)
      BY <3>1, <3>2 DEF PercentNearest
    <3>4. QED
      BY <2>2, <3>1, <3>2, <3>3, Z3
  <2>6. QED
    BY <2>1, <2>4, <2>5 DEF WSetToPct, Clamp, MaxI16
<1>2. QED
  BY <1>1, Distinct DEF SetPct, SetDerived, IsSet, IsParameters

SetGoes(p, r, retry) ==
  (~retry \/ SetDerived(p)) /\ ~(p.isImportSiteLimit /\ SetPending(p, r))

ViaPct(p, r) == p.isImportSiteLimit /\ SetPct(p, r) # None

Mode(p, r) == IF ViaPct(p, r) THEN "WMaxPct" ELSE p.wSetMod

Only(condition, S) == IF condition THEN S ELSE {}

LEMMA SetWritesRange ==
  ASSUME NEW p, IsParameters(p), NEW r \in BOOLEAN, NEW retry \in BOOLEAN
  PROVE  /\ SetWrites(p, r, retry) \in Seq(PointOp)
         /\ Range(SetWrites(p, r, retry)) =
              Only(SetGoes(p, r, retry),
                   Only(~retry \/ p.isImportSiteLimit, {Point("wSetEna", p.wSetEna)})
                     \cup Only(SetPct(p, r) # None, {Point("wSetPct", SetPct(p, r))})
                     \cup Only(~retry /\ ~ViaPct(p, r) /\ IsSet(p.wSet), {Point("wSet", p.wSet)})
                     \cup Only((~retry \/ p.isImportSiteLimit) /\ Mode(p, r) # None,
                               {Point("wSetMod", Mode(p, r))}))
<1>a. /\ p.wSetEna \in BOOLEAN /\ p.wSet \in Content \cup {None} /\ p.wSetMod \in Content \cup {None}
      /\ SetPct(p, r) \in Content \cup {None}
      /\ p.isImportSiteLimit \in BOOLEAN
  BY SetPctType DEF IsParameters, Content, IsSet
<1>b. /\ "wSetEna" \in PointName /\ "wSetPct" \in PointName /\ "wSet" \in PointName
      /\ "wSetMod" \in PointName /\ BOOLEAN \subseteq Content /\ "WMaxPct" \in Content
  BY DEF PointName, Content
<1> PICK sets \in BOOLEAN : sets = (~retry \/ p.isImportSiteLimit)
  BY <1>a
<1> PICK inWatts \in BOOLEAN : inWatts = (~retry /\ ~ViaPct(p, r))
  BY <1>a DEF ViaPct
<1> PICK goes \in BOOLEAN : goes = SetGoes(p, r, retry)
  BY <1>a DEF SetGoes
<1> DEFINE ena == <<Point("wSetEna", p.wSetEna)>>
           pct == IfSome("wSetPct", SetPct(p, r))
           watts == IfSome("wSet", p.wSet)
           mod == IfSome("wSetMod", Mode(p, r))
<1>1. SetWrites(p, r, retry) =
        When(goes, When(sets, ena) \o pct \o When(inWatts, watts) \o When(sets, mod))
  BY <1>a DEF SetWrites, SetGoes, ViaPct, Mode, IsSet
<1>2. When(sets, ena) \in Seq(PointOp) /\ Range(When(sets, ena)) = Only(sets, {Point("wSetEna", p.wSetEna)})
  <2>1. ena \in Seq(PointOp) /\ Range(ena) = {Point("wSetEna", p.wSetEna)}
    BY <1>a, <1>b, AlwaysWrite
  <2> HIDE DEF ena
  <2>2. QED
    BY <2>1, Conditional DEF Only
<1>3. pct \in Seq(PointOp) /\ Range(pct) = Only(SetPct(p, r) # None, {Point("wSetPct", SetPct(p, r))})
  BY <1>a, <1>b, OneWrite DEF Only
<1>4. /\ When(inWatts, watts) \in Seq(PointOp)
      /\ Range(When(inWatts, watts)) = Only(inWatts /\ IsSet(p.wSet), {Point("wSet", p.wSet)})
  <2>1. watts \in Seq(PointOp) /\ Range(watts) = Only(IsSet(p.wSet), {Point("wSet", p.wSet)})
    BY <1>a, <1>b, OneWrite DEF Only, IsSet
  <2> HIDE DEF watts
  <2>2. QED
    BY <2>1, Conditional DEF Only
<1>5. /\ When(sets, mod) \in Seq(PointOp)
      /\ Range(When(sets, mod)) = Only(sets /\ Mode(p, r) # None, {Point("wSetMod", Mode(p, r))})
  <2>0. Mode(p, r) \in Content \cup {None}
    BY <1>a, <1>b DEF Mode
  <2>1. mod \in Seq(PointOp) /\ Range(mod) = Only(Mode(p, r) # None, {Point("wSetMod", Mode(p, r))})
    BY <2>0, <1>b, OneWrite DEF Only
  <2> HIDE DEF mod
  <2>2. QED
    BY <2>1, Conditional DEF Only
<1> HIDE DEF ena, pct, watts, mod
<1>6. PICK all \in Seq(PointOp) :
        /\ all = When(sets, ena) \o pct \o When(inWatts, watts) \o When(sets, mod)
        /\ Range(all) = Range(When(sets, ena)) \cup Range(pct) \cup Range(When(inWatts, watts))
                          \cup Range(When(sets, mod))
  <2>1. /\ When(sets, ena) \in Seq(PointOp) /\ pct \in Seq(PointOp)
        /\ When(inWatts, watts) \in Seq(PointOp) /\ When(sets, mod) \in Seq(PointOp)
    BY <1>2, <1>3, <1>4, <1>5
  <2>2. PICK s1 \in Seq(PointOp), s2 \in Seq(PointOp), s3 \in Seq(PointOp), s4 \in Seq(PointOp) :
          s1 = When(sets, ena) /\ s2 = pct /\ s3 = When(inWatts, watts) /\ s4 = When(sets, mod)
    BY <2>1
  <2>3. PICK s12 \in Seq(PointOp) : s12 = Joined(s1, s2) /\ Range(s12) = Range(s1) \cup Range(s2)
    BY JoinedRange
  <2>4. PICK s123 \in Seq(PointOp) :
          s123 = Joined(s12, s3) /\ Range(s123) = Range(s12) \cup Range(s3)
    BY JoinedRange
  <2>5. PICK s \in Seq(PointOp) : s = Joined(s123, s4) /\ Range(s) = Range(s123) \cup Range(s4)
    BY JoinedRange
  <2>6. s = When(sets, ena) \o pct \o When(inWatts, watts) \o When(sets, mod)
    <3>1. s = s1 \o s2 \o s3 \o s4
      BY <2>3, <2>4, <2>5, Zenon DEF Joined
    <3>2. QED
      BY <2>2, <3>1
  <2>7. Range(s) = Range(When(sets, ena)) \cup Range(pct) \cup Range(When(inWatts, watts))
                     \cup Range(When(sets, mod))
    BY <2>2, <2>3, <2>4, <2>5
  <2>8. QED
    BY <2>6, <2>7
<1>7. When(goes, all) \in Seq(PointOp) /\ Range(When(goes, all)) = Only(goes, Range(all))
  BY Conditional DEF Only
<1>8. SetWrites(p, r, retry) \in Seq(PointOp) /\ Range(SetWrites(p, r, retry)) = Only(goes, Range(all))
  BY <1>1, <1>6, <1>7
<1>9. Range(all) =
        Only(sets, {Point("wSetEna", p.wSetEna)})
          \cup Only(SetPct(p, r) # None, {Point("wSetPct", SetPct(p, r))})
          \cup Only(inWatts /\ IsSet(p.wSet), {Point("wSet", p.wSet)})
          \cup Only(sets /\ Mode(p, r) # None, {Point("wSetMod", Mode(p, r))})
  BY <1>2, <1>3, <1>4, <1>5, <1>6
<1>10. QED
  BY <1>8, <1>9

Settings(p) ==
  {Point("varEna", p.varEna)} \cup Only(p.varPct # None, {Point("varPct", p.varPct)})
    \cup Only(p.es # None, {Point("es", p.es)})

LEMMA DerivationWritesRange ==
  ASSUME NEW p, IsParameters(p), NEW r \in BOOLEAN, NEW retry \in BOOLEAN
  PROVE  /\ DerivationWrites(p, r, retry) \in Seq(PointOp)
         /\ Range(DerivationWrites(p, r, retry)) =
              Range(LimitWrites(p, r, retry)) \cup Range(SetWrites(p, r, retry))
<1>1. LimitWrites(p, r, retry) \in Seq(PointOp) /\ SetWrites(p, r, retry) \in Seq(PointOp)
  BY LimitWritesRange, SetWritesRange
<1>2. PICK l \in Seq(PointOp), s \in Seq(PointOp) :
        l = LimitWrites(p, r, retry) /\ s = SetWrites(p, r, retry)
  BY <1>1
<1>3. l \o s \in Seq(PointOp) /\ Range(l \o s) = Range(l) \cup Range(s)
  BY Concat
<1>4. QED
  BY <1>2, <1>3 DEF DerivationWrites

LEMMA PointWritesRange ==
  ASSUME NEW p, IsParameters(p), NEW r \in BOOLEAN
  PROVE  /\ PointWrites(p, r) \in Seq(PointOp)
         /\ Range(PointWrites(p, r)) = Settings(p) \cup Range(DerivationWrites(p, r, FALSE))
<1>1. PICK retry \in BOOLEAN : retry = FALSE
  OBVIOUS
<1>2. PICK d \in Seq(PointOp) : d = DerivationWrites(p, r, FALSE)
  BY <1>1, DerivationWritesRange
<1>3. /\ p.varEna \in Content /\ p.varPct \in Content \cup {None} /\ p.es \in Content \cup {None}
      /\ "varEna" \in PointName /\ "varPct" \in PointName /\ "es" \in PointName
  BY DEF IsParameters, IsSet, Content, PointName
<1>4. PICK e \in Seq(PointOp) :
        e = IfSome("es", p.es) /\ Range(e) = Only(p.es # None, {Point("es", p.es)})
  BY <1>3, OneWrite DEF Only
<1>5. PICK v \in Seq(PointOp) :
        v = <<Point("varEna", p.varEna)>> /\ Range(v) = {Point("varEna", p.varEna)}
  BY <1>3, AlwaysWrite
<1>6. PICK x \in Seq(PointOp) :
        x = IfSome("varPct", p.varPct) /\ Range(x) = Only(p.varPct # None, {Point("varPct", p.varPct)})
  BY <1>3, OneWrite DEF Only
<1>7. PICK vx \in Seq(PointOp) : vx = Joined(v, x) /\ Range(vx) = Range(v) \cup Range(x)
  BY JoinedRange
<1>8. PICK evx \in Seq(PointOp) : evx = Joined(e, vx) /\ Range(evx) = Range(e) \cup Range(vx)
  BY JoinedRange
<1>9. PICK all \in Seq(PointOp) : all = Joined(evx, d) /\ Range(all) = Range(evx) \cup Range(d)
  BY JoinedRange
<1>10. PointWrites(p, r) = all
  BY <1>2, <1>4, <1>5, <1>6, <1>7, <1>8, <1>9, Zenon DEF PointWrites, Settings704, Joined
<1>11. Range(all) = Settings(p) \cup Range(d)
  <2>1. Range(all) = (Range(e) \cup (Range(v) \cup Range(x))) \cup Range(d)
    BY <1>7, <1>8, <1>9, Zenon
  <2>2. Settings(p) = Range(v) \cup Range(x) \cup Range(e)
    BY <1>4, <1>5, <1>6, Zenon DEF Settings
  <2>3. \A E, V, X, D : (E \cup (V \cup X)) \cup D = (V \cup X \cup E) \cup D
    OBVIOUS
  <2>4. QED
    BY <2>1, <2>2, <2>3, Zenon
<1>12. QED
  BY <1>2, <1>10, <1>11

-----------------------------------------------------------------------------
(* A register is written one value, whatever the job. *)

(* The writes of model 704 that set the setpoint, one by one. *)
IsSetWrite(p, r, retry, w) ==
  /\ SetGoes(p, r, retry)
  /\ \/ (~retry \/ p.isImportSiteLimit) /\ w = Point("wSetEna", p.wSetEna)
     \/ SetPct(p, r) # None /\ w = Point("wSetPct", SetPct(p, r))
     \/ ~retry /\ ~ViaPct(p, r) /\ IsSet(p.wSet) /\ w = Point("wSet", p.wSet)
     \/ /\ (~retry \/ p.isImportSiteLimit) /\ Mode(p, r) # None
        /\ w = Point("wSetMod", Mode(p, r))

LEMMA SetWritesMember ==
  ASSUME NEW p, IsParameters(p), NEW r \in BOOLEAN, NEW retry \in BOOLEAN, NEW w
  PROVE  w \in Range(SetWrites(p, r, retry)) <=> IsSetWrite(p, r, retry, w)
<1>1. Range(SetWrites(p, r, retry)) =
        IF SetGoes(p, r, retry)
        THEN (IF ~retry \/ p.isImportSiteLimit THEN {Point("wSetEna", p.wSetEna)} ELSE {})
               \cup (IF SetPct(p, r) # None THEN {Point("wSetPct", SetPct(p, r))} ELSE {})
               \cup (IF ~retry /\ ~ViaPct(p, r) /\ IsSet(p.wSet) THEN {Point("wSet", p.wSet)} ELSE {})
               \cup (IF (~retry \/ p.isImportSiteLimit) /\ Mode(p, r) # None
                     THEN {Point("wSetMod", Mode(p, r))} ELSE {})
        ELSE {}
  BY SetWritesRange DEF Only
<1>2. QED
  BY <1>1 DEF IsSetWrite

LEMMA SentOf ==
  ASSUME NEW p, IsParameters(p), NEW r \in BOOLEAN, NEW first \in BOOLEAN, first = FALSE, NEW w
  PROVE  w \in Range(PointWrites(p, r)) <=>
           \/ w \in Settings(p) \/ w \in Range(LimitWrites(p, r, first))
           \/ w \in Range(SetWrites(p, r, first))
<1>1. Range(PointWrites(p, r)) = Settings(p) \cup Range(DerivationWrites(p, r, first))
  BY PointWritesRange
<1>2. Range(DerivationWrites(p, r, first)) =
        Range(LimitWrites(p, r, first)) \cup Range(SetWrites(p, r, first))
  BY DerivationWritesRange, Zenon
<1>3. QED
  BY <1>1, <1>2, Zenon

LEMMA OneValue ==
  ASSUME NEW p, IsParameters(p), NEW r \in BOOLEAN,
         NEW w \in Range(PointWrites(p, r))
  PROVE  \/ w = Point("es", p.es) \/ w = Point("varEna", p.varEna) \/ w = Point("varPct", p.varPct)
         \/ w = Point("wMaxLimEna", LimitOn(p)) \/ w = Point("wMaxLimPct", LimitPct(p, r))
         \/ w = Point("wSetEna", p.wSetEna) \/ w = Point("wSetPct", SetPct(p, r))
         \/ w = Point("wSet", p.wSet) \/ w = Point("wSetMod", Mode(p, r))
<1>1. PICK retry \in BOOLEAN : retry = FALSE
  OBVIOUS
<1>2. \/ w \in Settings(p) \/ w \in Range(LimitWrites(p, r, retry))
      \/ w \in Range(SetWrites(p, r, retry))
  BY <1>1, SentOf, Zenon
<1>3. CASE w \in Settings(p)
  BY <1>3, Zenon DEF Settings, Only
<1>4. CASE w \in Range(LimitWrites(p, r, retry))
  <2>1. Range(LimitWrites(p, r, retry)) =
          IF LimitGoes(p, r, retry)
          THEN {Point("wMaxLimEna", LimitOn(p))}
                 \cup (IF LimitPct(p, r) = None THEN {} ELSE {Point("wMaxLimPct", LimitPct(p, r))})
          ELSE {}
    BY LimitWritesRange
  <2>2. QED
    BY <1>4, <2>1, Zenon
<1>5. CASE w \in Range(SetWrites(p, r, retry))
  <2>1. IsSetWrite(p, r, retry, w)
    BY <1>5, SetWritesMember
  <2>2. QED
    BY <2>1, Zenon DEF IsSetWrite
<1>6. QED
  BY <1>2, <1>3, <1>4, <1>5, Zenon

LEMMA Functional ==
  ASSUME NEW p, IsParameters(p), NEW r \in BOOLEAN,
         NEW v \in Range(PointWrites(p, r)), NEW w \in Range(PointWrites(p, r)), v.at = w.at
  PROVE  v = w
BY OneValue DEF Point

(* A retry writes some of what sending writes. *)
LEMMA RetryWrites ==
  ASSUME NEW p, IsParameters(p), NEW r \in BOOLEAN
  PROVE  /\ DerivationWrites(p, r, TRUE) \in Seq(PointOp)
         /\ Range(DerivationWrites(p, r, TRUE)) \subseteq Range(PointWrites(p, r))
<1> PICK again \in BOOLEAN : again = TRUE
  OBVIOUS
<1> PICK first \in BOOLEAN : first = FALSE
  OBVIOUS
<1>1. Range(LimitWrites(p, r, again)) \subseteq Range(LimitWrites(p, r, first))
  <2>1. LimitGoes(p, r, again) => LimitGoes(p, r, first)
    BY DEF LimitGoes
  <2>2. QED
    BY <2>1, LimitWritesRange
<1>2. Range(SetWrites(p, r, again)) \subseteq Range(SetWrites(p, r, first))
  <2>1. SetGoes(p, r, again) => SetGoes(p, r, first)
    BY DEF SetGoes
  <2>2. first = FALSE /\ again = TRUE
    OBVIOUS
  <2>3. ASSUME NEW w \in Range(SetWrites(p, r, again))
        PROVE  w \in Range(SetWrites(p, r, first))
    <3>1. IsSetWrite(p, r, again, w)
      BY <2>3, SetWritesMember
    <3>2. IsSetWrite(p, r, first, w)
      BY <2>1, <2>2, <3>1, Zenon DEF IsSetWrite
    <3>3. QED
      BY <3>2, SetWritesMember
  <2>4. QED
    BY <2>3, Zenon
<1>3. /\ DerivationWrites(p, r, again) \in Seq(PointOp)
      /\ Range(DerivationWrites(p, r, again)) \subseteq Range(DerivationWrites(p, r, first))
  <2>1. \A retry \in BOOLEAN :
          /\ DerivationWrites(p, r, retry) \in Seq(PointOp)
          /\ Range(DerivationWrites(p, r, retry)) =
               Range(LimitWrites(p, r, retry)) \cup Range(SetWrites(p, r, retry))
    BY DerivationWritesRange, Zenon
  <2>2. QED
    BY <1>1, <1>2, <2>1, Zenon
<1>4. Range(PointWrites(p, r)) = Settings(p) \cup Range(DerivationWrites(p, r, first))
  BY PointWritesRange
<1>5. QED
  BY <1>3, <1>4

(* What sending writes was written before the rating was known, or is written *)
(* by the retry.                                                              *)
LEMMA RetryCompletes ==
  ASSUME NEW p, IsParameters(p), NEW r \in BOOLEAN
  PROVE  Range(PointWrites(p, r))
           \subseteq Range(DerivationWrites(p, r, TRUE)) \cup Range(PointWrites(p, FALSE))
<1> PICK again \in BOOLEAN : again = TRUE
  OBVIOUS
<1> PICK first \in BOOLEAN : first = FALSE
  OBVIOUS
<1>1. Range(LimitWrites(p, r, first))
        \subseteq Range(LimitWrites(p, r, again)) \cup Range(LimitWrites(p, first, first))
  <2>1. CASE IsSet(p.wMaxLim)
    <3>1. LimitGoes(p, r, first) => LimitGoes(p, r, again)
      BY <2>1 DEF LimitGoes
    <3>2. QED
      BY <3>1, LimitWritesRange
  <2>2. CASE ~IsSet(p.wMaxLim)
    <3>1. LimitGoes(p, first, first) /\ LimitPct(p, first) = LimitPct(p, r)
      BY <2>2, LimitPctType DEF LimitGoes, LimitPending
    <3>2. QED
      BY <3>1, LimitWritesRange
  <2>3. QED
    BY <2>1, <2>2
<1>2. Range(SetWrites(p, r, first))
        \subseteq Range(SetWrites(p, r, again)) \cup Range(SetWrites(p, first, first))
  <2>1. CASE ~SetDerived(p)
    <3>1. /\ SetGoes(p, first, first) /\ SetPct(p, first) = SetPct(p, r)
          /\ ViaPct(p, first) = ViaPct(p, r) /\ Mode(p, first) = Mode(p, r)
      BY <2>1 DEF SetGoes, SetPending, SetPct, ViaPct, Mode
    <3>2. ASSUME NEW w \in Range(SetWrites(p, r, first))
          PROVE  w \in Range(SetWrites(p, first, first))
      <4>1. IsSetWrite(p, r, first, w)
        BY <3>2, SetWritesMember
      <4>2. IsSetWrite(p, first, first, w)
        BY <3>1, <4>1 DEF IsSetWrite
      <4>3. QED
        BY <4>2, SetWritesMember
    <3>3. QED
      BY <3>2, Zenon
  <2>2. CASE SetDerived(p) /\ p.isImportSiteLimit
    <3>1. SetGoes(p, r, first) => SetGoes(p, r, again) /\ ViaPct(p, r)
      BY <2>2, SetPctType DEF SetGoes, SetPending, ViaPct
    <3>2. ASSUME NEW w \in Range(SetWrites(p, r, first))
          PROVE  w \in Range(SetWrites(p, r, again))
      <4>1. IsSetWrite(p, r, first, w)
        BY <3>2, SetWritesMember
      <4>2. IsSetWrite(p, r, again, w)
        BY <2>2, <3>1, <4>1 DEF IsSetWrite
      <4>3. QED
        BY <4>2, SetWritesMember
    <3>3. QED
      BY <3>2, Zenon
  <2>3. CASE SetDerived(p) /\ ~p.isImportSiteLimit
    <3>1. /\ SetGoes(p, first, first) /\ SetGoes(p, r, again)
          /\ ~ViaPct(p, first) /\ ~ViaPct(p, r) /\ Mode(p, first) = Mode(p, r)
      BY <2>3 DEF SetGoes, ViaPct, Mode
    <3>2. first = FALSE /\ again = TRUE
      OBVIOUS
    <3>3. ASSUME NEW w \in Range(SetWrites(p, r, first))
          PROVE  w \in Range(SetWrites(p, r, again)) \cup Range(SetWrites(p, first, first))
      <4>1. IsSetWrite(p, r, first, w)
        BY <3>3, SetWritesMember
      <4>2. IsSetWrite(p, r, again, w) \/ IsSetWrite(p, first, first, w)
        BY <3>1, <3>2, <4>1 DEF IsSetWrite
      <4>3. QED
        BY <4>2, SetWritesMember
    <3>4. QED
      BY <3>3, Zenon
  <2>4. QED
    BY <2>1, <2>2, <2>3 DEF IsParameters
<1>3. Range(DerivationWrites(p, r, first))
        \subseteq Range(DerivationWrites(p, r, again)) \cup Range(DerivationWrites(p, first, first))
  <2>1. \A q \in BOOLEAN, retry \in BOOLEAN :
          Range(DerivationWrites(p, q, retry)) =
            Range(LimitWrites(p, q, retry)) \cup Range(SetWrites(p, q, retry))
    BY DerivationWritesRange
  <2>2. QED
    BY <1>1, <1>2, <2>1
<1>4. /\ Range(PointWrites(p, r)) = Settings(p) \cup Range(DerivationWrites(p, r, first))
      /\ Range(PointWrites(p, first)) = Settings(p) \cup Range(DerivationWrites(p, first, first))
  BY PointWritesRange
<1>5. QED
  BY <1>3, <1>4

-----------------------------------------------------------------------------
(* The registers q of models 703 and 704 hold what p asks for, or the write  *)
(* of it is in S.                                                            *)
PointsComing(q, p, r, S) ==
  \A w \in Range(PointWrites(p, r)) : w \in S \/ q.point[w.at] = w.value

LEMMA Held ==
  ASSUME NEW p, NEW r, PointsComing(regs, p, r, {}), NEW x, NEW v,
         Point(x, v) \in Range(PointWrites(p, r))
  PROVE  regs.point[x] = v
<1>1. Point(x, v).at = x /\ Point(x, v).value = v
  BY DEF Point
<1>2. QED
  BY <1>1 DEF PointsComing

LEMMA HeldSettings ==
  ASSUME NEW p, IsParameters(p), NEW r \in BOOLEAN, PointsComing(regs, p, r, {})
  PROVE  EsAgrees(p) /\ VarAgrees(p)
<1>1. Settings(p) \subseteq Range(PointWrites(p, r))
  BY PointWritesRange
<1>2. EsAgrees(p)
  <2>1. IsSet(p.es) => Point("es", p.es) \in Settings(p)
    BY DEF Settings, Only, IsSet
  <2>2. QED
    BY <1>1, <2>1, Held DEF EsAgrees
<1>3. VarAgrees(p)
  <2>1. /\ Point("varEna", p.varEna) \in Settings(p)
        /\ IsSet(p.varPct) => Point("varPct", p.varPct) \in Settings(p)
    BY DEF Settings, Only, IsSet
  <2>2. regs.point["varEna"] = p.varEna /\ (IsSet(p.varPct) => regs.point["varPct"] = p.varPct)
    BY <1>1, <2>1, Held
  <2>3. QED
    BY <2>2 DEF VarAgrees, IsParameters
<1>4. QED
  BY <1>2, <1>3

LEMMA WhatIsSent ==
  ASSUME NEW p, IsParameters(p), NEW r \in BOOLEAN, NEW first \in BOOLEAN, first = FALSE
  PROVE  /\ Range(LimitWrites(p, r, first)) \subseteq Range(PointWrites(p, r))
         /\ Range(SetWrites(p, r, first)) \subseteq Range(PointWrites(p, r))
<1>1. Range(PointWrites(p, r)) = Settings(p) \cup Range(DerivationWrites(p, r, first))
  BY PointWritesRange
<1>2. Range(DerivationWrites(p, r, first)) =
        Range(LimitWrites(p, r, first)) \cup Range(SetWrites(p, r, first))
  BY DerivationWritesRange
<1>3. QED
  BY <1>1, <1>2

LEMMA HeldLimit ==
  ASSUME NEW p, IsParameters(p), NEW r \in BOOLEAN, PointsComing(regs, p, r, {}),
         ~LimitPending(p, r)
  PROVE  LimitAgrees(p)
<1> PICK first \in BOOLEAN : first = FALSE
  OBVIOUS
<1> PICK known \in BOOLEAN : known = TRUE
  OBVIOUS
<1>1. Range(LimitWrites(p, r, first)) \subseteq Range(PointWrites(p, r))
  BY WhatIsSent
<1>2. LimitGoes(p, r, first)
  BY DEF LimitGoes
<1>3. regs.point["wMaxLimEna"] = LimitOn(p)
  <2>1. Point("wMaxLimEna", LimitOn(p)) \in Range(LimitWrites(p, r, first))
    BY <1>2, LimitWritesRange
  <2>2. QED
    BY <1>1, <2>1, Held
<1>4. LimitOn(p) => regs.point["wMaxLimPct"] = LimitPct(p, known)
  <2> SUFFICES ASSUME LimitOn(p)
               PROVE  regs.point["wMaxLimPct"] = LimitPct(p, known)
    OBVIOUS
  <2>1. LimitPct(p, r) # None
    BY LimitPctType DEF LimitOn, LimitPending
  <2>2. Point("wMaxLimPct", LimitPct(p, r)) \in Range(LimitWrites(p, r, first))
    BY <1>2, <2>1, LimitWritesRange
  <2>3. LimitPct(p, r) = LimitPct(p, known)
    BY DEF LimitPct, LimitPending
  <2>4. QED
    BY <1>1, <2>2, <2>3, Held
<1>5. LimitOn(p) => Capped(LimitPct(p, TRUE)) = AskedLimit(p)
  BY WritesAskedLimit DEF LimitOn, IsParameters
<1>6. QED
  BY <1>3, <1>4, <1>5 DEF LimitAgrees, LimitOn

LEMMA HeldSetpoint ==
  ASSUME NEW p, IsParameters(p), NEW r \in BOOLEAN, PointsComing(regs, p, r, {}),
         ~SetPending(p, r)
  PROVE  SetAgrees(p)
<1> PICK first \in BOOLEAN : first = FALSE
  OBVIOUS
<1>0. first = FALSE
  OBVIOUS
<1>1. Range(SetWrites(p, r, first)) \subseteq Range(PointWrites(p, r))
  BY WhatIsSent
<1>2. SetGoes(p, r, first)
  BY DEF SetGoes
<1>3. regs.point["wSetEna"] = p.wSetEna
  <2>1. Point("wSetEna", p.wSetEna) \in Range(SetWrites(p, r, first))
    BY <1>0, <1>2, SetWritesMember DEF IsSetWrite
  <2>2. QED
    BY <1>1, <2>1, Held
<1>4. Mode(p, r) # None => regs.point["wSetMod"] = Mode(p, r)
  <2>1. Mode(p, r) # None => Point("wSetMod", Mode(p, r)) \in Range(SetWrites(p, r, first))
    BY <1>0, <1>2, SetWritesMember DEF IsSetWrite
  <2>2. QED
    BY <1>1, <2>1, Held, Zenon
<1>5. SetPct(p, r) # None => regs.point["wSetPct"] = SetPct(p, r)
  <2>1. SetPct(p, r) # None => Point("wSetPct", SetPct(p, r)) \in Range(SetWrites(p, r, first))
    BY <1>2, SetWritesMember DEF IsSetWrite
  <2>2. QED
    BY <1>1, <2>1, Held, Zenon
<1>6. ~ViaPct(p, r) /\ IsSet(p.wSet) => regs.point["wSet"] = p.wSet
  <2>1. ~ViaPct(p, r) /\ IsSet(p.wSet) => Point("wSet", p.wSet) \in Range(SetWrites(p, r, first))
    BY <1>0, <1>2, SetWritesMember DEF IsSetWrite
  <2>2. QED
    BY <1>1, <2>1, Held, Zenon
<1>7. CASE ~IsSet(p.wSet) /\ ~IsSet(p.wSetPct)
  BY <1>3, <1>7 DEF SetAgrees, IsParameters
<1>8. CASE (IsSet(p.wSet) \/ IsSet(p.wSetPct)) /\ (p.isImportSiteLimit \/ IsSet(p.wSetPct))
  <2>1. p.wSetEna
    BY <1>8 DEF IsParameters
  <2>2. SetPct(p, r) # None
    BY <1>8, SetPctType DEF SetPending, SetDerived, IsParameters
  <2>3. Mode(p, r) = "WMaxPct"
    BY <1>8, <2>2 DEF Mode, ViaPct, IsParameters
  <2>4. PICK pct \in Int : pct = SetPct(p, r)
    BY <2>2, SetPctType
  <2>5. /\ Magnitude(pct * Rating - AskedPower(p)) < Rating
        /\ p.isImportSiteLimit => Magnitude(pct * Rating) <= Magnitude(AskedPower(p))
    <3>1. CASE IsSet(p.wSetPct)
      <4>1. pct = p.wSetPct /\ AskedPower(p) = p.wSetPct * Rating
        BY <2>4, <3>1 DEF SetPct, SetDerived, AskedPower
      <4>2. PICK power \in Int : power = pct * Rating
        BY ParametersAssumption, Z3
      <4>3. Magnitude(power - power) < Rating /\ Magnitude(power) <= Magnitude(power)
        BY ParametersAssumption DEF Magnitude
      <4>4. QED
        BY <4>1, <4>2, <4>3
    <3>2. CASE ~IsSet(p.wSetPct)
      <4>1. SetDerived(p) /\ p.isImportSiteLimit /\ r
        BY <1>8, <3>2 DEF SetDerived, SetPending, IsParameters
      <4>2. PICK w \in Int : w = p.wSet /\ Magnitude(w) * 100 <= MaxI16 * Rating
        BY <4>1 DEF SetDerived, IsParameters
      <4>3. PICK towardZero \in BOOLEAN : towardZero = p.isImportSiteLimit
        BY <4>1
      <4>4. pct = WSetToPct(w, towardZero)
        BY <2>4, <4>1, <4>2, <4>3 DEF SetPct
      <4>5. AskedPower(p) = w * 100
        BY <3>2, <4>2 DEF AskedPower
      <4>6. QED
        BY <4>1, <4>2, <4>3, <4>4, <4>5, ImportLimitNotExceeded
    <3>3. QED
      BY <3>1, <3>2
  <2>6. regs.point["wSetEna"] /\ regs.point["wSetMod"] = "WMaxPct" /\ regs.point["wSetPct"] = pct
    BY <1>3, <1>4, <1>5, <2>1, <2>2, <2>3, <2>4, Distinct
  <2>7. QED
    BY <1>8, <2>5, <2>6 DEF SetAgrees
<1>9. CASE (IsSet(p.wSet) \/ IsSet(p.wSetPct)) /\ ~(p.isImportSiteLimit \/ IsSet(p.wSetPct))
  <2>1. ~ViaPct(p, r) /\ IsSet(p.wSet) /\ p.wSetEna /\ Mode(p, r) = "Watts"
    BY <1>9 DEF ViaPct, Mode, IsParameters
  <2>2. QED
    BY <1>3, <1>4, <1>6, <1>9, <2>1, Distinct DEF SetAgrees
<1>10. QED
  BY <1>7, <1>8, <1>9

-----------------------------------------------------------------------------
(* The device's registers, and what a write does to them. *)

Registers ==
  [point : [PointName -> Content \cup {Factory}],
   staged : [Slot -> Fits \cup {Factory, Torn}],
   active : [Slot -> Fits \cup {Factory, Torn}],
   enabled : [CurveModel -> BOOLEAN]]

LEMMA FactoryType ==
  FactoryRegs \in Registers
<1> DEFINE point == FactoryRegs.point
           Values == Content \cup {Factory}
<1>1. point = [es |-> Factory, varEna |-> FALSE, varPct |-> Factory,
               wMaxLimEna |-> FALSE, wMaxLimPct |-> Unlimited,
               wSetEna |-> FALSE, wSetPct |-> 0, wSet |-> 0, wSetMod |-> "Watts"]
  BY DEF FactoryRegs
<1>2. DOMAIN point = PointName
  BY <1>1 DEF PointName
<1>3. \A x \in PointName : point[x] \in Values
  <2>1. point["es"] \in Values /\ point["varPct"] \in Values
    BY <1>1
  <2>2. point["varEna"] \in Values /\ point["wMaxLimEna"] \in Values /\ point["wSetEna"] \in Values
    BY <1>1 DEF Content
  <2>3. point["wMaxLimPct"] \in Values /\ point["wSetPct"] \in Values /\ point["wSet"] \in Values
    BY <1>1 DEF Content, Unlimited
  <2>4. point["wSetMod"] \in Values
    BY <1>1 DEF Content
  <2>5. QED
    BY <2>1, <2>2, <2>3, <2>4 DEF PointName
<1>4. point = [x \in PointName |-> point[x]]
  <2>1. point = [x \in DOMAIN point |-> point[x]]
    BY <1>1
  <2>2. QED
    BY <1>2, <2>1
<1> HIDE DEF point
<1>5. point \in [PointName -> Content \cup {Factory}]
  BY <1>2, <1>3, <1>4
<1>6. /\ FactoryRegs.staged \in [Slot -> Fits \cup {Factory, Torn}]
      /\ FactoryRegs.active \in [Slot -> Fits \cup {Factory, Torn}]
      /\ FactoryRegs.enabled \in [CurveModel -> BOOLEAN]
      /\ FactoryRegs = [point |-> FactoryRegs.point, staged |-> FactoryRegs.staged,
                        active |-> FactoryRegs.active, enabled |-> FactoryRegs.enabled]
  BY DEF FactoryRegs
<1>7. QED
  BY <1>5, <1>6 DEF Registers, point

LEMMA ApplyPoint ==
  ASSUME NEW q \in Registers, NEW x \in PointName, NEW v \in Content
  PROVE  LET a == Apply(q, Point(x, v))
         IN  /\ a \in Registers
             /\ a.staged = q.staged /\ a.active = q.active /\ a.enabled = q.enabled
             /\ \A y \in PointName : a.point[y] = IF y = x THEN v ELSE q.point[y]
<1>1. Apply(q, Point(x, v)) = [q EXCEPT !.point = [q.point EXCEPT ![x] = v]]
  BY DEF Apply, Point
<1>2. QED
  BY <1>1 DEF Registers

LEMMA ApplyStage ==
  ASSUME NEW q \in Registers, NEW t \in Slot, NEW c \in Fits \cup {Torn}
  PROVE  LET a == Apply(q, Stage(t, c))
         IN  /\ a \in Registers
             /\ a.point = q.point /\ a.active = q.active /\ a.enabled = q.enabled
             /\ \A s \in Slot : a.staged[s] = IF s = t THEN c ELSE q.staged[s]
<1>1. Apply(q, Stage(t, c)) = [q EXCEPT !.staged = [q.staged EXCEPT ![t] = c]]
  BY DEF Apply, Stage
<1>2. QED
  BY <1>1 DEF Registers

LEMMA ApplyAdopt ==
  ASSUME NEW q \in Registers, NEW m \in CurveModel
  PROVE  LET a == Apply(q, Adopt(m))
         IN  /\ a \in Registers
             /\ a.point = q.point /\ a.staged = q.staged /\ a.enabled = q.enabled
             /\ \A s \in Slot :
                  a.active[s] = IF s \in SlotsOf(m) THEN q.staged[s] ELSE q.active[s]
<1>1. Apply(q, Adopt(m)) =
        [q EXCEPT !.active = [s \in Slot |-> IF s \in SlotsOf(m) THEN q.staged[s] ELSE q.active[s]]]
  BY DEF Apply, Adopt, Registers
<1>2. QED
  BY <1>1 DEF Registers

LEMMA ApplyEnable ==
  ASSUME NEW q \in Registers, NEW m \in CurveModel, NEW on \in BOOLEAN
  PROVE  LET a == Apply(q, Enable(m, on))
         IN  /\ a \in Registers
             /\ a.point = q.point /\ a.staged = q.staged /\ a.active = q.active
             /\ \A k \in CurveModel : a.enabled[k] = IF k = m THEN on ELSE q.enabled[k]
<1>1. Apply(q, Enable(m, on)) = [q EXCEPT !.enabled = [q.enabled EXCEPT ![m] = on]]
  BY DEF Apply, Enable
<1>2. QED
  BY <1>1 DEF Registers

-----------------------------------------------------------------------------
(* What is written to the curve models. *)

AnyUsable(p, m) == Usable(m, p.curves) # {}

StageOf(p, s) == Stage(s, p.curves[s])

(* Every write a job for p may make, the rating being known or not. *)
JobWrites(p, r) ==
  Range(PointWrites(p, r))
    \cup {StageOf(p, s) : s \in {x \in Slot : p.curves[x] \in Fits}}
    \cup {Adopt(m) : m \in CurveModel}
    \cup {Enable(m, AnyUsable(p, m)) : m \in CurveModel}

(* Nothing is staged once something was adopted. *)
StagesFirst(s) ==
  \A i, j \in DOMAIN s : i < j /\ s[i].kind = "adopt" => s[j].kind # "stage"

(* The curve models up to the n-th hold what p asks for, or the write of it  *)
(* is in S.                                                                  *)
CurvesComing(q, p, S, n) ==
  \A i \in 1 .. n :
    /\ \A s \in Usable(Model[i], p.curves) : StageOf(p, s) \in S \/ q.staged[s] = p.curves[s]
    /\ \/ Adopt(Model[i]) \in S
       \/ \A s \in Usable(Model[i], p.curves) : q.active[s] = p.curves[s]
    /\ \/ Enable(Model[i], AnyUsable(p, Model[i])) \in S
       \/ q.enabled[Model[i]] = AnyUsable(p, Model[i])

LEMMA SlotsType ==
  ASSUME NEW m \in CurveModel
  PROVE  /\ SlotsOf(m) \subseteq Slot
         /\ SlotsOf(m) = {Slots[m][i] : i \in {j \in {1, 2, 3} : j \in DOMAIN Slots[m]}}
<1>1. Slots[m] \in Seq(Slot) /\ Len(Slots[m]) <= 3
  BY ParametersAssumption
<1>2. DOMAIN Slots[m] = 1 .. Len(Slots[m]) /\ Len(Slots[m]) \in Nat
  BY <1>1
<1>3. DOMAIN Slots[m] \subseteq {1, 2, 3}
  BY <1>1, <1>2
<1>4. QED
  BY <1>3 DEF SlotsOf, Slot

LEMMA StageWritesRange ==
  ASSUME NEW p, NEW m \in CurveModel, NEW i \in {1, 2, 3}, NEW r
  PROVE  /\ StageWrites(m, p.curves, i) \in Seq(JobWrites(p, r))
         /\ Range(StageWrites(m, p.curves, i)) =
              Only(i \in DOMAIN Slots[m] /\ Slots[m][i] \in Usable(m, p.curves),
                   {StageOf(p, Slots[m][i])})
<1> DEFINE s == Slots[m][i]
<1>1. CASE i \in DOMAIN Slots[m] /\ s \in Usable(m, p.curves)
  <2>1. StageOf(p, s) \in JobWrites(p, r)
    BY <1>1, SlotsType DEF JobWrites, Usable
  <2>2. StageWrites(m, p.curves, i) = <<StageOf(p, s)>>
    BY <1>1 DEF StageWrites, When, StageOf
  <2>3. QED
    BY <1>1, <2>1, <2>2, Single DEF Only
<1>2. CASE ~(i \in DOMAIN Slots[m] /\ s \in Usable(m, p.curves))
  <2>1. StageWrites(m, p.curves, i) = <<>>
    BY <1>2 DEF StageWrites, When
  <2>2. <<>> \in Seq(JobWrites(p, r)) /\ Range(<<>>) = {}
    BY DEF Range
  <2>3. QED
    BY <1>2, <2>1, <2>2 DEF Only
<1>3. QED
  BY <1>1, <1>2

LEMMA AdoptWritesRange ==
  ASSUME NEW p, NEW m \in CurveModel, NEW r
  PROVE  /\ AdoptWrites(m, p.curves) \in Seq(JobWrites(p, r))
         /\ Range(AdoptWrites(m, p.curves)) =
              Only(AnyUsable(p, m), {Adopt(m)}) \cup {Enable(m, AnyUsable(p, m))}
<1>1. PICK on \in BOOLEAN : on = AnyUsable(p, m)
  BY DEF AnyUsable
<1>2. AdoptWrites(m, p.curves) = When(on, <<Adopt(m)>>) \o <<Enable(m, on)>>
  BY <1>1 DEF AdoptWrites, AnyUsable
<1>3. Adopt(m) \in JobWrites(p, r) /\ Enable(m, on) \in JobWrites(p, r)
  BY <1>1 DEF JobWrites
<1>4. PICK a \in Seq(JobWrites(p, r)) : a = <<Adopt(m)>> /\ Range(a) = {Adopt(m)}
  BY <1>3, Single
<1>5. PICK b \in Seq(JobWrites(p, r)) : b = When(on, a) /\ Range(b) = Only(on, {Adopt(m)})
  BY <1>4, Conditional DEF Only
<1>6. PICK e \in Seq(JobWrites(p, r)) : e = <<Enable(m, on)>> /\ Range(e) = {Enable(m, on)}
  BY <1>3, Single
<1>7. b \o e \in Seq(JobWrites(p, r)) /\ Range(b \o e) = Range(b) \cup Range(e)
  BY Concat
<1>8. QED
  BY <1>1, <1>2, <1>4, <1>5, <1>6, <1>7

LEMMA StagesThenAdopts ==
  ASSUME NEW S, NEW s \in Seq(S), NEW t \in Seq(S),
         \A w \in Range(s) : w.kind # "adopt", \A w \in Range(t) : w.kind # "stage"
  PROVE  StagesFirst(s \o t)
<1>1. /\ Len(s) \in Nat /\ Len(t) \in Nat
      /\ DOMAIN s = 1 .. Len(s) /\ DOMAIN t = 1 .. Len(t) /\ DOMAIN (s \o t) = 1 .. Len(s) + Len(t)
      /\ \A i \in 1 .. Len(s) : (s \o t)[i] = s[i]
      /\ \A i \in 1 .. Len(s) + Len(t) : i > Len(s) => (s \o t)[i] = t[i - Len(s)]
  OBVIOUS
<1>2. \A i \in DOMAIN s : s[i].kind # "adopt"
  BY DEF Range
<1>3. \A i \in DOMAIN t : t[i].kind # "stage"
  BY DEF Range
<1> SUFFICES ASSUME NEW i \in 1 .. Len(s) + Len(t), NEW j \in 1 .. Len(s) + Len(t),
                    i < j, (s \o t)[i].kind = "adopt"
             PROVE  (s \o t)[j].kind # "stage"
  BY <1>1 DEF StagesFirst
<1>4. i > Len(s)
  BY <1>1, <1>2
<1>5. j > Len(s) /\ j - Len(s) \in 1 .. Len(t)
  BY <1>1, <1>4
<1>6. QED
  BY <1>1, <1>3, <1>5

LEMMA StagesFirstRest ==
  ASSUME NEW S, NEW s \in Seq(S), s # <<>>, StagesFirst(s)
  PROVE  /\ StagesFirst(Tail(s))
         /\ Head(s).kind = "adopt" => \A w \in Range(Tail(s)) : w.kind # "stage"
<1>1. /\ Len(s) \in Nat \ {0} /\ Head(s) = s[1] /\ Tail(s) \in Seq(S)
      /\ DOMAIN s = 1 .. Len(s) /\ DOMAIN Tail(s) = 1 .. Len(s) - 1
      /\ \A i \in 1 .. Len(s) - 1 : Tail(s)[i] = s[i + 1]
  OBVIOUS
<1>2. 1 \in 1 .. Len(s) /\ \A i \in 1 .. Len(s) - 1 : i + 1 \in 1 .. Len(s) /\ 1 < i + 1
  BY <1>1
<1>3. StagesFirst(Tail(s))
  BY <1>1, <1>2 DEF StagesFirst
<1>4. Head(s).kind = "adopt" => \A i \in 1 .. Len(s) - 1 : Tail(s)[i].kind # "stage"
  BY <1>1, <1>2 DEF StagesFirst
<1>5. QED
  BY <1>1, <1>3, <1>4 DEF Range

LEMMA CurveWritesRange ==
  ASSUME NEW p, NEW m \in CurveModel, NEW r
  PROVE  /\ CurveWrites(m, p.curves) \in Seq(JobWrites(p, r))
         /\ StagesFirst(CurveWrites(m, p.curves))
         /\ Range(CurveWrites(m, p.curves)) =
              {StageOf(p, s) : s \in Usable(m, p.curves)}
                \cup Only(AnyUsable(p, m), {Adopt(m)}) \cup {Enable(m, AnyUsable(p, m))}
<1> DEFINE W == JobWrites(p, r)
           U == Usable(m, p.curves)
           part(i) == Only(i \in DOMAIN Slots[m] /\ Slots[m][i] \in U, {StageOf(p, Slots[m][i])})
<1>1. PICK s1 \in Seq(W) : s1 = StageWrites(m, p.curves, 1) /\ Range(s1) = part(1)
  BY StageWritesRange
<1>2. PICK s2 \in Seq(W) : s2 = StageWrites(m, p.curves, 2) /\ Range(s2) = part(2)
  BY StageWritesRange
<1>3. PICK s3 \in Seq(W) : s3 = StageWrites(m, p.curves, 3) /\ Range(s3) = part(3)
  BY StageWritesRange
<1>4. PICK a \in Seq(W) : /\ a = AdoptWrites(m, p.curves)
                          /\ Range(a) = Only(AnyUsable(p, m), {Adopt(m)}) \cup {Enable(m, AnyUsable(p, m))}
  BY AdoptWritesRange
<1>5. part(1) \cup part(2) \cup part(3) = {StageOf(p, s) : s \in U}
  <2>1. \A i \in {1, 2, 3} : part(i) \subseteq {StageOf(p, s) : s \in U}
    BY DEF Only
  <2>2. ASSUME NEW s \in U
        PROVE  StageOf(p, s) \in part(1) \cup part(2) \cup part(3)
    <3>1. PICK i \in {1, 2, 3} : i \in DOMAIN Slots[m] /\ s = Slots[m][i]
      BY SlotsType DEF Usable
    <3>2. StageOf(p, s) \in part(i)
      BY <3>1 DEF Only
    <3> HIDE DEF part, U
    <3>3. QED
      BY <3>1, <3>2
  <2> HIDE DEF part
  <2>3. QED
    BY <2>1, <2>2
<1> HIDE DEF W, part
<1>6. PICK s12 \in Seq(W) : s12 = Joined(s1, s2) /\ Range(s12) = Range(s1) \cup Range(s2)
  BY JoinedRange
<1>7. PICK s123 \in Seq(W) : s123 = Joined(s12, s3) /\ Range(s123) = Range(s12) \cup Range(s3)
  BY JoinedRange
<1>8. PICK all \in Seq(W) : all = Joined(s123, a) /\ Range(all) = Range(s123) \cup Range(a)
  BY JoinedRange
<1>9. all = CurveWrites(m, p.curves)
  BY <1>1, <1>2, <1>3, <1>4, <1>6, <1>7, <1>8, Zenon DEF CurveWrites, Joined
<1>10. StagesFirst(all)
  <2>1. \A w \in Range(s123) : w.kind # "adopt"
    <3>1. Range(s123) = {StageOf(p, s) : s \in U}
      BY <1>1, <1>2, <1>3, <1>5, <1>6, <1>7
    <3>2. \A s : StageOf(p, s).kind = "stage"
      BY DEF StageOf, Stage
    <3>3. QED
      BY <3>1, <3>2
  <2>2. ASSUME NEW w \in Range(a)
        PROVE  w.kind # "stage"
    <3>1. w = Adopt(m) \/ w = Enable(m, AnyUsable(p, m))
      BY <1>4 DEF Only
    <3>2. QED
      BY <3>1 DEF Adopt, Enable
  <2>3. QED
    BY <1>8, <2>1, <2>2, StagesThenAdopts, Zenon DEF Joined
<1>11. Range(all) = {StageOf(p, s) : s \in U} \cup Range(a)
  <2>1. Range(all) = ((part(1) \cup part(2)) \cup part(3)) \cup Range(a)
    BY <1>1, <1>2, <1>3, <1>6, <1>7, <1>8, Zenon
  <2>2. QED
    BY <1>5, <2>1, Zenon
<1>12. QED
  BY <1>4, <1>8, <1>9, <1>10, <1>11 DEF W

LEMMA PointShape ==
  ASSUME NEW p, IsParameters(p), NEW r \in BOOLEAN, NEW w \in Range(PointWrites(p, r))
  PROVE  \E x \in PointName, c \in Content :
           w = Point(x, c) /\ w.kind = "point" /\ w.at = x /\ w.value = c
<1>1. PICK s \in Seq(PointOp) : s = PointWrites(p, r)
  BY PointWritesRange
<1>2. w \in PointOp
  <2>1. \A i \in DOMAIN s : s[i] \in PointOp
    OBVIOUS
  <2>2. QED
    BY <1>1, <2>1 DEF Range
<1>3. PICK x \in PointName, c \in Content : w = Point(x, c)
  BY <1>2 DEF PointOp
<1>4. QED
  BY <1>3 DEF Point

(* A job's write, done. *)
LEMMA PointsStep ==
  ASSUME NEW p, IsParameters(p), NEW r \in BOOLEAN, NEW q \in Registers, NEW S,
         NEW w \in JobWrites(p, r), PointsComing(q, p, r, {w} \cup S)
  PROVE  PointsComing(Apply(q, w), p, r, S)
<1> SUFFICES ASSUME NEW v \in Range(PointWrites(p, r)), v \notin S
             PROVE  Apply(q, w).point[v.at] = v.value
  BY DEF PointsComing
<1>1. v = w \/ q.point[v.at] = v.value
  BY DEF PointsComing
<1>2. PICK x \in PointName, c \in Content :
        v = Point(x, c) /\ v.kind = "point" /\ v.at = x /\ v.value = c
  BY PointShape
<1>3. CASE w \in Range(PointWrites(p, r))
  <2>1. PICK y \in PointName, d \in Content :
          w = Point(y, d) /\ w.kind = "point" /\ w.at = y /\ w.value = d
    BY <1>3, PointShape
  <2>2. Apply(q, w).point[x] = IF x = y THEN d ELSE q.point[x]
    BY <2>1, ApplyPoint
  <2>3. x = y => v = w
    BY <1>2, <1>3, <2>1, Functional
  <2>4. QED
    BY <1>1, <1>2, <2>1, <2>2, <2>3
<1>4. CASE w \in {StageOf(p, s) : s \in {y \in Slot : p.curves[y] \in Fits}}
  <2>1. PICK s \in Slot : p.curves[s] \in Fits /\ w = Stage(s, p.curves[s])
    BY <1>4 DEF StageOf
  <2>2. Apply(q, w).point = q.point /\ w.kind = "stage"
    BY <2>1, ApplyStage DEF Stage
  <2>3. QED
    BY <1>1, <1>2, <2>2
<1>5. CASE w \in {Adopt(m) : m \in CurveModel}
  <2>1. Apply(q, w).point = q.point /\ w.kind = "adopt"
    BY <1>5, ApplyAdopt DEF Adopt
  <2>2. QED
    BY <1>1, <1>2, <2>1
<1>6. CASE w \in {Enable(m, AnyUsable(p, m)) : m \in CurveModel}
  <2>1. PICK m \in CurveModel, on \in BOOLEAN : w = Enable(m, on)
    BY <1>6 DEF AnyUsable
  <2>2. Apply(q, w).point = q.point /\ w.kind = "enable"
    BY <2>1, ApplyEnable DEF Enable
  <2>3. QED
    BY <1>1, <1>2, <2>2
<1>7. QED
  BY <1>3, <1>4, <1>5, <1>6 DEF JobWrites

LEMMA CurvesStep ==
  ASSUME NEW p, IsParameters(p), NEW r \in BOOLEAN, NEW q \in Registers, NEW S,
         NEW n \in 0 .. Len(Model), NEW w \in JobWrites(p, r), CurvesComing(q, p, {w} \cup S, n),
         w.kind = "adopt" => \A v \in S : v.kind # "stage"
  PROVE  CurvesComing(Apply(q, w), p, S, n)
<1>1. \A i \in 1 .. n : Model[i] \in CurveModel /\ Usable(Model[i], p.curves) \subseteq Slot
  <2>1. Model \in Seq(CurveModel)
    BY ParametersAssumption
  <2>2. \A i \in 1 .. n : Model[i] \in CurveModel
    BY <2>1
  <2>3. QED
    BY <2>2, SlotsType DEF Usable
<1>2. \A s, m, on : /\ StageOf(p, s).kind = "stage" /\ StageOf(p, s).at = s
                    /\ Adopt(m).kind = "adopt" /\ Adopt(m).at = m
                    /\ Enable(m, on).kind = "enable" /\ Enable(m, on).at = m
  BY DEF StageOf, Stage, Adopt, Enable
<1> SUFFICES ASSUME NEW i \in 1 .. n
             PROVE  LET m == Model[i]  a == Apply(q, w)
                    IN  /\ \A s \in Usable(m, p.curves) : StageOf(p, s) \in S \/ a.staged[s] = p.curves[s]
                        /\ Adopt(m) \in S \/ \A s \in Usable(m, p.curves) : a.active[s] = p.curves[s]
                        /\ \/ Enable(m, AnyUsable(p, m)) \in S
                           \/ a.enabled[m] = AnyUsable(p, m)
  BY DEF CurvesComing
<1> DEFINE m == Model[i]
           a == Apply(q, w)
           U == Usable(m, p.curves)
           T == {w} \cup S
<1>3. m \in CurveModel /\ U \subseteq Slot
  BY <1>1
<1>4. /\ \A s \in U : StageOf(p, s) \in T \/ q.staged[s] = p.curves[s]
      /\ Adopt(m) \in T \/ \A s \in U : q.active[s] = p.curves[s]
      /\ Enable(m, AnyUsable(p, m)) \in T \/ q.enabled[m] = AnyUsable(p, m)
  BY DEF CurvesComing
<1> HIDE DEF m, U
<1>5. CASE w \in Range(PointWrites(p, r))
  <2>1. PICK y \in PointName, d \in Content : w = Point(y, d) /\ w.kind = "point"
    BY <1>5, PointShape
  <2>2. a.staged = q.staged /\ a.active = q.active /\ a.enabled = q.enabled
    BY <2>1, ApplyPoint
  <2>3. QED
    BY <1>2, <1>4, <2>1, <2>2 DEF m, U
<1>6. CASE w \in {StageOf(p, s) : s \in {y \in Slot : p.curves[y] \in Fits}}
  <2>1. PICK t \in Slot : p.curves[t] \in Fits /\ w = StageOf(p, t)
    BY <1>6
  <2>2. w = Stage(t, p.curves[t]) /\ w.kind = "stage" /\ w.at = t
    BY <1>2, <2>1 DEF StageOf
  <2>3. /\ a.active = q.active /\ a.enabled = q.enabled
        /\ \A s \in Slot : a.staged[s] = IF s = t THEN p.curves[t] ELSE q.staged[s]
    BY <2>1, <2>2, ApplyStage
  <2>4. \A s \in U : s # t => StageOf(p, s) # w
    BY <1>2, <2>2
  <2>5. Adopt(m) # w /\ Enable(m, AnyUsable(p, m)) # w
    BY <1>2, <2>2
  <2>6. \A s \in U : StageOf(p, s) \in S \/ a.staged[s] = p.curves[s]
    BY <1>3, <1>4, <2>3, <2>4
  <2>7. QED
    BY <1>4, <2>3, <2>5, <2>6 DEF m, U
<1>7. CASE w \in {Adopt(k) : k \in CurveModel}
  <2>1. PICK k \in CurveModel : w = Adopt(k)
    BY <1>7
  <2>2. /\ a.staged = q.staged /\ a.enabled = q.enabled
        /\ \A s \in Slot : a.active[s] = IF s \in SlotsOf(k) THEN q.staged[s] ELSE q.active[s]
    BY <2>1, ApplyAdopt
  <2>3. \A s \in U : q.staged[s] = p.curves[s]
    BY <1>2, <1>4, <2>1
  <2>4. Adopt(m) \in S \/ \A s \in U : a.active[s] = p.curves[s]
    <3>1. CASE m = k
      BY <1>3, <2>2, <2>3, <3>1 DEF Usable, U
    <3>2. CASE m # k
      <4>1. Adopt(m) # w
        BY <1>2, <2>1, <3>2
      <4>2. QED
        BY <1>3, <1>4, <2>2, <2>3, <4>1
    <3>3. QED
      BY <3>1, <3>2
  <2>5. Enable(m, AnyUsable(p, m)) # w
    BY <1>2, <2>1
  <2>6. QED
    BY <1>4, <2>2, <2>3, <2>4, <2>5 DEF m, U
<1>8. CASE w \in {Enable(k, AnyUsable(p, k)) : k \in CurveModel}
  <2>1. PICK k \in CurveModel, on \in BOOLEAN : w = Enable(k, on) /\ on = AnyUsable(p, k)
    BY <1>8 DEF AnyUsable
  <2>2. /\ a.staged = q.staged /\ a.active = q.active
        /\ \A c \in CurveModel : a.enabled[c] = IF c = k THEN on ELSE q.enabled[c]
    BY <2>1, ApplyEnable
  <2>3. Adopt(m) # w /\ \A s \in U : StageOf(p, s) # w
    BY <1>2, <2>1
  <2>4. Enable(m, AnyUsable(p, m)) \in S \/ a.enabled[m] = AnyUsable(p, m)
    <3>1. CASE m = k
      BY <1>3, <2>1, <2>2, <3>1
    <3>2. CASE m # k
      <4>1. Enable(m, AnyUsable(p, m)) # w
        BY <1>2, <2>1, <3>2
      <4>2. QED
        BY <1>3, <1>4, <2>2, <3>2, <4>1
    <3>3. QED
      BY <3>1, <3>2
  <2>5. QED
    BY <1>4, <2>2, <2>3, <2>4 DEF m, U
<1>9. QED
  BY <1>5, <1>6, <1>7, <1>8 DEF JobWrites

LEMMA WriteType ==
  ASSUME NEW p, IsParameters(p), NEW r \in BOOLEAN, NEW q \in Registers, NEW w \in JobWrites(p, r)
  PROVE  Remains(q, w) \subseteq Registers
<1>1. CASE w \in Range(PointWrites(p, r))
  <2>1. PICK x \in PointName, c \in Content : w = Point(x, c) /\ w.kind = "point"
    BY <1>1, PointShape
  <2>2. Apply(q, w) \in Registers
    BY <2>1, ApplyPoint
  <2>3. QED
    BY <2>1, <2>2 DEF Remains
<1>2. CASE w \in {StageOf(p, s) : s \in {y \in Slot : p.curves[y] \in Fits}}
  <2>1. PICK t \in Slot, c \in Fits : w = Stage(t, c)
    BY <1>2 DEF StageOf
  <2>2. [w EXCEPT !.value = Torn] = Stage(t, Torn)
    BY <2>1 DEF Stage
  <2>3. Apply(q, w) \in Registers /\ Apply(q, Stage(t, Torn)) \in Registers
    BY <2>1, ApplyStage
  <2>4. QED
    BY <2>2, <2>3 DEF Remains
<1>3. CASE w \in {Adopt(m) : m \in CurveModel}
  <2>1. Apply(q, w) \in Registers /\ w.kind # "stage"
    BY <1>3, ApplyAdopt DEF Adopt
  <2>2. QED
    BY <2>1 DEF Remains
<1>4. CASE w \in {Enable(m, AnyUsable(p, m)) : m \in CurveModel}
  <2>1. PICK m \in CurveModel, on \in BOOLEAN : w = Enable(m, on)
    BY <1>4 DEF AnyUsable
  <2>2. Apply(q, w) \in Registers /\ w.kind # "stage"
    BY <2>1, ApplyEnable DEF Enable
  <2>3. QED
    BY <2>2 DEF Remains
<1>5. QED
  BY <1>1, <1>2, <1>3, <1>4 DEF JobWrites

(* Coming to the next model: its writes are all listed. *)
LEMMA CurvesNext ==
  ASSUME NEW p, NEW q, NEW n \in Nat, n < Len(Model), CurvesComing(q, p, {}, n)
  PROVE  CurvesComing(q, p, Range(CurveWrites(Model[n + 1], p.curves)), n + 1)
<1>1. Model \in Seq(CurveModel) /\ Model[n + 1] \in CurveModel
  <2>1. Model \in Seq(CurveModel)
    BY ParametersAssumption
  <2>2. QED
    BY <2>1
<1> DEFINE S == Range(CurveWrites(Model[n + 1], p.curves))
<1>2. S = {StageOf(p, s) : s \in Usable(Model[n + 1], p.curves)}
            \cup Only(AnyUsable(p, Model[n + 1]), {Adopt(Model[n + 1])})
            \cup {Enable(Model[n + 1], AnyUsable(p, Model[n + 1]))}
  BY <1>1, CurveWritesRange
<1> HIDE DEF S
<1>3. ASSUME NEW i \in 1 .. n + 1
      PROVE  /\ \A s \in Usable(Model[i], p.curves) : StageOf(p, s) \in S \/ q.staged[s] = p.curves[s]
             /\ \/ Adopt(Model[i]) \in S
                \/ \A s \in Usable(Model[i], p.curves) : q.active[s] = p.curves[s]
             /\ \/ Enable(Model[i], AnyUsable(p, Model[i])) \in S
                \/ q.enabled[Model[i]] = AnyUsable(p, Model[i])
  <2>1. CASE i \in 1 .. n
    BY <2>1 DEF CurvesComing
  <2>2. CASE i = n + 1
    <3>1. \A s \in Usable(Model[i], p.curves) : StageOf(p, s) \in S
      BY <1>2, <2>2
    <3>2. Adopt(Model[i]) \in S \/ Usable(Model[i], p.curves) = {}
      BY <1>2, <2>2 DEF Only, AnyUsable
    <3>3. Enable(Model[i], AnyUsable(p, Model[i])) \in S
      BY <1>2, <2>2
    <3>4. QED
      BY <3>1, <3>2, <3>3
  <2>3. QED
    BY <2>1, <2>2
<1>4. CurvesComing(q, p, S, n + 1)
  BY <1>3 DEF CurvesComing
<1>5. QED
  BY <1>4 DEF S

LEMMA HeldCurves ==
  ASSUME NEW p, CurvesComing(regs, p, {}, Len(Model))
  PROVE  CurvesAgree(p)
<1>1. Model \in Seq(CurveModel)
  BY ParametersAssumption
<1>2. \A m \in CurveModel : \E i \in 1 .. Len(Model) : m = Model[i]
  BY <1>1 DEF CurveModel
<1>3. QED
  BY <1>2 DEF CurvesComing, CurvesAgree, AnyUsable

-----------------------------------------------------------------------------
(* The inductive invariant. *)

LoopOK ==
  /\ pc \in {"recv", "connect", "job", "write", "poll"}
  /\ input \in Seq(Parameters \ {None}) /\ Len(input) <= QueueCapacity
  /\ parameters \in Parameters /\ lastSent \in Parameters /\ announced \in Parameters
  /\ pending \in BOOLEAN /\ connected \in BOOLEAN /\ deferred \in BOOLEAN
  /\ due \in BOOLEAN /\ broken \in BOOLEAN /\ rated \in BOOLEAN
  /\ job \in {"none", "send", "retry"}
  /\ job = "none" <=> pc # "write"
  /\ todo # <<>> => pc = "write"
  /\ listed \in 0 .. Len(Model)
  /\ regs \in Registers

(* While a job is writing to a device that is still there: what its           *)
(* parameters ask for is in the registers or still to be written, of the      *)
(* curve models as far as it has come.                                        *)
JobInv ==
  pc = "write" =>
    /\ connected /\ parameters # None
    /\ \E r \in BOOLEAN :
         /\ deferred = Deferred(parameters, r)
         /\ todo \in Seq(JobWrites(parameters, r)) /\ StagesFirst(todo)
         /\ ~broken => /\ PointsComing(regs, parameters, r, Range(todo))
                       /\ CurvesComing(regs, parameters, Range(todo), listed)

(* What counts as sent is in the registers, but for what is pending. *)
SentInv ==
  pc # "write" /\ connected /\ ~broken /\ lastSent # None =>
    \E r \in BOOLEAN :
      /\ pending = Deferred(lastSent, r)
      /\ PointsComing(regs, lastSent, r, {})
      /\ CurvesComing(regs, lastSent, {}, Len(Model))

IInv == LoopOK /\ JobInv /\ SentInv

LEMMA ParametersShape ==
  /\ None \in Parameters
  /\ \A p \in Parameters : p # None => IsParameters(p)
  /\ \A base \in Base : Translate(base) \in Parameters \ {None}
BY TranslateShape DEF Parameters

LEMMA DeferredType ==
  ASSUME NEW p, NEW r \in BOOLEAN
  PROVE  Deferred(p, r) \in BOOLEAN
BY DEF Deferred, LimitPending, SetPending

LEMMA LenModel == Len(Model) \in Nat
BY ParametersAssumption

LEMMA JobKept ==
  JobInv /\ UNCHANGED <<pc, parameters, link, work, regs>> => JobInv'
BY DEF JobInv, link, work

LEMMA SentKept ==
  SentInv /\ pc # "write" /\ UNCHANGED <<lastSent, pending, link, regs>> => SentInv'
BY DEF SentInv, link

THEOREM InitIInv == Init => IInv
<1> SUFFICES ASSUME Init
             PROVE  IInv
  OBVIOUS
<1>1. LoopOK
  <2>1. <<>> \in Seq(Parameters \ {None}) /\ Len(<<>>) <= QueueCapacity
    BY ConnectionAssumption
  <2>2. 0 \in 0 .. Len(Model)
    BY LenModel
  <2>3. QED
    BY <2>1, <2>2, FactoryType, ParametersShape DEF Init, LoopOK
<1>2. JobInv /\ SentInv
  BY DEF Init, JobInv, SentInv
<1>3. QED
  BY <1>1, <1>2 DEF IInv

(* What neither writes nor forgets what was written. *)
LEMMA QuietStep ==
  ASSUME IInv,
         \/ Receive \/ Timeout \/ StayConnected \/ ConnectFails \/ NothingToWrite
         \/ SkipPoll \/ Poll
  PROVE  IInv'
<1>1. LoopOK'
  <2>1. CASE Receive
    <3>1. Head(input) \in Parameters \ {None} /\ Tail(input) \in Seq(Parameters \ {None})
          /\ Len(Tail(input)) <= QueueCapacity
      BY <2>1, ConnectionAssumption DEF IInv, LoopOK, Receive
    <3>2. QED
      BY <2>1, <3>1 DEF IInv, LoopOK, Receive, link, work, environment
  <2>2. CASE Timeout
    BY <2>2 DEF IInv, LoopOK, Timeout, link, work, environment
  <2>3. CASE StayConnected
    BY <2>3 DEF IInv, LoopOK, StayConnected, link, work, environment
  <2>4. CASE ConnectFails
    BY <2>4 DEF IInv, LoopOK, ConnectFails, link, work, environment
  <2>5. CASE NothingToWrite
    BY <2>5 DEF IInv, LoopOK, NothingToWrite, link, work, environment
  <2>6. CASE SkipPoll
    BY <2>6 DEF IInv, LoopOK, SkipPoll, link, work, environment
  <2>7. CASE Poll
    BY <2>7 DEF IInv, LoopOK, Poll, link, work, environment
  <2>8. QED
    BY <2>1, <2>2, <2>3, <2>4, <2>5, <2>6, <2>7
<1>2. pc # "write" /\ pc' # "write" /\ UNCHANGED <<lastSent, pending, link, regs>>
  BY DEF Receive, Timeout, StayConnected, ConnectFails, NothingToWrite, SkipPoll, Poll
<1>3. JobInv'
  BY <1>2 DEF JobInv
<1>4. SentInv'
  BY <1>2, SentKept DEF IInv
<1>5. QED
  BY <1>1, <1>3, <1>4 DEF IInv

LEMMA ConnectionStep ==
  ASSUME IInv, Connect \/ PollFails
  PROVE  IInv'
<1>1. CASE Connect
  BY <1>1, ParametersShape DEF IInv, LoopOK, JobInv, SentInv, Connect, work, environment
<1>2. CASE PollFails
  BY <1>2 DEF IInv, LoopOK, JobInv, SentInv, PollFails, DropConnection, work, environment
<1>3. QED
  BY <1>1, <1>2

LEMMA EnvironmentStep ==
  ASSUME IInv, (\E base \in Base : Announce(base)) \/ DeviceRestart \/ RatingKnown
  PROVE  IInv'
<1>1. CASE \E base \in Base : Announce(base)
  <2>1. PICK base \in Base : Announce(base)
    BY <1>1
  <2>2. PICK p \in Parameters \ {None} : p = Translate(base)
    BY ParametersShape
  <2>3. input' \in Seq(Parameters \ {None}) /\ Len(input') <= QueueCapacity
    BY <2>1, <2>2, ConnectionAssumption DEF Announce, IInv, LoopOK
  <2>4. LoopOK'
    BY <2>1, <2>2, <2>3 DEF Announce, IInv, LoopOK, link, work
  <2>5. JobInv'
    BY <2>1, JobKept DEF Announce, IInv
  <2>6. SentInv'
    BY <2>1 DEF Announce, IInv, SentInv, link
  <2>7. QED
    BY <2>4, <2>5, <2>6 DEF IInv
<1>2. CASE DeviceRestart
  <2>1. LoopOK'
    BY <1>2, FactoryType DEF DeviceRestart, IInv, LoopOK, work
  <2>2. JobInv'
    BY <1>2 DEF DeviceRestart, IInv, JobInv, work
  <2>3. SentInv'
    BY <1>2 DEF DeviceRestart, SentInv
  <2>4. QED
    BY <2>1, <2>2, <2>3 DEF IInv
<1>3. CASE RatingKnown
  <2>1. LoopOK'
    BY <1>3 DEF RatingKnown, IInv, LoopOK, link, work
  <2>2. JobInv'
    BY <1>3, JobKept DEF RatingKnown, IInv
  <2>3. SentInv'
    BY <1>3 DEF RatingKnown, IInv, SentInv, link
  <2>4. QED
    BY <2>1, <2>2, <2>3 DEF IInv
<1>4. QED
  BY <1>1, <1>2, <1>3

LEMMA StartStep ==
  ASSUME IInv, StartSend \/ StartRetry
  PROVE  IInv'
<1>1. /\ pc = "job" /\ pc' = "write" /\ connected /\ parameters # None /\ IsParameters(parameters)
      /\ UNCHANGED <<input, parameters, lastSent, pending, link, due, regs, environment>>
      /\ deferred' = Deferred(parameters, rated) /\ rated \in BOOLEAN
  BY ParametersShape DEF IInv, LoopOK, StartSend, StartRetry, CanWrite
<1>2. SentInv'
  BY <1>1 DEF SentInv
<1>3. LoopOK'
  <2>1. deferred' \in BOOLEAN
    BY <1>1, DeferredType
  <2>2. job' \in {"send", "retry"} /\ listed' \in 0 .. Len(Model)
    <3>1. PICK n \in Nat : n = Len(Model)
      BY LenModel
    <3>2. (job' = "send" \/ job' = "retry") /\ (listed' = 0 \/ listed' = n)
      BY <3>1 DEF StartSend, StartRetry
    <3>3. QED
      BY <3>1, <3>2
  <2>3. QED
    BY <1>1, <2>1, <2>2 DEF IInv, LoopOK, link, environment
<1> PICK p : p = parameters /\ IsParameters(p)
  BY <1>1
<1> PICK r \in BOOLEAN : r = rated
  BY <1>1
<1>4. Range(PointWrites(p, r)) \subseteq JobWrites(p, r)
  BY DEF JobWrites
<1>5. ASSUME NEW s \in Seq(PointOp), Range(s) \subseteq Range(PointWrites(p, r))
      PROVE  s \in Seq(JobWrites(p, r)) /\ StagesFirst(s)
  <2>1. \A i \in DOMAIN s : s[i] \in Range(PointWrites(p, r))
    BY <1>5 DEF Range
  <2>2. \A i \in DOMAIN s : s[i] \in JobWrites(p, r)
    BY <1>4, <2>1
  <2>3. s \in Seq(JobWrites(p, r))
    BY <2>2
  <2>4. \A i \in DOMAIN s : s[i].kind = "point"
    BY <2>1, PointShape
  <2>5. QED
    BY <2>3, <2>4 DEF StagesFirst
<1>6. todo' \in Seq(JobWrites(p, r)) /\ StagesFirst(todo')
  <2>1. CASE StartSend
    BY <1>5, <2>1, PointWritesRange DEF StartSend
  <2>2. CASE StartRetry
    <3>1. PICK s \in Seq(PointOp) : /\ s = DerivationWrites(p, r, TRUE)
                                    /\ Range(s) \subseteq Range(PointWrites(p, r))
      BY RetryWrites
    <3>2. QED
      BY <1>5, <2>2, <3>1 DEF StartRetry
  <2>3. QED
    BY <2>1, <2>2
<1>7. ~broken => /\ PointsComing(regs, p, r, Range(todo'))
                 /\ CurvesComing(regs, p, Range(todo'), listed')
  <2> SUFFICES ASSUME ~broken
               PROVE  /\ PointsComing(regs, p, r, Range(todo'))
                      /\ CurvesComing(regs, p, Range(todo'), listed')
    OBVIOUS
  <2>1. CASE StartSend
    BY <2>1 DEF StartSend, PointsComing, CurvesComing
  <2>2. CASE StartRetry
    <3>1. lastSent = p /\ p # None /\ pending
      BY <1>1, <2>2 DEF StartRetry
    <3>2. PICK before \in BOOLEAN :
            /\ pending = Deferred(p, before)
            /\ PointsComing(regs, p, before, {})
            /\ CurvesComing(regs, p, {}, Len(Model))
      BY <1>1, <3>1 DEF IInv, SentInv
    <3>3. before = FALSE
      BY <3>1, <3>2 DEF Deferred, LimitPending, SetPending
    <3>4. Range(PointWrites(p, r)) \subseteq Range(todo') \cup Range(PointWrites(p, before))
      BY <2>2, <3>3, RetryCompletes DEF StartRetry
    <3>5. PointsComing(regs, p, r, Range(todo'))
      BY <3>2, <3>4 DEF PointsComing
    <3>6. CurvesComing(regs, p, Range(todo'), Len(Model))
      BY <3>2 DEF CurvesComing
    <3>7. QED
      BY <2>2, <3>5, <3>6 DEF StartRetry
  <2>3. QED
    BY <2>1, <2>2
<1>8. JobInv'
  BY <1>1, <1>6, <1>7 DEF JobInv, link
<1>9. QED
  BY <1>2, <1>3, <1>8 DEF IInv

LEMMA WriteStep ==
  ASSUME IInv, Write
  PROVE  IInv'
<1>1. /\ pc = "write" /\ pc' = "write" /\ connected /\ ~broken /\ todo # <<>>
      /\ parameters # None /\ IsParameters(parameters) /\ regs \in Registers
      /\ regs' = Apply(regs, Head(todo)) /\ todo' = Tail(todo)
      /\ UNCHANGED <<input, parameters, lastSent, pending, link, job, listed, deferred, due, environment>>
  BY ParametersShape DEF IInv, LoopOK, JobInv, Write
<1> PICK p : p = parameters /\ IsParameters(p)
  BY <1>1
<1>2. PICK r \in BOOLEAN :
        /\ deferred = Deferred(p, r)
        /\ todo \in Seq(JobWrites(p, r)) /\ StagesFirst(todo)
        /\ PointsComing(regs, p, r, Range(todo)) /\ CurvesComing(regs, p, Range(todo), listed)
  BY <1>1 DEF IInv, JobInv
<1> PICK w, rest : w = Head(todo) /\ rest = Tail(todo)
  OBVIOUS
<1>3. /\ w \in JobWrites(p, r) /\ rest \in Seq(JobWrites(p, r))
      /\ Range(todo) = {w} \cup Range(rest)
  BY <1>1, <1>2, FirstAndRest
<1>4. StagesFirst(rest) /\ (w.kind = "adopt" => \A v \in Range(rest) : v.kind # "stage")
  BY <1>1, <1>2, StagesFirstRest
<1>5. listed \in 0 .. Len(Model)
  BY DEF IInv, LoopOK
<1> PICK n \in 0 .. Len(Model) : n = listed
  BY <1>5
<1> PICK q \in Registers : q = regs
  BY <1>1
<1>6. PointsComing(Apply(q, w), p, r, Range(rest))
  BY <1>2, <1>3, PointsStep
<1>7. CurvesComing(Apply(q, w), p, Range(rest), n)
  BY <1>2, <1>3, <1>4, CurvesStep
<1>8. Apply(q, w) \in Registers
  BY <1>3, WriteType DEF Remains
<1>9. LoopOK'
  BY <1>1, <1>8 DEF IInv, LoopOK, link, environment
<1>10. JobInv'
  <2>1. PointsComing(regs', p, r, Range(todo')) /\ CurvesComing(regs', p, Range(todo'), listed')
    BY <1>1, <1>6, <1>7
  <2>2. todo' \in Seq(JobWrites(p, r)) /\ StagesFirst(todo')
    BY <1>1, <1>3, <1>4
  <2>3. QED
    BY <1>1, <1>2, <2>1, <2>2 DEF JobInv, link
<1>11. SentInv'
  BY <1>1 DEF SentInv
<1>12. QED
  BY <1>9, <1>10, <1>11 DEF IInv

LEMMA NextModelStep ==
  ASSUME IInv, NextModel
  PROVE  IInv'
<1>1. /\ pc = "write" /\ pc' = "write" /\ connected /\ todo = <<>>
      /\ parameters # None /\ IsParameters(parameters)
      /\ listed \in Nat /\ listed < Len(Model) /\ listed' = listed + 1 /\ listed' \in 0 .. Len(Model)
      /\ todo' = CurveWrites(Model[listed + 1], parameters.curves)
      /\ UNCHANGED <<input, parameters, lastSent, pending, link, job, deferred, due, regs, environment>>
  BY ParametersShape, LenModel DEF IInv, LoopOK, JobInv, NextModel
<1> PICK p : p = parameters /\ IsParameters(p)
  BY <1>1
<1> PICK n \in Nat : n = listed
  BY <1>1
<1>2. PICK r \in BOOLEAN :
        /\ deferred = Deferred(p, r)
        /\ ~broken => PointsComing(regs, p, r, Range(todo)) /\ CurvesComing(regs, p, Range(todo), n)
  BY <1>1 DEF IInv, JobInv
<1>3. Range(todo) = {}
  BY <1>1 DEF Range
<1>4. todo' \in Seq(JobWrites(p, r)) /\ StagesFirst(todo')
  <2>1. Model \in Seq(CurveModel)
    BY ParametersAssumption
  <2>2. Model[n + 1] \in CurveModel
    BY <1>1, <2>1
  <2>3. QED
    BY <1>1, <2>2, CurveWritesRange
<1>5. ~broken => PointsComing(regs, p, r, Range(todo')) /\ CurvesComing(regs, p, Range(todo'), n + 1)
  <2>1. ~broken => PointsComing(regs, p, r, Range(todo'))
    BY <1>2, <1>3 DEF PointsComing
  <2>2. ~broken => CurvesComing(regs, p, Range(todo'), n + 1)
    BY <1>1, <1>2, <1>3, CurvesNext
  <2>3. QED
    BY <2>1, <2>2
<1>6. LoopOK'
  BY <1>1 DEF IInv, LoopOK, link, environment
<1>7. JobInv'
  BY <1>1, <1>2, <1>4, <1>5 DEF JobInv, link
<1>8. SentInv'
  BY <1>1 DEF SentInv
<1>9. QED
  BY <1>6, <1>7, <1>8 DEF IInv

LEMMA JobEndsStep ==
  ASSUME IInv, JobDone \/ JobFails
  PROVE  IInv'
<1> PICK zero \in 0 .. Len(Model) : zero = 0
  BY LenModel
<1>1. CASE JobDone
  <2>1. PICK r \in BOOLEAN :
          /\ deferred = Deferred(parameters, r)
          /\ PointsComing(regs, parameters, r, Range(todo))
          /\ CurvesComing(regs, parameters, Range(todo), Len(Model))
    BY <1>1 DEF IInv, JobInv, JobDone
  <2>2. Range(todo) = {}
    BY <1>1 DEF JobDone, Range
  <2>3. LoopOK'
    BY <1>1 DEF IInv, LoopOK, JobDone, link, environment
  <2>4. SentInv'
    BY <1>1, <2>1, <2>2 DEF SentInv, JobDone, link
  <2>5. JobInv'
    BY <1>1 DEF JobInv, JobDone
  <2>6. QED
    BY <2>3, <2>4, <2>5 DEF IInv
<1>2. CASE JobFails
  <2>1. regs' \in Registers
    <3>1. PICK r \in BOOLEAN : /\ parameters # None /\ IsParameters(parameters)
                               /\ todo \in Seq(JobWrites(parameters, r)) /\ regs \in Registers
      BY <1>2, ParametersShape DEF IInv, LoopOK, JobInv, JobFails
    <3>2. CASE broken \/ todo = <<>>
      BY <1>2, <3>1, <3>2 DEF JobFails
    <3>3. CASE ~broken /\ todo # <<>>
      <4>1. Head(todo) \in JobWrites(parameters, r)
        BY <3>1, <3>3, FirstAndRest
      <4>2. QED
        BY <1>2, <3>1, <3>3, <4>1, WriteType DEF JobFails
    <3>4. QED
      BY <3>2, <3>3
  <2>2. LoopOK'
    BY <1>2, <2>1 DEF IInv, LoopOK, JobFails, DropConnection, environment
  <2>3. JobInv' /\ SentInv'
    BY <1>2 DEF JobInv, SentInv, JobFails, DropConnection
  <2>4. QED
    BY <2>2, <2>3 DEF IInv
<1>3. QED
  BY <1>1, <1>2

THEOREM NextIInv == IInv /\ [Next]_vars => IInv'
<1> SUFFICES ASSUME IInv, [Next]_vars
             PROVE  IInv'
  OBVIOUS
<1>1. CASE Receive \/ Timeout \/ StayConnected \/ ConnectFails \/ NothingToWrite \/ SkipPoll \/ Poll
  BY <1>1, QuietStep
<1>2. CASE Connect \/ PollFails
  BY <1>2, ConnectionStep
<1>3. CASE StartSend \/ StartRetry
  BY <1>3, StartStep
<1>4. CASE Write
  BY <1>4, WriteStep
<1>5. CASE NextModel
  BY <1>5, NextModelStep
<1>6. CASE JobDone \/ JobFails
  BY <1>6, JobEndsStep
<1>7. CASE (\E base \in Base : Announce(base)) \/ DeviceRestart \/ RatingKnown
  BY <1>7, EnvironmentStep
<1>8. CASE UNCHANGED vars
  BY <1>8 DEF vars, work, link, environment, IInv, LoopOK, JobInv, SentInv
<1>9. QED
  BY <1>1, <1>2, <1>3, <1>4, <1>5, <1>6, <1>7, <1>8 DEF Next, Task

LEMMA IInvAlways == Spec => []IInv
BY InitIInv, NextIInv, PTL DEF Spec

(* The loop's variables and the registers hold what they are meant to, and    *)
(* the input channel no more than it has room for.                            *)
THEOREM TypesCorrect == Spec => []TypeOK
<1>1. IInv => TypeOK
  <2> SUFFICES ASSUME IInv
               PROVE  TypeOK
    OBVIOUS
  <2>1. DOMAIN regs.point = DOMAIN FactoryRegs.point
    <3>1. regs \in Registers /\ FactoryRegs \in Registers
      BY FactoryType DEF IInv, LoopOK
    <3>2. QED
      BY <3>1 DEF Registers
  <2>2. QED
    BY <2>1 DEF IInv, LoopOK, TypeOK, Registers
<1>2. QED
  BY <1>1, IInvAlways, PTL

(* Whenever the loop takes the parameters for sent and has nothing pending,   *)
(* the device is set to what they ask for, for every rating, every set of     *)
(* control bases and curves, and any number of failures and restarts          *)
(* (last_sent_parameters and pending_apply).                                  *)
THEOREM SentParametersApplied == Spec => []SentIsApplied
<1>1. IInv => SentIsApplied
  <2> SUFFICES ASSUME IInv, Settled
               PROVE  Agrees(parameters)
    BY DEF SentIsApplied
  <2>1. PICK p \in Parameters : p = parameters /\ p = lastSent /\ IsParameters(p)
    BY ParametersShape DEF IInv, LoopOK, Settled
  <2>2. PICK r \in BOOLEAN :
          /\ ~Deferred(p, r)
          /\ PointsComing(regs, p, r, {}) /\ CurvesComing(regs, p, {}, Len(Model))
    BY <2>1 DEF IInv, SentInv, Settled
  <2>3. EsAgrees(p) /\ VarAgrees(p)
    BY <2>1, <2>2, HeldSettings
  <2>4. LimitAgrees(p)
    BY <2>1, <2>2, HeldLimit DEF Deferred
  <2>5. SetAgrees(p)
    BY <2>1, <2>2, HeldSetpoint DEF Deferred
  <2>6. CurvesAgree(p)
    BY <2>2, HeldCurves
  <2>7. QED
    BY <2>1, <2>3, <2>4, <2>5, <2>6 DEF Agrees
<1>2. QED
  BY <1>1, IInvAlways, PTL

-----------------------------------------------------------------------------
(* The export limit in force. *)

LimitTyped(q) == q.point.wMaxLimEna \in BOOLEAN /\ q.point.wMaxLimPct \in Int

LEMMA EffectiveLimitType ==
  ASSUME NEW q, LimitTyped(q)
  PROVE  EffectiveLimit(q) \in Int /\ EffectiveLimit(q) <= Unlimited
BY DEF LimitTyped, EffectiveLimit, Capped, Unlimited

LEMMA NoLimitAsked ==
  ASSUME NEW p, ~LimitOn(p)
  PROVE  AskedLimit(p) = Unlimited
<1>1. \A x : Within(x, p)
  BY DEF LimitOn, Within
<1>2. \A x \in 0 .. Unlimited :
        Within(x, p) /\ (x = Unlimited \/ ~Within(x + 1, p)) <=> x = Unlimited
  BY <1>1
<1>3. Unlimited \in 0 .. Unlimited
  BY DEF Unlimited
<1>4. Unlimited = CHOOSE x \in 0 .. Unlimited :
                    Within(x, p) /\ (x = Unlimited \/ ~Within(x + 1, p))
  BY <1>2, <1>3
<1>5. QED
  BY <1>4 DEF AskedLimit

(* A percentage is only written once it can be told. *)
LEMMA LimitWritten ==
  ASSUME NEW p, IsParameters(p), NEW r \in BOOLEAN, NEW w \in Range(PointWrites(p, r)),
         w.at = "wMaxLimPct"
  PROVE  /\ w = Point("wMaxLimPct", LimitPct(p, r)) /\ LimitPct(p, r) \in Int
         /\ Capped(LimitPct(p, r)) = AskedLimit(p)
<1> PICK first \in BOOLEAN : first = FALSE
  OBVIOUS
<1> PICK known \in BOOLEAN : known = TRUE
  OBVIOUS
<1>1. \/ w \in Settings(p) \/ w \in Range(LimitWrites(p, r, first))
      \/ w \in Range(SetWrites(p, r, first))
  <2>1. first = FALSE
    OBVIOUS
  <2>2. QED
    BY <2>1, SentOf, Zenon
<1>2. w \notin Settings(p)
  BY DEF Settings, Only, Point
<1>3. w \notin Range(SetWrites(p, r, first))
  BY SetWritesMember DEF IsSetWrite, Point
<1>4. /\ LimitGoes(p, r, first) /\ LimitPct(p, r) # None
      /\ w = Point("wMaxLimPct", LimitPct(p, r))
  BY <1>1, <1>2, <1>3, LimitWritesRange DEF Point
<1>5. LimitOn(p) /\ LimitPct(p, r) = LimitPct(p, known)
  <2>1. ~LimitPending(p, r)
    BY <1>4 DEF LimitGoes
  <2>2. LimitPct(p, r) = LimitPct(p, known)
    BY <2>1 DEF LimitPct, LimitPending
  <2>3. IsSet(p.wMaxLim) \/ LimitPct(p, r) = p.wMaxLimPct
    BY LimitPctType
  <2>4. QED
    BY <1>4, <2>2, <2>3 DEF LimitOn, IsSet
<1>6. Capped(LimitPct(p, TRUE)) = AskedLimit(p)
  BY <1>5, WritesAskedLimit DEF LimitOn, IsParameters
<1>7. LimitPct(p, r) \in Int
  BY <1>4, LimitPctType
<1>8. QED
  BY <1>4, <1>5, <1>6, <1>7

LEMMA LimitStep ==
  ASSUME NEW p, IsParameters(p), NEW r \in BOOLEAN, NEW q \in Registers, LimitTyped(q),
         NEW w \in JobWrites(p, r), NEW a \in Remains(q, w)
  PROVE  /\ LimitTyped(a)
         /\ EffectiveLimit(a) <= EffectiveLimit(q) \/ EffectiveLimit(a) <= AskedLimit(p)
<1>1. CASE /\ a.point["wMaxLimEna"] = q.point["wMaxLimEna"]
           /\ a.point["wMaxLimPct"] = q.point["wMaxLimPct"]
  <2>1. LimitTyped(a) /\ EffectiveLimit(a) = EffectiveLimit(q)
    BY <1>1 DEF LimitTyped, EffectiveLimit
  <2>2. QED
    BY <2>1, EffectiveLimitType
<1>2. CASE w \in Range(PointWrites(p, r)) /\ a = Apply(q, w)
  <2>1. PICK x \in PointName, c \in Content :
          w = Point(x, c) /\ w.kind = "point" /\ w.at = x /\ w.value = c
    BY <1>2, PointShape
  <2>2. \A y \in PointName : a.point[y] = IF y = x THEN c ELSE q.point[y]
    BY <1>2, <2>1, ApplyPoint
  <2>3. "wMaxLimEna" \in PointName /\ "wMaxLimPct" \in PointName
    BY DEF PointName
  <2>4. CASE x = "wMaxLimEna"
    <3>1. c = LimitOn(p)
      BY <1>2, <2>1, <2>4, OneValue DEF Point
    <3>2. a.point["wMaxLimEna"] = LimitOn(p) /\ a.point["wMaxLimPct"] = q.point["wMaxLimPct"]
      BY <2>2, <2>3, <2>4, <3>1
    <3>3. LimitTyped(a)
      BY <3>2 DEF LimitTyped, LimitOn
    <3>4. CASE LimitOn(p)
      <4>1. EffectiveLimit(a) = EffectiveLimit(q) \/ EffectiveLimit(q) = Unlimited
        BY <3>2, <3>4 DEF EffectiveLimit
      <4>2. QED
        BY <3>3, <4>1, EffectiveLimitType DEF Unlimited
    <3>5. CASE ~LimitOn(p)
      BY <3>3, <3>5, NoLimitAsked, EffectiveLimitType
    <3>6. QED
      BY <3>4, <3>5
  <2>5. CASE x = "wMaxLimPct"
    <3>1. /\ c = LimitPct(p, r) /\ c \in Int /\ Capped(c) = AskedLimit(p)
      BY <1>2, <2>1, <2>5, LimitWritten DEF Point
    <3>2. a.point["wMaxLimEna"] = q.point["wMaxLimEna"] /\ a.point["wMaxLimPct"] = c
      BY <2>2, <2>3, <2>5
    <3>3. LimitTyped(a)
      BY <3>1, <3>2 DEF LimitTyped
    <3>4. EffectiveLimit(a) = AskedLimit(p) \/ EffectiveLimit(a) = EffectiveLimit(q)
      BY <3>1, <3>2 DEF EffectiveLimit
    <3>5. QED
      BY <3>3, <3>4, EffectiveLimitType
  <2>6. CASE x # "wMaxLimEna" /\ x # "wMaxLimPct"
    BY <1>1, <2>2, <2>3, <2>6
  <2>7. QED
    BY <2>4, <2>5, <2>6
<1>3. CASE w \notin Range(PointWrites(p, r))
  <2>1. a.point = q.point
    <3>1. CASE w \in {StageOf(p, s) : s \in {y \in Slot : p.curves[y] \in Fits}}
      <4>1. PICK t \in Slot, c \in Fits : w = Stage(t, c)
        BY <3>1 DEF StageOf
      <4>2. [w EXCEPT !.value = Torn] = Stage(t, Torn)
        BY <4>1 DEF Stage
      <4>3. Apply(q, w).point = q.point /\ Apply(q, Stage(t, Torn)).point = q.point
        BY <4>1, ApplyStage
      <4>4. QED
        BY <4>2, <4>3 DEF Remains
    <3>2. CASE w \in {Adopt(m) : m \in CurveModel}
      <4>1. Apply(q, w).point = q.point /\ w.kind # "stage"
        BY <3>2, ApplyAdopt DEF Adopt
      <4>2. QED
        BY <4>1 DEF Remains
    <3>3. CASE w \in {Enable(m, AnyUsable(p, m)) : m \in CurveModel}
      <4>1. PICK m \in CurveModel, on \in BOOLEAN : w = Enable(m, on)
        BY <3>3 DEF AnyUsable
      <4>2. Apply(q, w).point = q.point /\ w.kind # "stage"
        BY <4>1, ApplyEnable DEF Enable
      <4>3. QED
        BY <4>2 DEF Remains
    <3>4. QED
      BY <1>3, <3>1, <3>2, <3>3 DEF JobWrites
  <2>2. QED
    BY <1>1, <2>1
<1>4. CASE w \in Range(PointWrites(p, r)) /\ a # Apply(q, w)
  <2>1. w.kind = "point"
    BY <1>4, PointShape
  <2>2. a = q
    BY <1>4, <2>1 DEF Remains
  <2>3. QED
    BY <1>1, <2>2
<1>5. QED
  BY <1>2, <1>3, <1>4

LEMMA FactoryTyped == LimitTyped(FactoryRegs)
<1>1. FactoryRegs.point = [es |-> Factory, varEna |-> FALSE, varPct |-> Factory,
                           wMaxLimEna |-> FALSE, wMaxLimPct |-> Unlimited,
                           wSetEna |-> FALSE, wSetPct |-> 0, wSet |-> 0, wSetMod |-> "Watts"]
  BY DEF FactoryRegs
<1>2. FactoryRegs.point.wMaxLimEna \in BOOLEAN
  BY <1>1
<1>3. FactoryRegs.point.wMaxLimPct \in Int
  BY <1>1 DEF Unlimited
<1>4. QED
  BY <1>2, <1>3 DEF LimitTyped

(* A step of the task changes a register by a write of the job, if at all. *)
LEMMA TaskWrites ==
  ASSUME IInv, Task
  PROVE  \/ regs' = regs
         \/ \E r \in BOOLEAN :
              /\ IsParameters(parameters) /\ regs \in Registers
              /\ \E w \in JobWrites(parameters, r) : regs' \in Remains(regs, w)
<1>1. CASE Write \/ JobFails
  <2>1. pc = "write"
    BY <1>1 DEF Write, JobFails
  <2>2. PICK r \in BOOLEAN : todo \in Seq(JobWrites(parameters, r))
    BY <2>1 DEF IInv, JobInv
  <2>3. IsParameters(parameters) /\ regs \in Registers
    BY <2>1, ParametersShape DEF IInv, LoopOK, JobInv
  <2>4. regs' = regs \/ (todo # <<>> /\ regs' \in Remains(regs, Head(todo)))
    BY <1>1 DEF Write, JobFails, Remains
  <2>5. todo # <<>> => Head(todo) \in JobWrites(parameters, r)
    BY <2>2, FirstAndRest
  <2>6. QED
    BY <2>3, <2>4, <2>5
<1>2. CASE ~(Write \/ JobFails)
  BY <1>2 DEF Task, Receive, Timeout, StayConnected, Connect, ConnectFails, StartSend,
              StartRetry, NothingToWrite, NextModel, JobDone, SkipPoll, Poll, PollFails
<1>3. QED
  BY <1>1, <1>2

LEMMA LimitTypedStep ==
  ASSUME IInv, LimitTyped(regs), [Next]_vars
  PROVE  LimitTyped(regs')
<1>1. CASE Task
  BY <1>1, TaskWrites, LimitStep
<1>2. CASE DeviceRestart
  BY <1>2, FactoryTyped DEF DeviceRestart
<1>3. CASE (\E base \in Base : Announce(base)) \/ RatingKnown \/ UNCHANGED vars
  <2>1. regs' = regs
    BY <1>3 DEF Announce, RatingKnown, vars
  <2>2. QED
    BY <2>1
<1>4. QED
  BY <1>1, <1>2, <1>3 DEF Next

(* No step of the task loosens the limit in force beyond what its parameters  *)
(* ask for, for every rating and every pair of limits, whichever write a      *)
(* failure cuts the job at (send_new_parameters).                             *)
THEOREM LimitNotLoosened == Spec => ProtectionKept
<1>1. Init => LimitTyped(regs)
  BY FactoryTyped DEF Init
<1>2. IInv /\ LimitTyped(regs) /\ [Next]_vars => LimitTyped(regs)'
  BY LimitTypedStep
<1>3. IInv /\ LimitTyped(regs) /\ [Next]_vars
        => [LET before == EffectiveLimit(regs)  after == EffectiveLimit(regs')
            IN  Task => after <= before \/ after <= AskedLimit(parameters)]_vars
  <2> SUFFICES ASSUME IInv, LimitTyped(regs), Task
               PROVE  \/ EffectiveLimit(regs') <= EffectiveLimit(regs)
                      \/ EffectiveLimit(regs') <= AskedLimit(parameters)
    OBVIOUS
  <2>1. CASE regs' = regs
    BY <2>1, EffectiveLimitType
  <2>2. CASE \E r \in BOOLEAN :
               /\ IsParameters(parameters) /\ regs \in Registers
               /\ \E w \in JobWrites(parameters, r) : regs' \in Remains(regs, w)
    BY <2>2, LimitStep
  <2>3. QED
    BY <2>1, <2>2, TaskWrites
<1>4. QED
  BY <1>1, <1>2, <1>3, IInvAlways, PTL DEF Spec, ProtectionKept

=============================================================================
