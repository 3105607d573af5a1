------------------------- MODULE MCModbusConnection -------------------------
(***************************************************************************)
(* Instances of ModbusConnection for TLC: a voltage curve model with one   *)
(* curve, and a trip model with two of the three.  The values it writes    *)
(* are rescaled by ScaledValue, which is checked here on the integers of   *)
(* four bits, with an arithmetic of eight.                                 *)
(***************************************************************************)
EXTENDS ModbusConnection, ScaledValue

CONSTANTS c1, c2, long

MCModel == <<"model705", "model707">>
MCSlots == [model705 |-> <<"voltVar">>, model707 |-> <<"mustTrip", "mayTrip">>]

NoCurves == [s \in {"voltVar", "mustTrip", "mayTrip"} |-> None]

Nothing ==
  [connect |-> None, fixedVar |-> None, maxLimW |-> None, expLimW |-> None,
   fixedW |-> None, targetW |-> None, impLimW |-> None,
   links |-> NoCurves, fetched |-> {}]

(* Every limit at once, and curves for all slots. *)
SiteLimits ==
  [Nothing EXCEPT !.connect = TRUE, !.maxLimW = 80, !.expLimW = 25, !.impLimW = 20,
                  !.links = [voltVar |-> c1, mustTrip |-> c1, mayTrip |-> c1],
                  !.fetched = {c1}]

(* A target in watts, limits of which the site's exceeds the rating, fewer curves and one of them too long. *)
Target ==
  [Nothing EXCEPT !.connect = FALSE, !.fixedVar = 10, !.maxLimW = 50, !.expLimW = 45,
                  !.targetW = 20,
                  !.links = [voltVar |-> long, mustTrip |-> c2, mayTrip |-> None],
                  !.fetched = {c2, long}]

(* A setpoint in percent and an export limit; a curve that was not fetched. *)
ExportOnly ==
  [Nothing EXCEPT !.expLimW = 10, !.fixedW = 30,
                  !.links = [voltVar |-> c1, mustTrip |-> None, mayTrip |-> None]]

MCBase == {Nothing, SiteLimits, Target, ExportOnly}

CurveBase == {SiteLimits, Target}

MCLow == -8

Gap == 0 .. 3

Distance(v, w) == IF v < w THEN w - v ELSE v - w

(* rescale against a reference: the value of the type that is nearest at the *)
(* target scale, and of two as near the one further from zero.  A gap of     *)
(* three digits is beyond the arithmetic, as one of nineteen is for i64.     *)
ASSUME RescaleIsNearest ==
  \A v \in Low .. High, from \in Gap, to \in Gap :
    LET up   == IF from > to THEN 10 ^ (from - to) ELSE 1
        down == IF from < to THEN 10 ^ (to - from) ELSE 1
        r    == Rescale([value |-> v, sf |-> from], to)
    IN  /\ r.sf = to /\ r.value \in Low .. High
        /\ \A w \in (Low .. High) \ {r.value} :
             \/ Distance(v * up, r.value * down) < Distance(v * up, w * down)
             \/ /\ Distance(v * up, r.value * down) = Distance(v * up, w * down)
                /\ Distance(0, r.value) > Distance(0, w)

=============================================================================
