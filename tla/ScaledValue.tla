----------------------------- MODULE ScaledValue -----------------------------
(***************************************************************************)
(* A value with a scale factor, a power of ten, as SunSpec and IEEE 2030.5 *)
(* write measured values and limits (scaled_value.rs).  The integer type   *)
(* of the value is its bounds, Low and High; the arithmetic is done in a   *)
(* wider type whose largest value is Wide (i64).                           *)
(***************************************************************************)
EXTENDS Integers

CONSTANTS Low, High,  \* the bounds of the value's type: u16, i16, u32 or i32
          Wide        \* i64::MAX

(* The bounds of the four types, and that i64 has room for twice a value:   *)
(* a value is never large enough for the half step to overflow its sum.     *)
ASSUME ScaledValueAssumption ==
  /\ Low \in Int /\ High \in Int /\ Wide \in Int
  /\ Low <= 0 /\ 0 < High
  /\ 2 * High < Wide /\ -(2 * Low) < Wide

Bounded(value, low, high) ==
  IF value < low THEN low ELSE IF value > high THEN high ELSE value

(* saturating_from_i64. *)
Narrowed(value) == Bounded(value, Low, High)

(* i64::saturating_mul. *)
SaturatingMul(a, b) == Bounded(a * b, -Wide - 1, Wide)

(* 10i64.saturating_pow. *)
SaturatingPow10(n) == Bounded(10 ^ n, 1, Wide)

(* The division of Rust truncates. *)
Quotient(a, b) == IF a < 0 THEN -((-a) \div b) ELSE a \div b

Finer(value, factor) == Narrowed(SaturatingMul(value, factor))

Coarser(value, factor) ==
  LET half  == factor \div 2
      nudge == IF value < 0 THEN -half ELSE half
  IN  Narrowed(Quotient(value + nudge, factor))

Rescale(scaled, target) ==
  IF scaled.sf = target
    THEN scaled
    ELSE [ value |-> IF scaled.sf > target
                       THEN Finer(scaled.value, SaturatingPow10(scaled.sf - target))
                       ELSE Coarser(scaled.value, SaturatingPow10(target - scaled.sf)),
           sf    |-> target ]

=============================================================================
