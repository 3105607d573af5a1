-------------------------- MODULE ScaledValueProofs --------------------------
(***************************************************************************)
(* What a rescaled value is, for every integer type, every value of it and *)
(* every factor: the powers of ten that rescale multiplies and divides by, *)
(* and the largest one that i64 holds, are some of them.                   *)
(***************************************************************************)
EXTENDS ScaledValue, TLAPS

Absolute(v) == IF v < 0 THEN -v ELSE v

(* What is left of a division, which is all that rounding is about. *)
LEMMA Division ==
  ASSUME NEW a \in Nat, NEW f \in Nat \ {0}
  PROVE  /\ a \div f \in Nat
         /\ (a \div f) * f <= a
         /\ a < (a \div f) * f + f
OBVIOUS

(* A product is at least as far from zero as what it multiplies. *)
LEMMA Product ==
  ASSUME NEW v \in Int, NEW f \in Nat \ {0}
  PROVE  /\ v * f \in Int
         /\ v >= 0 => v * f >= v
         /\ v <= 0 => v * f <= v
OBVIOUS

LEMMA Order ==
  ASSUME NEW v \in Int, NEW w \in Int, NEW f \in Nat \ {0}
  PROVE  v <= w <=> v * f <= w * f
OBVIOUS

(* What Coarser divides to, for how far a value is from zero. *)
Rounded(n, f) == (n + f \div 2) \div f

(* Nearest, and a half step is rounded away from zero. *)
LEMMA RoundedNearest ==
  ASSUME NEW n \in Nat, NEW f \in Nat \ {0}
  PROVE  /\ Rounded(n, f) \in 0 .. n
         /\ 2 * (Rounded(n, f) * f) <= 2 * n + f
         /\ 2 * n < 2 * (Rounded(n, f) * f) + f
<1> DEFINE half == f \div 2
           q    == Rounded(n, f)
<1>1. half \in Nat /\ (f = 2 * half \/ f = 2 * half + 1)
  OBVIOUS
<1>2. q \in Nat /\ q * f \in Nat /\ q * f <= n + half /\ n + half < q * f + f
  <2>1. n + half \in Nat
    BY <1>1
  <2>2. /\ q \in Nat
        /\ q * f <= n + half
        /\ n + half < q * f + f
    BY <2>1, Division DEF Rounded
  <2>3. QED
    BY <2>2, Product
<1>3. q <= n
  <2>1. CASE n = 0
    <3>1. q * f < f
      BY <1>1, <1>2, <2>1
    <3>2. q = 0
      BY <1>2, <3>1, Product
    <3>3. QED
      BY <2>1, <3>2
  <2>2. CASE n # 0
    <3>1. (n + 1) * f = n * f + f /\ n * f >= n + f - 1
      BY <2>2, Z3
    <3>2. n + half < (n + 1) * f
      BY <1>1, <3>1
    <3>3. q * f < (n + 1) * f
      BY <1>1, <1>2, <3>1, <3>2
    <3>4. ~(n + 1 <= q)
      <4>1. n + 1 \in Int /\ q \in Int
        BY <1>2
      <4>2. n + 1 <= q <=> (n + 1) * f <= q * f
        BY <4>1, Order
      <4>3. QED
        BY <1>2, <3>1, <3>3, <4>2
    <3>5. QED
      BY <1>2, <3>4
  <2>3. QED
    BY <2>1, <2>2
<1> HIDE DEF q, half
<1>4. 2 * (q * f) <= 2 * n + f /\ 2 * n < 2 * (q * f) + f
  <2>1. PICK x \in Nat : x = q * f
    BY <1>2
  <2>2. x <= n + half /\ n + half < x + f
    BY <1>2, <2>1
  <2>3. 2 * x <= 2 * n + f /\ 2 * n < 2 * x + f
    BY <1>1, <2>2
  <2>4. QED
    BY <2>1, <2>3
<1> USE DEF q
<1>5. QED
  BY <1>2, <1>3, <1>4

(* Dividing by more, or less being divided, gives no more. *)
LEMMA RoundedMonotone ==
  ASSUME NEW m \in Nat, NEW n \in Nat, m <= n, NEW f \in Nat \ {0}
  PROVE  Rounded(m, f) <= Rounded(n, f)
<1> DEFINE p == Rounded(m, f)
           q == Rounded(n, f)
<1>1. f \div 2 \in Nat
  OBVIOUS
<1>2. /\ p \in Nat /\ p * f <= m + f \div 2
      /\ q \in Nat /\ n + f \div 2 < q * f + f
      /\ p * f \in Int /\ q * f \in Int
  <2>1. m + f \div 2 \in Nat /\ n + f \div 2 \in Nat
    BY <1>1
  <2>2. QED
    BY <2>1, Division, Product DEF Rounded
<1> HIDE DEF p, q
<1>3. p * f < q * f + f
  BY <1>1, <1>2
<1>4. (q + 1) * f = q * f + f
  BY <1>2, Z3
<1>5. ~(q + 1 <= p)
  BY <1>2, <1>3, <1>4, Order
<1> USE DEF p, q
<1>6. QED
  BY <1>2, <1>5

LEMMA CoarserIsRounded ==
  ASSUME NEW v \in Low .. High, NEW f \in Nat \ {0}
  PROVE  /\ Coarser(v, f) = IF v < 0 THEN -Rounded(-v, f) ELSE Rounded(v, f)
         /\ Coarser(v, f) \in Low .. High
<1> USE ScaledValueAssumption
<1>1. f \div 2 \in Nat
  OBVIOUS
<1>2. CASE v < 0
  <2>1. -v \in Nat /\ Rounded(-v, f) \in 0 .. -v
    BY <1>2, RoundedNearest
  <2>2. Quotient(v + -(f \div 2), f) = -Rounded(-v, f)
    <3>1. v + -(f \div 2) < 0 /\ -(v + -(f \div 2)) = -v + f \div 2
      BY <1>1, <1>2
    <3>2. QED
      BY <3>1 DEF Quotient, Rounded
  <2>3. -Rounded(-v, f) \in Low .. High
    BY <2>1
  <2>4. QED
    BY <1>2, <2>2, <2>3 DEF Coarser, Narrowed, Bounded
<1>3. CASE v >= 0
  <2>1. v \in Nat /\ Rounded(v, f) \in 0 .. v
    BY <1>3, RoundedNearest
  <2>2. Quotient(v + f \div 2, f) = Rounded(v, f)
    <3>1. ~(v + f \div 2 < 0)
      BY <1>1, <1>3
    <3>2. QED
      BY <3>1 DEF Quotient, Rounded
  <2>3. Rounded(v, f) \in Low .. High
    BY <2>1
  <2>4. QED
    BY <1>3, <2>2, <2>3 DEF Coarser, Narrowed, Bounded
<1>4. QED
  BY <1>2, <1>3

(* Rescaling to a coarser scale gives the nearest value of the type, and of  *)
(* two as near the one further from zero; it is never bounded.               *)
THEOREM CoarserIsNearest ==
  ASSUME NEW v \in Low .. High, NEW f \in Nat \ {0}
  PROVE  /\ Coarser(v, f) \in Low .. High
         /\ Absolute(v - Coarser(v, f) * f) * 2 <= f
         /\ Absolute(v - Coarser(v, f) * f) * 2 = f
              => Absolute(Coarser(v, f) * f) > Absolute(v)
<1> USE ScaledValueAssumption
<1>1. CASE v < 0
  <2>1. PICK q \in Nat : q = Rounded(-v, f)
    BY <1>1, RoundedNearest
  <2>2. Coarser(v, f) = -q
    BY <1>1, <2>1, CoarserIsRounded
  <2>3. PICK x \in Nat : x = q * f
    BY Z3
  <2>4. 2 * x <= 2 * (-v) + f /\ 2 * (-v) < 2 * x + f
    BY <1>1, <2>1, <2>3, RoundedNearest
  <2>5. (-q) * f = -x
    BY <2>3, Z3
  <2>6. /\ Absolute(v - (-x)) * 2 <= f
        /\ Absolute(v - (-x)) * 2 = f => Absolute(-x) > Absolute(v)
    BY <1>1, <2>4 DEF Absolute
  <2>7. QED
    BY <2>2, <2>5, <2>6, CoarserIsRounded
<1>2. CASE v >= 0
  <2>1. PICK q \in Nat : q = Rounded(v, f)
    BY <1>2, RoundedNearest
  <2>2. Coarser(v, f) = q
    BY <1>2, <2>1, CoarserIsRounded
  <2>3. PICK x \in Nat : x = q * f
    BY Z3
  <2>4. 2 * x <= 2 * v + f /\ 2 * v < 2 * x + f
    BY <1>2, <2>1, <2>3, RoundedNearest
  <2>5. /\ Absolute(v - x) * 2 <= f
        /\ Absolute(v - x) * 2 = f => Absolute(x) > Absolute(v)
    BY <1>2, <2>4 DEF Absolute
  <2>6. QED
    BY <2>2, <2>3, <2>5, CoarserIsRounded
<1>3. QED
  BY <1>1, <1>2

(* Rescaling to a finer scale gives the exact product as far as the type     *)
(* goes: that i64 saturates on the way is never seen.                        *)
THEOREM FinerIsExact ==
  ASSUME NEW v \in Low .. High, NEW f \in Nat \ {0}
  PROVE  Finer(v, f) = Narrowed(v * f)
<1> PICK x \in Int : x = v * f
  BY ScaledValueAssumption, Z3
<1> QED
  BY ScaledValueAssumption DEF Finer, SaturatingMul, Narrowed, Bounded

(* A larger value never becomes the smaller one, to either scale.            *)
THEOREM RescaleKeepsOrder ==
  ASSUME NEW v \in Low .. High, NEW w \in Low .. High, v <= w, NEW f \in Nat \ {0}
  PROVE  Finer(v, f) <= Finer(w, f) /\ Coarser(v, f) <= Coarser(w, f)
<1> USE ScaledValueAssumption
<1>0. \A n \in Nat : Rounded(n, f) \in Nat
  <2>1. \A n \in Nat : Rounded(n, f) \in 0 .. n
    BY RoundedNearest
  <2>2. QED
    BY <2>1
<1>1. Finer(v, f) <= Finer(w, f)
  <2>1. v * f \in Int /\ w * f \in Int /\ v * f <= w * f
    BY Order, Product
  <2>2. PICK x \in Int, y \in Int : x = v * f /\ y = w * f
    BY <2>1
  <2>3. Finer(v, f) = Narrowed(x) /\ Finer(w, f) = Narrowed(y) /\ x <= y
    BY <2>1, <2>2, FinerIsExact
  <2>4. Narrowed(x) <= Narrowed(y)
    BY <2>3 DEF Narrowed, Bounded
  <2>5. QED
    BY <2>3, <2>4
<1>2. Coarser(v, f) <= Coarser(w, f)
  <2>1. CASE w < 0
    <3>1. -w \in Nat /\ -v \in Nat /\ -w <= -v
      BY <2>1
    <3>0. Rounded(-v, f) \in Nat /\ Rounded(-w, f) \in Nat
      BY <3>1, <1>0
    <3>2. PICK p \in Nat, q \in Nat : p = Rounded(-v, f) /\ q = Rounded(-w, f)
      BY <3>0
    <3>3. q <= p
      BY <3>1, <3>2, RoundedMonotone
    <3>4. Coarser(v, f) = -p /\ Coarser(w, f) = -q
      BY <2>1, <3>2, CoarserIsRounded
    <3>5. QED
      BY <3>3, <3>4
  <2>2. CASE v < 0 /\ w >= 0
    <3>0. Rounded(-v, f) \in Nat /\ Rounded(w, f) \in Nat
      <4>1. -v \in Nat /\ w \in Nat
        BY <2>2
      <4>2. QED
        BY <4>1, <1>0
    <3>1. PICK p \in Nat, q \in Nat : p = Rounded(-v, f) /\ q = Rounded(w, f)
      BY <3>0
    <3>2. Coarser(v, f) = -p /\ Coarser(w, f) = q
      BY <2>2, <3>1, CoarserIsRounded
    <3>3. QED
      BY <3>2
  <2>3. CASE v >= 0
    <3>1. v \in Nat /\ w \in Nat
      BY <2>3
    <3>2. Coarser(v, f) = Rounded(v, f) /\ Coarser(w, f) = Rounded(w, f)
      BY <2>3, CoarserIsRounded
    <3>3. QED
      BY <3>1, <3>2, RoundedMonotone
  <2>4. QED
    BY <2>1, <2>2, <2>3
<1>3. QED
  BY <1>1, <1>2

(* A value that fits the finer scale comes back from it as it was: rescale   *)
(* loses nothing on the way to a finer scale but by bounding.                *)
THEOREM FinerAndBack ==
  ASSUME NEW v \in Low .. High, NEW f \in Nat \ {0}, v * f \in Low .. High
  PROVE  Coarser(Finer(v, f), f) = v
<1> USE ScaledValueAssumption
<1>1. PICK x \in Low .. High : x = v * f
  OBVIOUS
<1>2. Finer(v, f) = x
  BY <1>1, FinerIsExact DEF Narrowed, Bounded
<1>3. PICK c \in Low .. High : c = Coarser(x, f)
  BY <1>1, CoarserIsNearest
<1>4. PICK y \in Int : y = c * f
  BY Product
<1>5. Absolute(x - y) * 2 <= f
  BY <1>1, <1>3, <1>4, CoarserIsNearest
<1>6. -f < x - y /\ x - y < f
  BY <1>5 DEF Absolute
<1>7. (c + 1) * f = y + f /\ (v + 1) * f = x + f
  BY <1>1, <1>4, Z3
<1>8. v * f < (c + 1) * f /\ c * f < (v + 1) * f
  BY <1>1, <1>4, <1>6, <1>7
<1>9. ~(c + 1 <= v) /\ ~(v + 1 <= c)
  <2>1. c + 1 \in Int /\ v + 1 \in Int /\ c \in Int /\ v \in Int
    OBVIOUS
  <2>2. (c + 1 <= v <=> (c + 1) * f <= v * f) /\ (v + 1 <= c <=> (v + 1) * f <= c * f)
    BY <2>1, Order
  <2>3. QED
    BY <1>1, <1>4, <1>6, <1>7, <2>2
<1>10. QED
  BY <1>2, <1>3, <1>9

LEMMA HugeFactor ==
  ASSUME NEW v \in Low .. High, NEW f \in Nat \ {0}, f >= Wide
  PROVE  /\ Finer(v, f) = IF v > 0 THEN High ELSE IF v < 0 THEN Low ELSE 0
         /\ Coarser(v, f) = 0
<1> USE ScaledValueAssumption
<1>1. Finer(v, f) = IF v > 0 THEN High ELSE IF v < 0 THEN Low ELSE 0
  <2>1. CASE v = 0
    BY <2>1, FinerIsExact DEF Narrowed, Bounded
  <2>2. CASE v > 0
    <3>1. v * f >= f /\ v * f \in Int
      BY <2>2, Z3
    <3>2. v * f > High
      BY <3>1
    <3>3. QED
      BY <2>2, <3>1, <3>2, FinerIsExact DEF Narrowed, Bounded
  <2>3. CASE v < 0
    <3>1. v * f <= -f /\ v * f \in Int
      BY <2>3, Z3
    <3>2. v * f < Low
      BY <3>1
    <3>3. QED
      BY <2>3, <3>1, <3>2, FinerIsExact DEF Narrowed, Bounded
  <2>4. QED
    BY <2>1, <2>2, <2>3
<1>2. Coarser(v, f) = 0
  <2>1. PICK c \in Low .. High : c = Coarser(v, f)
    BY CoarserIsNearest
  <2>2. PICK x \in Int : x = c * f
    BY Product
  <2>3. Absolute(v - x) * 2 <= f
    BY <2>1, <2>2, CoarserIsNearest
  <2>4. -f < x /\ x < f
    BY <2>3 DEF Absolute
  <2>5. (c >= 1 => c * f >= f) /\ (c <= -1 => c * f <= -f)
    BY Z3
  <2>6. QED
    BY <2>1, <2>2, <2>4, <2>5
<1>3. QED
  BY <1>1, <1>2

(* A power of ten beyond i64 rescales like the largest number of i64 that    *)
(* stands for it.                                                            *)
THEOREM PowerMaySaturate ==
  ASSUME NEW v \in Low .. High, NEW power \in Nat, power >= Wide
  PROVE  Finer(v, Wide) = Finer(v, power) /\ Coarser(v, Wide) = Coarser(v, power)
<1>1. power \in Nat \ {0} /\ Wide \in Nat \ {0} /\ Wide >= Wide
  BY ScaledValueAssumption
<1>2. QED
  BY <1>1, HugeFactor

=============================================================================
