---------------------------- MODULE SequenceFacts ----------------------------
(***************************************************************************)
(* Facts about the operators on sequences and sets that the models are     *)
(* written with, for every sequence and set.  FlattenSeq is a recursive    *)
(* function, so what it returns is proved by induction; the induction is   *)
(* over a set of numbers, which is a value, and rests on the order of the  *)
(* natural numbers being well founded.                                     *)
(***************************************************************************)
EXTENDS SequencesExt, WellFoundedInduction, FiniteSetTheorems, TLAPS

LEMMA SetInduction ==
  ASSUME NEW S, 0 \in S, \A n \in Nat : n \in S => n + 1 \in S
  PROVE  Nat \subseteq S
<1> SUFFICES ASSUME ~(Nat \subseteq S)
             PROVE  FALSE
  OBVIOUS
<1> DEFINE T == Nat \ S
<1>1. T \subseteq Nat /\ T # {}
  OBVIOUS
<1> HIDE DEF T
<1>2. PICK x \in T : \A y \in T : <<y, x>> \notin OpToRel(<, Nat)
  BY <1>1, NatLessThanWellFounded, WFMin
<1>3. x \in Nat /\ x \notin S
  BY DEF T
<1>4. \A y \in T : ~(y < x)
  BY <1>1, <1>2 DEF OpToRel
<1>5. x # 0
  BY <1>3
<1>6. x - 1 \in Nat /\ x - 1 \notin T
  BY <1>3, <1>4, <1>5
<1>7. x - 1 \in S
  BY <1>6 DEF T
<1>8. QED
  BY <1>3, <1>6, <1>7

(* Up to a bound, which is what a recursion over a sequence needs. *)
LEMMA SetInductionTo ==
  ASSUME NEW n \in Nat, NEW S, 0 \in S, \A k \in 0 .. n - 1 : k \in S => k + 1 \in S
  PROVE  0 .. n \subseteq S
<1> DEFINE T == {k \in Nat : k <= n => k \in S}
<1>1. 0 \in T
  OBVIOUS
<1>2. ASSUME NEW k \in Nat, k \in T
      PROVE  k + 1 \in T
  <2>1. CASE k + 1 <= n
    BY <1>2, <2>1
  <2>2. CASE ~(k + 1 <= n)
    BY <2>2
  <2>3. QED
    BY <2>1, <2>2
<1>3. Nat \subseteq T
  <2> HIDE DEF T
  <2>1. QED
    BY <1>1, <1>2, SetInduction
<1>4. QED
  BY <1>3

-----------------------------------------------------------------------------
(* The greatest of some numbers. *)

LEMMA MaxTo ==
  ASSUME NEW n \in Nat, NEW S, S \subseteq 0 .. n, S # {}
  PROVE  Max(S) \in S /\ \A y \in S : Max(S) >= y
<1>1. \E x \in S : \A y \in S : x >= y
  <2> DEFINE T == {k \in Nat : (\E x \in S : x >= n - k) => \E x \in S : \A y \in S : x >= y}
  <2>1. 0 \in T
    <3>1. (\E x \in S : x >= n - 0) => \E x \in S : \A y \in S : x >= y
      <4>1. ASSUME NEW x \in S, x >= n
            PROVE  \A y \in S : x >= y
        BY <4>1
      <4>2. QED
        BY <4>1
    <3>2. QED
      BY <3>1
  <2>2. ASSUME NEW k \in Nat, k \in T
        PROVE  k + 1 \in T
    <3> SUFFICES ASSUME NEW x \in S, x >= n - (k + 1)
                 PROVE  \E w \in S : \A y \in S : w >= y
      OBVIOUS
    <3>1. CASE \E w \in S : w >= n - k
      BY <2>2, <3>1
    <3>2. CASE \A w \in S : ~(w >= n - k)
      <4>1. \A y \in S : x >= y
        BY <3>2
      <4>2. QED
        BY <4>1
    <3>3. QED
      BY <3>1, <3>2
  <2>3. Nat \subseteq T
    <3> HIDE DEF T
    <3>1. QED
      BY <2>1, <2>2, SetInduction
  <2>4. n \in T
    BY <2>3
  <2>5. PICK z \in S : z \in 0 .. n
    OBVIOUS
  <2>6. z >= n - n
    BY <2>5
  <2>7. (\E x \in S : x >= n - n) => \E x \in S : \A y \in S : x >= y
    BY <2>4
  <2>8. QED
    BY <2>6, <2>7
<1>2. QED
  BY <1>1 DEF Max

-----------------------------------------------------------------------------
(* Concatenation, of two sequences and of a sequence of them. *)

LEMMA Concat ==
  ASSUME NEW S, NEW s \in Seq(S), NEW t \in Seq(S)
  PROVE  s \o t \in Seq(S) /\ Range(s \o t) = Range(s) \cup Range(t)
<1>1. /\ s \o t \in Seq(S) /\ Len(s \o t) = Len(s) + Len(t)
      /\ Len(s) \in Nat /\ Len(t) \in Nat
      /\ DOMAIN s = 1 .. Len(s) /\ DOMAIN t = 1 .. Len(t) /\ DOMAIN (s \o t) = 1 .. Len(s \o t)
      /\ \A i \in 1 .. Len(s) : (s \o t)[i] = s[i]
      /\ \A i \in 1 .. Len(t) : (s \o t)[Len(s) + i] = t[i]
  OBVIOUS
<1>2. \A i \in 1 .. Len(s) + Len(t) :
        i \in 1 .. Len(s) \/ (i - Len(s) \in 1 .. Len(t) /\ i = Len(s) + (i - Len(s)))
  BY <1>1
<1>3. Range(s \o t) \subseteq Range(s) \cup Range(t)
  BY <1>1, <1>2 DEF Range
<1>4. Range(s) \cup Range(t) \subseteq Range(s \o t)
  <2>1. \A i \in 1 .. Len(s) : i \in DOMAIN (s \o t)
    BY <1>1
  <2>2. \A i \in 1 .. Len(t) : Len(s) + i \in DOMAIN (s \o t)
    BY <1>1
  <2>3. QED
    BY <1>1, <2>1, <2>2 DEF Range
<1>5. QED
  BY <1>1, <1>3, <1>4

(* Two sequences of the same length and with the same elements. *)
LEMMA SameSeq ==
  ASSUME NEW X, NEW s \in Seq(X), NEW t \in Seq(X), Len(s) = Len(t),
         \A i \in 1 .. Len(s) : s[i] = t[i]
  PROVE  s = t
<1>1. PICK n \in Nat : n = Len(s)
  OBVIOUS
<1>2. s \in [1 .. n -> X] /\ t \in [1 .. n -> X]
  BY <1>1
<1>3. \A i \in 1 .. n : s[i] = t[i]
  BY <1>1
<1> QED
  BY <1>2, <1>3

(* Where the elements of a concatenation come from. *)
LEMMA ConcatAt ==
  ASSUME NEW S, NEW s \in Seq(S), NEW t \in Seq(S)
  PROVE  /\ s \o t \in Seq(S) /\ Len(s \o t) = Len(s) + Len(t)
         /\ \A i \in 1 .. Len(s) : (s \o t)[i] = s[i]
         /\ \A i \in 1 .. Len(t) : (s \o t)[Len(s) + i] = t[i]
OBVIOUS

(* Concatenating sequences of at most one element. *)
LEMMA ConcatOnes ==
  ASSUME NEW X, NEW r \in X, NEW s \in X
  PROVE  <<r>> \o <<>> = <<r>> /\ <<r>> \o <<s>> = <<r, s>>
<1>1. PICK u : u = <<r>>
  OBVIOUS
<1>2. PICK v : v = <<s>>
  OBVIOUS
<1>3. PICK w : w = <<r, s>>
  OBVIOUS
<1>4. PICK e : e = <<>>
  OBVIOUS
<1>5. u \in Seq(X) /\ Len(u) = 1 /\ u[1] = r
  BY <1>1
<1>6. v \in Seq(X) /\ Len(v) = 1 /\ v[1] = s
  BY <1>2
<1>7. w \in Seq(X) /\ Len(w) = 2 /\ w[1] = r /\ w[2] = s
  BY <1>3
<1>8. e \in Seq(X) /\ Len(e) = 0
  BY <1>4
<1>9. u \o e = u
  <2>1. u \o e \in Seq(X) /\ Len(u \o e) = Len(u) /\ \A i \in 1 .. Len(u) : (u \o e)[i] = u[i]
    BY <1>5, <1>8
  <2> QED
    BY <1>5, <2>1, SameSeq
<1>10. u \o v = w
  <2>1. /\ u \o v \in Seq(X) /\ Len(u \o v) = Len(u) + Len(v)
        /\ \A i \in 1 .. Len(u) : (u \o v)[i] = u[i]
        /\ \A i \in 1 .. Len(v) : (u \o v)[Len(u) + i] = v[i]
    <3>1. u \in Seq(X)
      BY <1>5
    <3>2. v \in Seq(X)
      BY <1>6
    <3> QED
      BY <3>1, <3>2, ConcatAt
  <2>2. (u \o v)[1] = r /\ (u \o v)[2] = s
    <3>1. 1 \in 1 .. Len(u) /\ 1 \in 1 .. Len(v) /\ Len(u) + 1 = 2
      BY <1>5, <1>6
    <3>2. (u \o v)[Len(u) + 1] = v[1]
      BY <2>1, <3>1, Zenon
    <3>3. (u \o v)[1] = u[1]
      BY <2>1, <3>1, Zenon
    <3> QED
      BY <1>5, <1>6, <3>1, <3>2, <3>3
  <2>3. \A i \in 1 .. 2 : (u \o v)[i] = w[i]
    <3>1. 1 .. 2 = {1, 2}
      OBVIOUS
    <3> QED
      BY <1>7, <2>2, <3>1
  <2> QED
    BY <1>5, <1>6, <1>7, <2>1, <2>3, SameSeq
<1> QED
  BY <1>1, <1>2, <1>3, <1>4, <1>9, <1>10, Zenon

(* FlattenSeq satisfies the equation it is defined by. *)
Flattens(f, ss) ==
  f = [i \in 1 .. Len(ss) |-> IF i = 1 THEN ss[i] ELSE f[i - 1] \o ss[i]]

LEMMA FlattenExists ==
  ASSUME NEW X, NEW ss \in Seq(Seq(X))
  PROVE  \E f : Flattens(f, ss)
<1> DEFINE n == Len(ss)
           Upto(k) == {g \in [1 .. k -> Seq(X)] :
                         \A i \in 1 .. k : g[i] = IF i = 1 THEN ss[i] ELSE g[i - 1] \o ss[i]}
           T == {k \in 0 .. n : Upto(k) # {}}
<1>0. n \in Nat /\ \A i \in 1 .. n : ss[i] \in Seq(X)
  OBVIOUS
<1> HIDE DEF n
<1>1. 0 \in T
  <2>1. [i \in 1 .. 0 |-> <<>>] \in Upto(0)
    OBVIOUS
  <2>2. Upto(0) # {}
    BY <2>1
  <2> HIDE DEF Upto
  <2>3. QED
    BY <1>0, <2>2
<1>2. ASSUME NEW k \in 0 .. n - 1, k \in T
      PROVE  k + 1 \in T
  <2>1. PICK g \in Upto(k) : TRUE
    BY <1>2
  <2> DEFINE last == IF k = 0 THEN ss[1] ELSE g[k] \o ss[k + 1]
             h == [i \in 1 .. k + 1 |-> IF i = k + 1 THEN last ELSE g[i]]
  <2>2. last \in Seq(X)
    <3>1. CASE k = 0
      BY <1>0, <3>1
    <3>2. CASE k # 0
      <4>1. g[k] \in Seq(X) /\ ss[k + 1] \in Seq(X)
        BY <1>0, <2>1, <3>2
      <4>2. g[k] \o ss[k + 1] \in Seq(X)
        BY <4>1
      <4>3. QED
        BY <3>2, <4>2
    <3>3. QED
      BY <3>1, <3>2
  <2>3. \A i \in 1 .. k : g[i] \in Seq(X) /\ g[i] = IF i = 1 THEN ss[i] ELSE g[i - 1] \o ss[i]
    BY <2>1
  <2>4. h \in [1 .. k + 1 -> Seq(X)]
    <3> HIDE DEF last
    <3>1. QED
      BY <2>2, <2>3
  <2>5. ASSUME NEW i \in 1 .. k + 1
        PROVE  h[i] = IF i = 1 THEN ss[i] ELSE h[i - 1] \o ss[i]
    <3>1. CASE i = k + 1
      <4>1. h[i] = last
        BY <3>1
      <4>2. CASE k = 0
        BY <3>1, <4>1, <4>2
      <4>3. CASE k # 0
        <5>1. h[i - 1] = g[k] /\ i # 1
          BY <3>1, <4>3
        <5>2. last = g[k] \o ss[i]
          BY <3>1, <4>3
        <5>3. QED
          BY <4>1, <5>1, <5>2
      <4>4. QED
        BY <4>2, <4>3
    <3>2. CASE i # k + 1
      <4>1. i \in 1 .. k /\ h[i] = g[i]
        BY <3>2
      <4>2. i # 1 => h[i - 1] = g[i - 1]
        BY <4>1
      <4> HIDE DEF h
      <4>3. QED
        BY <2>3, <4>1, <4>2
    <3>3. QED
      BY <3>1, <3>2
  <2>6. h \in Upto(k + 1)
    <3> HIDE DEF h
    <3>1. QED
      BY <2>4, <2>5
  <2>7. k + 1 \in 0 .. n
    BY <1>0
  <2>8. QED
    BY <2>6, <2>7
<1>3. n \in T
  <2> HIDE DEF T
  <2>1. 0 .. n \subseteq T
    BY <1>0, <1>1, <1>2, SetInductionTo
  <2>2. QED
    BY <1>0, <2>1
<1>4. PICK g \in Upto(n) : TRUE
  BY <1>3
<1>5. g = [i \in 1 .. n |-> IF i = 1 THEN ss[i] ELSE g[i - 1] \o ss[i]]
  <2> DEFINE h == [i \in 1 .. n |-> IF i = 1 THEN ss[i] ELSE g[i - 1] \o ss[i]]
  <2>1. g \in [1 .. n -> Seq(X)] /\ \A i \in 1 .. n : g[i] = h[i]
    BY <1>4
  <2>2. DOMAIN h = 1 .. n /\ h = [i \in DOMAIN h |-> h[i]]
    OBVIOUS
  <2> HIDE DEF h
  <2>3. g = h
    BY <2>1, <2>2
  <2>4. QED
    BY <2>3 DEF h
<1>6. QED
  BY <1>5 DEF n, Flattens

LEMMA UnionOneMore ==
  ASSUME NEW ss, NEW I, NEW J, NEW k, J = I \cup {k}
  PROVE  UNION {Range(ss[i]) : i \in J} = (UNION {Range(ss[i]) : i \in I}) \cup Range(ss[k])
<1>1. \A K, x : x \in UNION {Range(ss[i]) : i \in K} <=> \E i \in K : x \in Range(ss[i])
  OBVIOUS
<1>2. ASSUME NEW x
      PROVE  x \in UNION {Range(ss[i]) : i \in J} <=>
               x \in (UNION {Range(ss[i]) : i \in I}) \cup Range(ss[k])
  BY <1>1, Zenon
<1>3. QED
  BY <1>2, Zenon

LEMMA Flatten ==
  ASSUME NEW X, NEW ss \in Seq(Seq(X))
  PROVE  /\ FlattenSeq(ss) \in Seq(X)
         /\ Range(FlattenSeq(ss)) = UNION {Range(ss[i]) : i \in DOMAIN ss}
<1>1. Len(ss) \in Nat /\ DOMAIN ss = 1 .. Len(ss) /\ \A i \in 1 .. Len(ss) : ss[i] \in Seq(X)
  OBVIOUS
<1>2. CASE Len(ss) = 0
  <2>1. FlattenSeq(ss) = ss
    BY <1>2 DEF FlattenSeq
  <2>2. ss = <<>> /\ DOMAIN ss = {}
    BY <1>1, <1>2
  <2>3. QED
    BY <2>1, <2>2 DEF Range
<1>3. CASE Len(ss) # 0
  <2> DEFINE n == Len(ss)
             f == CHOOSE f : Flattens(f, ss)
             T == {k \in 0 .. n : k # 0 => /\ f[k] \in Seq(X)
                                           /\ Range(f[k]) = UNION {Range(ss[i]) : i \in 1 .. k}}
  <2>0. n \in Nat /\ n # 0 /\ DOMAIN ss = 1 .. n /\ \A i \in 1 .. n : ss[i] \in Seq(X)
    BY <1>1, <1>3
  <2>1. Flattens(f, ss)
    BY FlattenExists
  <2>2. FlattenSeq(ss) = f[n]
    BY <1>3 DEF FlattenSeq, Flattens
  <2> HIDE DEF n, f
  <2>3. \A i \in 1 .. n : f[i] = IF i = 1 THEN ss[i] ELSE f[i - 1] \o ss[i]
    BY <2>1 DEF Flattens, n
  <2>4. 0 \in T
    BY <2>0
  <2>5. ASSUME NEW k \in 0 .. n - 1, k \in T
        PROVE  k + 1 \in T
    <3>1. k + 1 \in 1 .. n /\ ss[k + 1] \in Seq(X)
      BY <2>0
    <3>2. CASE k = 0
      <4>1. f[k + 1] = ss[k + 1]
        BY <2>3, <3>1, <3>2
      <4>2. 1 .. k + 1 = {k + 1}
        BY <3>2
      <4>3. QED
        BY <3>1, <4>1, <4>2
    <3>3. CASE k # 0
      <4>1. f[k + 1] = f[k] \o ss[k + 1]
        <5>1. k + 1 # 1 /\ (k + 1) - 1 = k
          BY <3>3
        <5>2. f[k + 1] = IF k + 1 = 1 THEN ss[k + 1] ELSE f[(k + 1) - 1] \o ss[k + 1]
          BY <2>3, <3>1, Zenon
        <5>3. QED
          BY <5>1, <5>2, Zenon
      <4>2. f[k] \in Seq(X) /\ Range(f[k]) = UNION {Range(ss[i]) : i \in 1 .. k}
        BY <2>5, <3>3
      <4>3. f[k + 1] \in Seq(X) /\ Range(f[k + 1]) = Range(f[k]) \cup Range(ss[k + 1])
        BY <3>1, <4>1, <4>2, Concat
      <4>4. 1 .. k + 1 = 1 .. k \cup {k + 1}
        BY <2>0
      <4>5. UNION {Range(ss[i]) : i \in 1 .. k + 1} =
              (UNION {Range(ss[i]) : i \in 1 .. k}) \cup Range(ss[k + 1])
        <5>1. \A I, J, j : J = I \cup {j} =>
                UNION {Range(ss[i]) : i \in J} = (UNION {Range(ss[i]) : i \in I}) \cup Range(ss[j])
          BY UnionOneMore
        <5>2. QED
          BY <4>4, <5>1, ZenonT(60)
      <4>6. Range(f[k + 1]) = UNION {Range(ss[i]) : i \in 1 .. k + 1}
        BY <4>2, <4>3, <4>5, Zenon
      <4>7. k + 1 \in 0 .. n
        BY <3>1
      <4>8. QED
        BY <4>3, <4>6, <4>7, Zenon
    <3>4. QED
      BY <3>2, <3>3
  <2>6. n \in T
    <3> HIDE DEF T
    <3>1. 0 .. n \subseteq T
      BY <2>0, <2>4, <2>5, SetInductionTo
    <3>2. QED
      BY <2>0, <3>1
  <2>7. QED
    BY <2>0, <2>2, <2>6
<1>4. QED
  BY <1>2, <1>3

(* A sequence made by what each of its places is. *)
LEMMA Places ==
  ASSUME NEW X, NEW ss \in Seq(X)
  PROVE  /\ Len(ss) \in Nat /\ DOMAIN ss = 1 .. Len(ss)
         /\ \A i \in DOMAIN ss : ss[i] \in X
         /\ \A x \in Range(ss) : x \in X
  BY DEF Range

LEMMA MadeOf ==
  ASSUME NEW n \in Nat, NEW X, NEW f, f = [i \in 1 .. n |-> f[i]], \A i \in 1 .. n : f[i] \in X
  PROVE  f \in Seq(X) /\ Len(f) = n
<1>1. f \in [1 .. n -> X]
  OBVIOUS
<1>2. QED
  BY <1>1

(* One element after each place that has one. *)
LEMMA FlattenMember ==
  ASSUME NEW X, NEW ss \in Seq(Seq(X)), NEW x
  PROVE  x \in Range(FlattenSeq(ss)) <=> \E i \in DOMAIN ss : x \in Range(ss[i])
  BY Flatten

LEMMA RangeOne ==
  ASSUME NEW X, NEW x \in X
  PROVE  <<x>> \in Seq(X) /\ Range(<<x>>) = {x}
<1>1. DOMAIN <<x>> = {1} /\ <<x>>[1] = x
  OBVIOUS
<1>2. QED
  BY <1>1 DEF Range

LEMMA RangeNone ==
  ASSUME NEW X
  PROVE  <<>> \in Seq(X) /\ Range(<<>>) = {} /\ DOMAIN <<>> = {}
  BY DEF Range

(* Numbers given to finitely many places have a bound. *)
LEMMA Bounded ==
  ASSUME NEW n \in Nat, NEW f, \A i \in 1 .. n : f[i] \in Nat
  PROVE  \E b \in Nat : \A i \in 1 .. n : f[i] <= b
<1> DEFINE T == {k \in 0 .. n : \E b \in Nat : \A i \in 1 .. k : f[i] <= b}
<1>1. 0 \in T
  <2>1. \A i \in 1 .. 0 : f[i] <= 0
    OBVIOUS
  <2>2. QED
    BY <2>1
<1>2. ASSUME NEW k \in 0 .. n - 1, k \in T
      PROVE  k + 1 \in T
  <2>1. PICK b \in Nat : \A i \in 1 .. k : f[i] <= b
    BY <1>2
  <2>2. k + 1 \in 1 .. n /\ f[k + 1] \in Nat
    OBVIOUS
  <2>3. PICK c \in Nat : c >= b /\ c >= f[k + 1]
    BY <2>2
  <2>4. \A i \in 1 .. k + 1 : f[i] <= c
    <3>1. \A i \in 1 .. k + 1 : i \in 1 .. k \/ i = k + 1
      OBVIOUS
    <3>2. QED
      BY <2>1, <2>2, <2>3, <3>1
  <2>5. QED
    BY <2>2, <2>4
<1>3. n \in T
  <2> HIDE DEF T
  <2>1. 0 .. n \subseteq T
    BY <1>1, <1>2, SetInductionTo
  <2>2. QED
    BY <2>1
<1>4. QED
  BY <1>3

(* A set of sequences that is closed under concatenation holds what is       *)
(* flattened from its members.                                               *)
LEMMA FlattenClosed ==
  ASSUME NEW X, NEW C, C \subseteq Seq(X), <<>> \in C,
         \A s, t \in C : s \o t \in C,
         NEW n \in Nat, NEW ss, ss \in [1 .. n -> C]
  PROVE  FlattenSeq(ss) \in C
<1>1. ss \in Seq(C) /\ Len(ss) = n /\ ss \in Seq(Seq(X)) /\ \A i \in 1 .. n : ss[i] \in C
  <2>1. ss \in [1 .. n -> Seq(X)]
    OBVIOUS
  <2> QED
    BY <2>1
<1>2. CASE n = 0
  <2>1. FlattenSeq(ss) = ss
    BY <1>1, <1>2 DEF FlattenSeq
  <2>2. ss = <<>>
    BY <1>1, <1>2
  <2> QED
    BY <2>1, <2>2
<1>3. CASE n # 0
  <2> DEFINE f == CHOOSE f : Flattens(f, ss)
             T == {k \in 0 .. n : k # 0 => f[k] \in C}
  <2>1. Flattens(f, ss)
    BY <1>1, FlattenExists
  <2>2. FlattenSeq(ss) = f[n]
    BY <1>1, <1>3 DEF FlattenSeq, Flattens
  <2> HIDE DEF f
  <2>3. \A i \in 1 .. n : f[i] = IF i = 1 THEN ss[i] ELSE f[i - 1] \o ss[i]
    BY <1>1, <2>1 DEF Flattens
  <2>4. 0 \in T
    OBVIOUS
  <2>5. ASSUME NEW k \in 0 .. n - 1, k \in T
        PROVE  k + 1 \in T
    <3>1. k + 1 \in 1 .. n /\ ss[k + 1] \in C
      BY <1>1
    <3>2. CASE k = 0
      <4>1. f[k + 1] = ss[k + 1]
        BY <2>3, <3>1, <3>2
      <4> QED
        BY <3>1, <4>1
    <3>3. CASE k # 0
      <4>1. k + 1 # 1 /\ (k + 1) - 1 = k
        BY <3>3
      <4>2. f[k + 1] = IF k + 1 = 1 THEN ss[k + 1] ELSE f[(k + 1) - 1] \o ss[k + 1]
        BY <2>3, <3>1, Zenon
      <4>3. f[k + 1] = f[k] \o ss[k + 1]
        BY <4>1, <4>2, Zenon
      <4>4. f[k] \in C
        BY <2>5, <3>3
      <4>5. f[k] \o ss[k + 1] \in C
        BY <3>1, <4>4, Zenon
      <4>6. f[k + 1] \in C
        BY <4>3, <4>5, Zenon
      <4> QED
        BY <3>1, <4>6
    <3> QED
      BY <3>2, <3>3
  <2>6. n \in T
    <3> HIDE DEF T
    <3>1. 0 .. n \subseteq T
      BY <2>4, <2>5, SetInductionTo
    <3> QED
      BY <3>1
  <2> QED
    BY <1>3, <2>2, <2>6
<1> QED
  BY <1>2, <1>3

-----------------------------------------------------------------------------
(* Sorting a finite set by an order given as a set of pairs. *)

IsOrderOn(R, S) ==
  /\ \A x, y \in S : x # y => <<x, y>> \in R \/ <<y, x>> \in R
  /\ \A x, y, z \in S : <<x, y>> \in R /\ <<y, z>> \in R => <<x, z>> \in R

LEMMA HasLast ==
  ASSUME NEW S, IsFiniteSet(S), NEW R, IsOrderOn(R, S), S # {}
  PROVE  \E x \in S : \A y \in S \ {x} : <<y, x>> \in R
<1> DEFINE T == {n \in Nat : \A U \in SUBSET S : Cardinality(U) = n + 1 =>
                   \E x \in U : \A y \in U \ {x} : <<y, x>> \in R}
<1>1. \A U \in SUBSET S : IsFiniteSet(U)
  BY FS_Subset
<1>2. 0 \in T
  <2> SUFFICES ASSUME NEW U \in SUBSET S, Cardinality(U) = 1
               PROVE  \E x \in U : \A y \in U \ {x} : <<y, x>> \in R
    OBVIOUS
  <2>1. \E x : U = {x}
    BY <1>1, FS_Singleton
  <2> QED
    BY <2>1
<1>3. ASSUME NEW n \in Nat, n \in T
      PROVE  n + 1 \in T
  <2> SUFFICES ASSUME NEW U \in SUBSET S, Cardinality(U) = n + 2
               PROVE  \E x \in U : \A y \in U \ {x} : <<y, x>> \in R
    OBVIOUS
  <2>1. PICK x \in U : TRUE
    BY FS_EmptySet
  <2>2. Cardinality(U \ {x}) = n + 1
    BY <1>1, FS_RemoveElement
  <2>3. U \ {x} \in SUBSET S
    OBVIOUS
  <2>4. PICK z \in U \ {x} : \A y \in (U \ {x}) \ {z} : <<y, z>> \in R
    BY <1>3, <2>2, <2>3
  <2>5. x \in S /\ z \in S /\ x # z
    OBVIOUS
  <2>6. CASE <<x, z>> \in R
    <3>1. \A y \in U \ {z} : <<y, z>> \in R
      BY <2>4, <2>6
    <3> QED
      BY <3>1
  <2>7. CASE <<z, x>> \in R
    <3>1. \A y \in U \ {x} : <<y, x>> \in R
      BY <2>4, <2>5, <2>7 DEF IsOrderOn
    <3> QED
      BY <3>1
  <2> QED
    BY <2>5, <2>6, <2>7 DEF IsOrderOn
<1>4. Nat \subseteq T
  <2> HIDE DEF T
  <2> QED
    BY <1>2, <1>3, SetInduction
<1>5. Cardinality(S) \in Nat /\ Cardinality(S) # 0
  BY FS_CardinalityType, FS_EmptySet
<1>6. Cardinality(S) - 1 \in T
  BY <1>4, <1>5
<1> QED
  BY <1>5, <1>6

LEMMA Sorted ==
  ASSUME NEW S, IsFiniteSet(S), NEW R, IsOrderOn(R, S)
  PROVE  /\ Cardinality(S) \in Nat
         /\ \E s \in [1 .. Cardinality(S) -> S] :
              \A i, j \in 1 .. Cardinality(S) : i < j => <<s[i], s[j]>> \in R
<1> DEFINE Sorts(s, n) == \A i, j \in 1 .. n : i < j => <<s[i], s[j]>> \in R
           T == {n \in Nat : \A U \in SUBSET S : Cardinality(U) = n =>
                   \E s \in [1 .. n -> U] : Sorts(s, n)}
<1>1. \A U \in SUBSET S : IsFiniteSet(U)
  BY FS_Subset
<1>2. 0 \in T
  <2> SUFFICES ASSUME NEW U \in SUBSET S
               PROVE  \E s \in [1 .. 0 -> U] : Sorts(s, 0)
    OBVIOUS
  <2>1. [i \in 1 .. 0 |-> i] \in [1 .. 0 -> U]
    OBVIOUS
  <2>2. PICK s \in [1 .. 0 -> U] : TRUE
    BY <2>1, Zenon
  <2>3. Sorts(s, 0)
    OBVIOUS
  <2> QED
    BY <2>3
<1>3. ASSUME NEW n \in Nat, n \in T
      PROVE  n + 1 \in T
  <2> SUFFICES ASSUME NEW U \in SUBSET S, Cardinality(U) = n + 1
               PROVE  \E s \in [1 .. n + 1 -> U] : Sorts(s, n + 1)
    OBVIOUS
  <2>1. U # {} /\ IsFiniteSet(U)
    BY <1>1, FS_EmptySet
  <2>2. IsOrderOn(R, U)
    BY DEF IsOrderOn
  <2>3. PICK x \in U : \A y \in U \ {x} : <<y, x>> \in R
    BY <2>1, <2>2, HasLast
  <2>4. Cardinality(U \ {x}) = n
    <3>1. Cardinality(U \ {x}) = Cardinality(U) - 1
      BY <2>1, FS_RemoveElement
    <3> QED
      BY <3>1
  <2>5. PICK s \in [1 .. n -> U \ {x}] : Sorts(s, n)
    <3>1. U \ {x} \in SUBSET S
      OBVIOUS
    <3> QED
      BY <1>3, <2>4, <3>1
  <2> DEFINE t == [i \in 1 .. n + 1 |-> IF i = n + 1 THEN x ELSE s[i]]
  <2>6. \A i \in 1 .. n + 1 : i # n + 1 => i \in 1 .. n /\ s[i] \in U \ {x} /\ t[i] = s[i]
    OBVIOUS
  <2>7. t[n + 1] = x
    OBVIOUS
  <2>8. t \in [1 .. n + 1 -> U]
    BY <2>6, <2>7
  <2>9. ASSUME NEW i \in 1 .. n + 1, NEW j \in 1 .. n + 1, i < j
        PROVE  <<t[i], t[j]>> \in R
    <3>1. i # n + 1 /\ i \in 1 .. n
      BY <2>9
    <3>2. CASE j = n + 1
      BY <2>3, <2>6, <2>7, <3>1, <3>2
    <3>3. CASE j # n + 1
      BY <2>5, <2>6, <2>9, <3>1, <3>3
    <3> QED
      BY <3>2, <3>3
  <2> QED
    BY <2>8, <2>9
<1>4. Nat \subseteq T
  <2> HIDE DEF T
  <2> QED
    BY <1>2, <1>3, SetInduction
<1>5. Cardinality(S) \in Nat
  BY FS_CardinalityType
<1> QED
  BY <1>4, <1>5

=============================================================================
