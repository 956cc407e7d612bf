---------------------------- MODULE NumberLemmas ----------------------------
(***************************************************************************)
(* What the proofs need of numbers: induction for properties given as sets *)
(* of numbers, which the provers can instantiate, and division by a        *)
(* constant of any value; and flattening as a loop over numbers.           *)
(***************************************************************************)
EXTENDS Integers, SequencesExt, WellFoundedInduction, TLAPS

\* A set of natural numbers that is not empty has a least element.
LEMMA LeastNumber ==
  ASSUME NEW T \in SUBSET Nat, T # {}
  PROVE  \E x \in T : \A y \in T : x <= y
<1>1. IsWellFoundedOn(OpToRel(<, Nat), Nat)
  BY NatLessThanWellFounded, Zenon
<1>2. \E x \in T : \A y \in T : ~(<<y, x>> \in OpToRel(<, Nat))
  BY <1>1, WFMin, Zenon
<1>3. ASSUME NEW x \in Nat, NEW y \in Nat, y < x PROVE <<y, x>> \in OpToRel(<, Nat)
  BY <1>3, Zenon DEF OpToRel
<1>4. \E x \in T : \A y \in T : ~(y < x)
  BY <1>2, <1>3, Zenon
<1> QED
  BY <1>4

\* What holds of 0 and passes from n to n + 1 below a bound holds up to it.
LEMMA BoundedInduction ==
  ASSUME NEW N \in Nat, NEW S, 0 \in S, \A n \in 0 .. N - 1 : n \in S => n + 1 \in S
  PROVE  0 .. N \subseteq S
<1> DEFINE T == {n \in 0 .. N : n \notin S}
<1> SUFFICES ASSUME T # {} PROVE FALSE
  OBVIOUS
<1>1. T \in SUBSET Nat
  OBVIOUS
<1>2. PICK x \in T : \A y \in T : x <= y
  BY <1>1, LeastNumber
<1>3. x \in 1 .. N /\ x - 1 \in 0 .. N - 1 /\ x - 1 \notin T
  BY <1>2
<1>4. x - 1 \in S
  BY <1>3
<1>5. (x - 1) + 1 \in S
  BY <1>3, <1>4
<1>6. (x - 1) + 1 = x
  BY <1>3
<1> QED
  BY <1>2, <1>5, <1>6

-----------------------------------------------------------------------------
\* Quotient and rest
LEMMA Rest ==
  ASSUME NEW a \in Int, NEW w \in Nat \ {0}
  PROVE  a % w \in 0 .. w - 1 /\ a \div w \in Int /\ a = w * (a \div w) + (a % w)
OBVIOUS

LEMMA TimesMonotonic ==
  ASSUME NEW w \in Nat, NEW c \in Int, NEW d \in Int, c <= d
  PROVE  w * c <= w * d
OBVIOUS

\* Quotient and rest are the only numbers of their kind.
LEMMA RestUnique ==
  ASSUME NEW w \in Nat \ {0}, NEW c \in Int, NEW d \in Int,
         NEW r \in 0 .. w - 1, NEW s \in 0 .. w - 1, w * c + r = w * d + s
  PROVE  c = d /\ r = s
<1>1. ASSUME NEW e \in Int, NEW f \in Int, e + 1 <= f, NEW t \in 0 .. w - 1, NEW u \in 0 .. w - 1
      PROVE  w * e + t < w * f + u
  <2>1. w * (e + 1) <= w * f
    BY <1>1, TimesMonotonic
  <2>2. w * (e + 1) = w * e + w /\ w * e \in Int /\ w * f \in Int
    OBVIOUS
  <2> QED
    BY <2>1, <2>2
<1>2. w * c \in Int /\ w * d \in Int
  OBVIOUS
<1>3. ~(c + 1 <= d)
  <2>1. CASE c + 1 <= d
    <3>1. w * c + r < w * d + s
      BY <1>1, <2>1
    <3> QED
      BY <1>2, <3>1
  <2> QED
    BY <2>1
<1>4. ~(d + 1 <= c)
  <2>1. CASE d + 1 <= c
    <3>1. w * d + s < w * c + r
      BY <1>1, <2>1
    <3> QED
      BY <1>2, <3>1
  <2> QED
    BY <2>1
<1>5. c = d
  BY <1>3, <1>4
<1> QED
  BY <1>2, <1>5

\* A flattened sequence of sequences, as a loop
LEMMA FlattenLoop ==
  ASSUME NEW f, NEW n \in Nat \ {0}, Len(f) = n
  PROVE  \E g : /\ FlattenSeq(f) = g[n]
                /\ \A i \in 1 .. n : g[i] = IF i = 1 THEN f[i] ELSE g[i - 1] \o f[i]
<1> DEFINE Step(x, i) == x \o f[i]
           Def(g, N) == g = [i \in 1 .. N |-> IF i = 1 THEN f[i] ELSE Step(g[i - 1], i)]
           T == {N \in 0 .. n : \E g : Def(g, N)}
<1> HIDE DEF Step
<1>1. 0 \in T
  <2> DEFINE g == [i \in 1 .. 0 |-> f[i]]
  <2>1. Def(g, 0)
    OBVIOUS
  <2> HIDE DEF Def, g
  <2> QED
    BY <2>1
<1>2. ASSUME NEW N \in 0 .. n - 1, N \in T PROVE N + 1 \in T
  <2>1. PICK g : Def(g, N)
    BY <1>2
  <2>2. \A i \in 1 .. N : g[i] = IF i = 1 THEN f[i] ELSE Step(g[i - 1], i)
    BY <2>1
  <2> DEFINE x == IF N = 0 THEN f[N + 1] ELSE Step(g[N], N + 1)
             h == [i \in 1 .. N + 1 |-> IF i <= N THEN g[i] ELSE x]
             k == [i \in 1 .. N + 1 |-> IF i = 1 THEN f[i] ELSE Step(h[i - 1], i)]
  <2>3. ASSUME NEW i \in 1 .. N + 1 PROVE h[i] = k[i]
    <3>1. CASE i \in 1 .. N /\ i = 1
      BY <2>2, <3>1
    <3>2. CASE i \in 2 .. N
      <4>1. h[i] = g[i] /\ h[i - 1] = g[i - 1]
        BY <3>2
      <4> HIDE DEF h, x
      <4>2. g[i] = Step(g[i - 1], i)
        BY <2>2, <3>2
      <4> QED
        BY <4>1, <4>2, <3>2 DEF k
    <3>3. CASE i = N + 1 /\ N # 0
      <4>1. h[i] = x /\ h[i - 1] = g[N] /\ i # 1
        BY <3>3
      <4> HIDE DEF h
      <4> QED
        BY <4>1, <3>3
    <3>4. CASE i = N + 1 /\ N = 0
      <4>1. h[i] = x /\ i = 1
        BY <3>4
      <4> HIDE DEF h
      <4> QED
        BY <4>1, <3>4
    <3> QED
      BY <3>1, <3>2, <3>3, <3>4
  <2>4. h = k
    BY <2>3
  <2>5. Def(h, N + 1)
    BY <2>4
  <2> HIDE DEF Def, h
  <2> QED
    BY <2>5
<1>3. n \in T
  <2> HIDE DEF T
  <2>1. 0 .. n \subseteq T
    BY <1>1, <1>2, BoundedInduction
  <2> QED
    BY <2>1
<1> DEFINE g == CHOOSE h : Def(h, n)
<1>4. Def(g, n)
  <2>1. \E h : Def(h, n)
    BY <1>3
  <2> HIDE DEF Def
  <2> QED
    BY <2>1
<1>5. FlattenSeq(f) = g[n]
  BY DEF FlattenSeq, Step
<1> HIDE DEF g
<1>6. \A i \in 1 .. n : g[i] = IF i = 1 THEN f[i] ELSE Step(g[i - 1], i)
  BY <1>4
<1> QED
  BY <1>5, <1>6 DEF Step
=============================================================================
