------------------------------- MODULE X25519 -------------------------------
(***************************************************************************)
(* src/crypto/x25519.c.  A field element is its limbs, which may be        *)
(* negative or too large until they are carried.  With two limbs of eight  *)
(* bits the field is 2^15 - 19, also a prime, and every constant of the    *)
(* code (19, 38, the chain of fe_inv, the clamped bits) keeps its role.    *)
(* Shifts of negative numbers round down, as the supported compilers do.   *)
(***************************************************************************)
EXTENDS Integers, Sequences

CONSTANTS
  FeLimbs,     \* limbs of an fe (16)
  FeBits,      \* bits of a limb (16)
  A24,         \* 121665: more than a limb, as here
  Scalar,      \* the scalars and
  Coordinate   \* the u-coordinates, as numbers, nd_x25519_scalarmult may be given

LimbBase == 2 ^ FeBits
FieldBits == FeLimbs * FeBits - 1            \* 255
Prime == 2 ^ FieldBits - 19
Index == 0 .. FeLimbs - 1

VARIABLE mult    \* the call of nd_x25519_scalarmult under way

ASSUME X25519Assumption ==
  /\ {FeLimbs, FeBits, A24} \subseteq Nat \ {0}
  /\ \A d \in 2 .. Prime - 1 : d * d > Prime \/ Prime % d # 0

\* fe_0 and fe_1, and the constant a24 of nd_x25519_scalarmult
FeSmall(n) == [i \in Index |-> IF i = 0 THEN n ELSE 0]
FeAdd(a, b) == [i \in Index |-> a[i] + b[i]]
FeSub(a, b) == [i \in Index |-> a[i] - b[i]]

\* What leaves the last limb comes back to the first, 2^256 = 38 modulo the
\* prime.
Folded(carry) == 38 * carry

FeCarry(o) ==
  LET acc[i \in 0 .. FeLimbs] ==
        IF i = 0 THEN o
        ELSE LET prev == acc[i - 1]
                 c == (prev[i - 1] + LimbBase) \div LimbBase - 1
                 p == [prev EXCEPT ![i - 1] = @ - c * LimbBase]
             IN  IF i < FeLimbs THEN [p EXCEPT ![i] = @ + c]
                 ELSE [p EXCEPT ![0] = @ + Folded(c)]
  IN  acc[FeLimbs]

FeMul(a, b) ==
  LET t[k \in 0 .. 2 * FeLimbs - 2] ==
        LET sum[i \in -1 .. FeLimbs - 1] ==
              IF i = -1 THEN 0
              ELSE sum[i - 1] + (IF k - i \in Index THEN a[i] * b[k - i] ELSE 0)
        IN  sum[FeLimbs - 1]
      o == [i \in Index |-> t[i] + (IF i < FeLimbs - 1 THEN 38 * t[i + FeLimbs] ELSE 0)]
  IN  FeCarry(FeCarry(o))

FeSq(a) == FeMul(a, a)

\* fe_inv: the power 2^255 - 21, whose bits are all set but 2 and 4
FeInv(a) ==
  LET c[i \in 0 .. FieldBits - 1] ==
        IF i = FieldBits - 1 THEN a
        ELSE IF i \in {2, 4} THEN FeSq(c[i + 1]) ELSE FeMul(FeSq(c[i + 1]), a)
  IN  c[0]

\* fe_unpack masks the topmost bit
FeUnpack(n) ==
  [i \in Index |-> ((n % 2 ^ FieldBits) \div LimbBase ^ i) % LimbBase]

\* fe_pack: one trial subtraction of the prime.  The faulty form has none.
PrimeLimb(i) ==
  IF i = 0 THEN LimbBase - 19 ELSE IF i = FeLimbs - 1 THEN LimbBase \div 2 - 1 ELSE LimbBase - 1

NoTrial(t) == t

TrialSubtract(t) ==
  LET acc[i \in 0 .. FeLimbs] ==
        IF i = 0 THEN <<t, 0>>
        ELSE LET prev == acc[i - 1]
                 d == t[i - 1] - PrimeLimb(i - 1) - prev[2]
             IN  <<[prev[1] EXCEPT ![i - 1] = IF d < 0 THEN d + LimbBase ELSE d],
                   IF d < 0 THEN 1 ELSE 0>>
      last == acc[FeLimbs]
  IN  IF last[2] = 0 THEN last[1] ELSE t

FePack(n) ==
  LET t == TrialSubtract(TrialSubtract(FeCarry(FeCarry(FeCarry(n)))))
      value[i \in 0 .. FeLimbs] ==
        IF i = 0 THEN 0 ELSE value[i - 1] + (t[i - 1] % LimbBase) * LimbBase ^ (i - 1)
  IN  value[FeLimbs]

-----------------------------------------------------------------------------
\* The three lowest bits are cleared, the topmost too, the next is set.
Clamp(k) == 8 * ((k % 2 ^ (FieldBits - 1)) \div 8) + 2 ^ (FieldBits - 1)

Bit(k, t) == (k \div 2 ^ t) % 2

\* fe_cswap on both coordinates.
Swap(flag, v) ==
  IF flag = 1 THEN [v EXCEPT !.x2 = v.x3, !.x3 = v.x2, !.z2 = v.z3, !.z3 = v.z2] ELSE v

\* One round of the ladder for the bit kt of the scalar
Ladder(x1, v, kt) ==
  LET w  == Swap(IF v.swap = kt THEN 0 ELSE 1, v)
      A  == FeAdd(w.x2, w.z2)
      AA == FeSq(A)
      B  == FeSub(w.x2, w.z2)
      BB == FeSq(B)
      E  == FeSub(AA, BB)
      DA == FeMul(FeSub(w.x3, w.z3), A)
      CB == FeMul(FeAdd(w.x3, w.z3), B)
  IN  [x3 |-> FeSq(FeAdd(DA, CB)),
       z3 |-> FeMul(x1, FeSq(FeSub(DA, CB))),
       x2 |-> FeMul(AA, BB),
       z2 |-> FeMul(E, FeAdd(AA, FeMul(E, FeSmall(A24)))),
       swap |-> kt]

LadderStart(x1) ==
  [x2 |-> FeSmall(1), z2 |-> FeSmall(0), x3 |-> x1, z3 |-> FeSmall(1), swap |-> 0]

\* What nd_x25519_scalarmult returns after the last round
LadderResult(v) ==
  LET w == Swap(v.swap, v) IN FePack(FeMul(w.x2, FeInv(w.z2)))

-----------------------------------------------------------------------------
Idle == [stage |-> "idle", scalar |-> 0, u |-> 0]

X25519Init == mult = Idle

\* nd_x25519_scalarmult, and nd_x25519_base with u = 9, a round at a time
ScalarMult(scalar, u) ==
  /\ mult.stage = "idle"
  /\ mult' = [stage |-> "ladder", scalar |-> scalar, u |-> u, t |-> FieldBits,
              v |-> LadderStart(FeUnpack(u))]

LadderRound ==
  /\ mult.stage = "ladder" /\ mult.t > 0
  /\ mult' = [mult EXCEPT !.t = @ - 1,
                          !.v = Ladder(FeUnpack(mult.u), @, Bit(Clamp(mult.scalar), mult.t - 1))]

ScalarMultReturn ==
  /\ mult.stage = "ladder" /\ mult.t = 0
  /\ mult' = [stage |-> "done", scalar |-> mult.scalar, u |-> mult.u,
              out |-> LadderResult(mult.v)]

X25519Next ==
  \/ \E scalar \in Scalar, u \in Coordinate : ScalarMult(scalar, u)
  \/ LadderRound
  \/ ScalarMultReturn

-----------------------------------------------------------------------------
(***************************************************************************)
(* The same product in the group itself.  For every u there is a curve     *)
(* c * y^2 = x^3 + A x^2 + x through (u, 1), the curve or its twist.       *)
(***************************************************************************)
CoeffA == (4 * A24 + 2) % Prime

Power(a, n) ==
  LET pow[i \in 0 .. FieldBits] ==
        IF i = 0 THEN 1
        ELSE LET prev == pow[i - 1]
                 sq == (prev * prev) % Prime
             IN  IF Bit(n, FieldBits - i) = 1 THEN (sq * a) % Prime ELSE sq
  IN  pow[FieldBits]

GroupAdd(c, p, q) ==
  IF p = <<>> THEN q
  ELSE IF q = <<>> THEN p
  ELSE IF p[1] = q[1] /\ (p[2] + q[2]) % Prime = 0 THEN <<>>
  ELSE
  LET x     == p[1]
      rise  == IF p = q THEN (((3 * x + 2 * CoeffA) % Prime) * x + 1) % Prime
               ELSE (q[2] - p[2]) % Prime
      run   == IF p = q THEN (((2 * c) % Prime) * p[2]) % Prime ELSE (q[1] - x) % Prime
      slope == (rise * Power(run, Prime - 2)) % Prime
      x3    == (((slope * slope) % Prime) * c - CoeffA - x - q[1]) % Prime
  IN  <<x3, (slope * ((x - x3) % Prime) - p[2]) % Prime>>

\* The point with u-coordinate x times k; meaningful when CurveOf(x) # 0
CurveOf(x) == (((((x + CoeffA) % Prime) * x + 1) % Prime) * x) % Prime

Multiple(x, k) ==
  LET acc[i \in 0 .. FieldBits + 1] ==
        IF i = 0 THEN <<>>
        ELSE LET prev == acc[i - 1]
                 d == GroupAdd(CurveOf(x), prev, prev)
             IN  IF Bit(k, FieldBits + 1 - i) = 1 THEN GroupAdd(CurveOf(x), d, <<x, 1>>) ELSE d
  IN  acc[FieldBits + 1]

\* The value of an fe, and whether (X : Z) are the coordinates of a point
Field(a) ==
  LET sum[i \in 0 .. FeLimbs] ==
        IF i = 0 THEN 0 ELSE (sum[i - 1] + a[i - 1] * LimbBase ^ (i - 1)) % Prime
  IN  sum[FeLimbs]

Represents(X, Z, point) ==
  IF point = <<>> THEN Field(X) # 0 /\ Field(Z) = 0
  ELSE Field(Z) # 0 /\ Field(X) = (Field(Z) * point[1]) % Prime

(***************************************************************************)
(* After each round of the ladder of nd_x25519_scalarmult the two pairs of *)
(* coordinates stand for the multiples by the bits of the scalar read so   *)
(* far and by one more, whatever the limbs hold between two carries, for   *)
(* points of the curve and of its twist, and u-coordinates not reduced.    *)
(* The result is the u-coordinate of the product, reduced (RFC 7748,       *)
(* section 5), and 0 for the point at infinity and for u = 0.              *)
(***************************************************************************)
LadderExact ==
  LET x == (mult.u % 2 ^ FieldBits) % Prime
      k == Clamp(mult.scalar)
  IN  /\ (mult.stage = "ladder" /\ CurveOf(x) # 0) =>
           LET w    == Swap(mult.v.swap, mult.v)
               read == k \div 2 ^ mult.t
           IN  /\ Represents(w.x2, w.z2, Multiple(x, read))
               /\ Represents(w.x3, w.z3, Multiple(x, read + 1))
      /\ mult.stage = "done" =>
           LET kP == Multiple(x, k)
           IN  mult.out = IF CurveOf(x) = 0 \/ kP = <<>> THEN 0 ELSE kP[1]
=============================================================================
