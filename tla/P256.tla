-------------------------------- MODULE P256 --------------------------------
(***************************************************************************)
(* ECDSA over P-256: src/crypto/p256_internal.h, src/crypto/p256.c and     *)
(* the signer of tools/p256_sign_demo.c.  A bn256 is the number its limbs  *)
(* stand for; what the code does limb by limb reads Limb(a, i).  The       *)
(* constants give a curve y^2 = x^3 - 3x + CoeffB of prime order N < P, as *)
(* P-256 has, small enough to enumerate.                                   *)
(***************************************************************************)
EXTENDS Integers, Sequences, FiniteSets

CONSTANTS
  LimbBits,       \* bits of a limb (32)
  Limbs,          \* limbs of a bn256 (8)
  P, N, CoeffB,   \* P256_P, P256_N, P256_B
  GX, GY          \* P256_GX, P256_GY

Base == 2 ^ LimbBits
Width == Base ^ Limbs       \* 2^256
Bits == LimbBits * Limbs
Bn == 0 .. Width - 1

ASSUME P256Assumption ==
  /\ {LimbBits, Limbs, P, N, CoeffB, GX, GY} \subseteq Nat \ {0}
  /\ N < P /\ P < Width /\ Width < 2 * N
  /\ \A d \in 2 .. P - 1 : P % d # 0 /\ (d < N => N % d # 0)
  /\ (GY * GY - (GX * GX * GX - 3 * GX + CoeffB)) % P = 0

-----------------------------------------------------------------------------
\* Multi-precision numbers

Limb(a, i) == (a \div Base ^ i) % Base
PutLimb(a, i, v) == a + (v - Limb(a, i)) * Base ^ i
Test(a, i) == (a \div 2 ^ i) % 2 = 1

\* bn_cmp: the highest limb that differs decides
BnCmp(a, b) ==
  LET differ == {i \in 0 .. Limbs - 1 : Limb(a, i) # Limb(b, i)}
      top == CHOOSE i \in differ : \A j \in differ : j <= i
  IN  IF differ = {} THEN 0 ELSE IF Limb(a, top) < Limb(b, top) THEN -1 ELSE 1

\* bn_add_raw, bn_sub_raw: the result and the carry or borrow out of it
BnAddRaw(a, b) ==
  LET acc[i \in 0 .. Limbs] ==
        IF i = 0 THEN <<0, 0>>
        ELSE LET prev == acc[i - 1]
                 s == Limb(a, i - 1) + Limb(b, i - 1) + prev[2]
             IN  <<PutLimb(prev[1], i - 1, s % Base), s \div Base>>
  IN  acc[Limbs]

BnSubRaw(a, b) ==
  LET acc[i \in 0 .. Limbs] ==
        IF i = 0 THEN <<0, 0>>
        ELSE LET prev == acc[i - 1]
                 d == Limb(a, i - 1) - Limb(b, i - 1) - prev[2]
             IN  <<PutLimb(prev[1], i - 1, d % Base), IF d < 0 THEN 1 ELSE 0>>
  IN  acc[Limbs]

\* bn_mul_wide: row i adds a[i] * b to the product, and lets what carries out
\* of its last limb ripple up.
Ripple(o, c, k) ==
  LET acc[m \in k .. 2 * Limbs] ==
        IF m = k THEN <<o, c>>
        ELSE LET prev == acc[m - 1]
                 t == Limb(prev[1], m - 1) + prev[2]
             IN  <<PutLimb(prev[1], m - 1, t % Base), t \div Base>>
  IN  acc[2 * Limbs][1]

BnMulWide(a, b) ==
  LET row(o, i) ==
        LET acc[j \in 0 .. Limbs] ==
              IF j = 0 THEN <<o, 0>>
              ELSE LET prev == acc[j - 1]
                       k == i + j - 1
                       t == Limb(a, i) * Limb(b, j - 1) + Limb(prev[1], k) + prev[2]
                   IN  <<PutLimb(prev[1], k, t % Base), t \div Base>>
            last == acc[Limbs]
        IN  Ripple(last[1], last[2], i + Limbs)
      product[i \in 0 .. Limbs] == IF i = 0 THEN 0 ELSE row(product[i - 1], i - 1)
  IN  product[Limbs]

\* mod_reduce_wide: long division, one bit of the product at a time, in a
\* remainder of one limb more (rem9_ge_m compares it with m)
ModReduceWide(wide, m) ==
  LET rem[i \in 0 .. 2 * Bits] ==
        IF i = 0 THEN 0
        ELSE LET x   == (2 * rem[i - 1] + ((wide \div 2 ^ (2 * Bits - i)) % 2)) % (Width * Base)
                 sub == BnSubRaw(x % Width, m)
             IN  IF x \div Width # 0 \/ BnCmp(x % Width, m) >= 0
                 THEN sub[1] + (x \div Width - sub[2]) * Width
                 ELSE x
  IN  rem[2 * Bits] % Width

-----------------------------------------------------------------------------
\* Arithmetic modulo m on the limbs

\* A faulty mod_add: it forgets the carry out of the highest limb.
ModAddNoCarry(a, b, m) ==
  LET sum == BnAddRaw(a, b)[1]
  IN  IF BnCmp(sum, m) >= 0 THEN BnSubRaw(sum, m)[1] ELSE sum

\* mod_add, mod_sub
ModAdd(a, b, m) ==
  LET sum == BnAddRaw(a, b)
  IN  IF sum[2] # 0 \/ BnCmp(sum[1], m) >= 0 THEN BnSubRaw(sum[1], m)[1] ELSE sum[1]

ModSub(a, b, m) ==
  LET diff == BnSubRaw(a, b)
  IN  IF diff[2] # 0 THEN BnAddRaw(diff[1], m)[1] ELSE diff[1]

\* mod_mul
ModMul(a, b, m) == ModReduceWide(BnMulWide(a, b), m)

\* mod_inv by mod_pow, to the power m - 2
ModInv(a, m) ==
  LET exp == BnSubRaw(m, 2)[1]
      acc[i \in 0 .. Bits] ==
        IF i = 0 THEN <<1, a>>
        ELSE LET prev == acc[i - 1]
             IN  <<IF Test(exp, i - 1) THEN ModMul(prev[1], prev[2], m) ELSE prev[1],
                   ModMul(prev[2], prev[2], m)>>
  IN  acc[Bits][1]

\* mod_reduce_once: a while loop that subtracts m as long as it can
ModReduceOnce(a, m) ==
  LET reduced[i \in 0 .. Width \div m] ==
        IF i = 0 THEN a
        ELSE LET prev == reduced[i - 1]
             IN  IF BnCmp(prev, m) >= 0 THEN BnSubRaw(prev, m)[1] ELSE prev
  IN  reduced[Width \div m]

OnLimbs(op, a, b, m) ==
  CASE op = "add" -> ModAdd(a, b, m)
    [] op = "sub" -> ModSub(a, b, m)
    [] op = "mul" -> ModMul(a, b, m)
    [] op = "inv" -> ModInv(a, m)
    [] op = "reduce" -> ModReduceOnce(a, m)

-----------------------------------------------------------------------------
\* What these compute on reduced numbers: the point operations, the verifier
\* and the signer below use this form, and Ecdsa!LimbsExact compares the two.

Inverse1(a, m) == IF a = 0 THEN 0 ELSE CHOOSE i \in 1 .. m - 1 : (a * i) % m = 1

AddP(a, b) == (a + b) % P
SubP(a, b) == (a - b) % P
MulP(a, b) == (a * b) % P
Square(a) == MulP(a, a)
InvP(a) == Inverse1(a, P)
AddN(a, b) == (a + b) % N
MulN(a, b) == (a * b) % N
InvN(a) == Inverse1(a, N)

InField(op, a, b, m) ==
  CASE op = "add" -> (a + b) % m
    [] op = "sub" -> (a - b) % m
    [] op = "mul" -> (a * b) % m
    [] op = "inv" -> Inverse1(a, m)
    [] op = "reduce" -> a % m

-----------------------------------------------------------------------------
\* Points in Jacobian coordinates; the coordinates of a point at infinity
\* are never read.

Infinity == [infinity |-> TRUE]
Jacobian(x, y, z) == [infinity |-> FALSE, x |-> x, y |-> y, z |-> z]
PointFromAffine(x, y) == Jacobian(x, y, 1)

\* point_to_affine; only x is used
PointToAffineX(p) == MulP(p.x, Square(InvP(p.z)))

Twice(a) == AddP(a, a)

PointDouble(p) ==
  IF p.infinity \/ p.y = 0 THEN Infinity
  ELSE
  LET delta == MulP(p.z, p.z)
      gamma == MulP(p.y, p.y)
      beta  == MulP(p.x, gamma)
      base  == MulP(SubP(p.x, delta), AddP(p.x, delta))
      alpha == AddP(Twice(base), base)
      four  == Twice(Twice(beta))
      x3    == SubP(MulP(alpha, alpha), Twice(four))
      yz    == AddP(p.y, p.z)
      z3    == SubP(SubP(MulP(yz, yz), gamma), delta)
      g2    == MulP(gamma, gamma)
  IN  Jacobian(x3, SubP(MulP(alpha, SubP(four, x3)), Twice(Twice(Twice(g2)))), z3)

\* When both points have the same x they are equal or opposite: point_add
\* doubles, or answers infinity.  The faulty form takes them for opposite.
SameXOpposite(p, rr) == Infinity

SameX(p, rr) == IF rr = 0 THEN PointDouble(p) ELSE Infinity

PointAdd(p, q) ==
  IF p.infinity THEN q
  ELSE IF q.infinity THEN p
  ELSE
  LET z1z1 == MulP(p.z, p.z)
      z2z2 == MulP(q.z, q.z)
      u1   == MulP(p.x, z2z2)
      s1   == MulP(p.y, MulP(z2z2, q.z))
      h    == SubP(MulP(q.x, z1z1), u1)
      rr   == SubP(MulP(q.y, MulP(z1z1, p.z)), s1)
      h2   == MulP(h, h)
      h3   == MulP(h2, h)
      u1h2 == MulP(u1, h2)
      x3   == SubP(SubP(MulP(rr, rr), h3), Twice(u1h2))
      y3   == SubP(MulP(rr, SubP(u1h2, x3)), MulP(s1, h3))
  IN  IF h = 0 THEN SameX(p, rr) ELSE Jacobian(x3, y3, MulP(MulP(p.z, q.z), h))

\* point_scalar_mult: from the lowest bit up
PointScalarMult(k, p) ==
  LET acc[i \in 0 .. Bits] ==
        IF i = 0 THEN <<Infinity, p>>
        ELSE LET prev == acc[i - 1]
             IN  <<IF Test(k, i - 1) THEN PointAdd(prev[1], prev[2]) ELSE prev[1],
                   PointDouble(prev[2])>>
  IN  acc[Bits][1]

-----------------------------------------------------------------------------
\* nd_p256_point_is_valid
PointIsValid(qx, qy) ==
  /\ BnCmp(qx, P) < 0 /\ BnCmp(qy, P) < 0
  /\ LET x3 == MulP(MulP(qx, qx), qx)
     IN  MulP(qy, qy) = AddP(AddP(x3, MulP(P - 3, qx)), CoeffB)

\* r, s and the signer's random number must be in 1 .. N - 1.
ScalarInRange(a) == a # 0 /\ BnCmp(a, N) < 0

\* The point that nd_p256_ecdsa_verify ends with
SumOf(parts) == PointAdd(parts[1], parts[2])

VerifyPoint(u1, u2, q) ==
  SumOf([i \in 1 .. 2 |->
           PointScalarMult(<<u1, u2>>[i], <<PointFromAffine(GX, GY), q>>[i])])

HasX(p, r) == ~p.infinity /\ ModReduceOnce(PointToAffineX(p), N) = r

\* nd_p256_ecdsa_verify: TRUE is ND_OK, FALSE ND_ERR_AUTH_FAILED
EcdsaVerify(qx, qy, hash, r, s) ==
  /\ PointIsValid(qx, qy)
  /\ ScalarInRange(r) /\ ScalarInRange(s)
  /\ LET w == InvN(s)
     IN  HasX(VerifyPoint(MulN(ModReduceOnce(hash, N), w), MulN(r, w), PointFromAffine(qx, qy)), r)

\* One attempt of nd_demo_p256_ecdsa_sign with the random number k: the
\* signature, or <<>> when the loop must draw again.  The faulty form keeps
\* a signature whose s is zero.
RetryOnlyOnZeroR(r, s) == r = 0

MustRetry(r, s) == r = 0 \/ s = 0

SignWith(d, hash, k, r) ==
  LET s == MulN(InvN(k), AddN(ModReduceOnce(hash, N), MulN(r, d)))
  IN  IF MustRetry(r, s) THEN <<>> ELSE <<r, s>>

SignAttempt(d, hash, k) ==
  IF ~ScalarInRange(k) THEN <<>>
  ELSE SignWith(d, hash, k,
         ModReduceOnce(PointToAffineX(PointScalarMult(k, PointFromAffine(GX, GY))), N))

-----------------------------------------------------------------------------
\* The curve's group by chord and tangent, in affine coordinates and with
\* inverses found by search, and the points k * G in order

AffineAdd(p, q) ==
  IF p = <<>> THEN q
  ELSE IF q = <<>> THEN p
  ELSE IF p[1] = q[1] /\ (p[2] + q[2]) % P = 0 THEN <<>>
  ELSE
  LET slope == IF p = q THEN ((3 * p[1] * p[1] - 3) * Inverse1((2 * p[2]) % P, P)) % P
               ELSE ((q[2] - p[2]) * Inverse1((q[1] - p[1]) % P, P)) % P
      x == (slope * slope - p[1] - q[1]) % P
  IN  <<x, (slope * (p[1] - x) - p[2]) % P>>

Multiples ==
  LET kG[k \in 0 .. N - 1] == IF k = 0 THEN <<>> ELSE AffineAdd(kG[k - 1], <<GX, GY>>)
  IN  [k \in 0 .. N - 1 |-> kG[k]]

\* (FIPS 186-4, 6.4) The public key is d * G for some d, and the point that s
\* and r define has r for its first coordinate.
Signs(qx, qy, hash, r, s) ==
  /\ r \in 1 .. N - 1 /\ s \in 1 .. N - 1
  /\ \E d \in 1 .. N - 1 :
       /\ Multiples[d] = <<qx, qy>>
       /\ LET R == Multiples[((hash + r * d) * Inverse1(s, N)) % N]
          IN  R # <<>> /\ R[1] % N = r
=============================================================================
