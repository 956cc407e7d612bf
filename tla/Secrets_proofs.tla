--------------------------- MODULE Secrets_proofs ---------------------------
(***************************************************************************)
(* The streaming interface of SHA-256 (src/crypto/sha256.c) and the        *)
(* transcript built on it, for every size of block, count and digest: a    *)
(* snapshot is the digest of the messages added, however they were cut up. *)
(***************************************************************************)
EXTENDS Transcript, Sealing, NumberLemmas, SequenceTheorems, FiniteSetTheorems

Octet == {Lit(n) : n \in 0 .. 255}

\* The context c has taken in exactly the bytes m, which are of the set S: its
\* chaining value has all full blocks, its buffer has the rest.
Taken(S, c, m) ==
  /\ c \in [h : Seq([1 .. BlockLen -> S]), total : Nat, buf : Seq(S)]
  /\ m \in Seq(S)
  /\ Len(c.buf) < BlockLen
  /\ Len(m) = BlockLen * Len(c.h) + Len(c.buf)
  /\ \A i \in 1 .. Len(c.h) : \A j \in 1 .. BlockLen : c.h[i][j] = m[BlockLen * (i - 1) + j]
  /\ \A j \in 1 .. Len(c.buf) : c.buf[j] = m[BlockLen * Len(c.h) + j]

LEMMA BlockLenPositive == BlockLen \in Nat \ {0}
  BY ShaAssumption

\* The positions of the bytes of a full block.
LEMMA BlockPosition ==
  ASSUME NEW n \in Nat, NEW i \in 1 .. n, NEW j \in 1 .. BlockLen
  PROVE  BlockLen * (i - 1) + j \in 1 .. BlockLen * n
<1>1. BlockLen \in Nat \ {0}
  BY BlockLenPositive
<1>2. BlockLen * i <= BlockLen * n /\ BlockLen * 0 <= BlockLen * (i - 1)
  BY <1>1, TimesMonotonic
<1>3. BlockLen * (i - 1) = BlockLen * i - BlockLen /\ BlockLen * i \in Int /\ BlockLen * n \in Int
  BY <1>1
<1> QED
  BY <1>1, <1>2, <1>3

-----------------------------------------------------------------------------
(* nd_sha256_update                                                        *)

LEMMA AbsorbTakes ==
  ASSUME NEW S, NEW c, NEW m, Taken(S, c, m), NEW x \in S
  PROVE  Taken(S, Absorb(c, x), Append(m, x)) /\ Absorb(c, x).total = c.total
<1> DEFINE buf == Append(c.buf, x)
           n == Len(c.h)
           k == Len(c.buf)
           B == BlockLen
           F == BlockLen * Len(c.h)
           M == Append(m, x)
<1>0. B \in Nat \ {0} /\ n \in Nat /\ k \in Nat /\ F \in Nat
  BY BlockLenPositive DEF Taken
<1>1. /\ c \in [h : Seq([1 .. B -> S]), total : Nat, buf : Seq(S)]
      /\ m \in Seq(S) /\ k < B /\ Len(m) = F + k
      /\ \A i \in 1 .. n : \A j \in 1 .. B : c.h[i][j] = m[B * (i - 1) + j]
      /\ \A j \in 1 .. k : c.buf[j] = m[F + j]
  BY DEF Taken
<1>2. /\ M \in Seq(S) /\ Len(M) = F + k + 1
      /\ \A p \in 1 .. F + k : M[p] = m[p]
      /\ M[F + k + 1] = x
  BY <1>0, <1>1, AppendProperties
<1>3. /\ buf \in Seq(S) /\ Len(buf) = k + 1
      /\ \A j \in 1 .. k : buf[j] = c.buf[j]
      /\ buf[k + 1] = x
  BY <1>0, <1>1, AppendProperties
<1> HIDE DEF n, k, F, B, buf, M
<1>4. \A i \in 1 .. n : \A j \in 1 .. B : c.h[i][j] = M[B * (i - 1) + j]
  <2> SUFFICES ASSUME NEW i \in 1 .. n, NEW j \in 1 .. B PROVE c.h[i][j] = M[B * (i - 1) + j]
    OBVIOUS
  <2>1. B * (i - 1) + j \in 1 .. F
    BY <1>0, BlockPosition DEF B, F, n
  <2>2. B * (i - 1) + j \in 1 .. F + k
    BY <1>0, <2>1
  <2> QED
    BY <1>1, <1>2, <2>2
<1>5. \A j \in 1 .. k + 1 : buf[j] = M[F + j]
  <2> SUFFICES ASSUME NEW j \in 1 .. k + 1 PROVE buf[j] = M[F + j]
    OBVIOUS
  <2>1. CASE j = k + 1
    BY <1>0, <1>2, <1>3, <2>1
  <2>2. CASE j \in 1 .. k
    <3>1. F + j \in 1 .. F + k
      BY <1>0, <2>2
    <3> QED
      BY <1>1, <1>2, <1>3, <2>2, <3>1
  <2> QED
    BY <1>0, <2>1, <2>2
<1>6. c = [h |-> c.h, total |-> c.total, buf |-> c.buf] /\ c.h \in Seq([1 .. B -> S]) /\ c.total \in Nat
  BY <1>1
<1>7. CASE Len(buf) = B
  <2> DEFINE d == [h |-> Append(c.h, buf), total |-> c.total, buf |-> <<>>]
  <2>1. Absorb(c, x) = d
    BY <1>6, <1>7 DEF Absorb, buf, B
  <2>2. buf \in [1 .. B -> S]
    BY <1>3, <1>7, LenProperties
  <2>3. /\ d.h \in Seq([1 .. B -> S]) /\ Len(d.h) = n + 1
        /\ \A i \in 1 .. n : d.h[i] = c.h[i]
        /\ d.h[n + 1] = buf
    BY <1>6, <2>2, AppendProperties DEF n
  <2>4. d \in [h : Seq([1 .. B -> S]), total : Nat, buf : Seq(S)]
    BY <1>6, <2>3
  <2>5. d.buf = <<>> /\ Len(d.buf) = 0 /\ d.total = c.total
    OBVIOUS
  <2>6. B * (n + 1) = F + B /\ k + 1 = B /\ B * n = F
    BY <1>0, <1>3, <1>7 DEF F, B, n
  <2>7. \A i \in 1 .. n + 1 : \A j \in 1 .. B : d.h[i][j] = M[B * (i - 1) + j]
    <3> SUFFICES ASSUME NEW i \in 1 .. n + 1, NEW j \in 1 .. B PROVE d.h[i][j] = M[B * (i - 1) + j]
      OBVIOUS
    <3> HIDE DEF d
    <3>1. CASE i \in 1 .. n
      BY <1>4, <2>3, <3>1
    <3>2. CASE i = n + 1
      <4>1. i - 1 = n /\ j \in 1 .. k + 1 /\ d.h[i] = buf
        BY <1>0, <2>3, <2>6, <3>2
      <4> QED
        BY <1>5, <2>6, <4>1
    <3> QED
      BY <1>0, <3>1, <3>2
  <2> HIDE DEF d
  <2>8. Taken(S, d, M)
    BY <1>0, <1>2, <2>3, <2>4, <2>5, <2>6, <2>7 DEF Taken, B
  <2> QED
    BY <2>1, <2>5, <2>8 DEF M
<1>8. CASE Len(buf) # B
  <2> DEFINE d == [h |-> c.h, total |-> c.total, buf |-> buf]
  <2>1. Absorb(c, x) = d
    BY <1>6, <1>8 DEF Absorb, buf, B
  <2>2. d \in [h : Seq([1 .. B -> S]), total : Nat, buf : Seq(S)]
    BY <1>3, <1>6
  <2>3. d.h = c.h /\ d.buf = buf /\ d.total = c.total
    OBVIOUS
  <2>4. Len(buf) < B
    BY <1>0, <1>1, <1>3, <1>8
  <2> HIDE DEF d
  <2>5. Len(d.h) = n /\ B * n = F
    BY <2>3 DEF B, F, n
  <2>a. Len(M) = F + Len(d.buf) /\ Len(d.buf) = k + 1
    BY <1>0, <1>2, <1>3, <2>3
  <2>6. \A i \in 1 .. n : \A j \in 1 .. B : d.h[i][j] = M[B * (i - 1) + j]
    BY <1>4, <2>3
  <2>7. \A j \in 1 .. k + 1 : d.buf[j] = M[F + j]
    BY <1>5, <2>3
  <2>8. Taken(S, d, M)
    BY <1>2, <2>2, <2>3, <2>4, <2>5, <2>a, <2>6, <2>7 DEF Taken, B
  <2> QED
    BY <2>1, <2>3, <2>8 DEF M
<1> QED
  BY <1>7, <1>8

\* A prefix, one element longer
LEMMA PrefixStep ==
  ASSUME NEW S, NEW s \in Seq(S), NEW l \in 0 .. Len(s) - 1
  PROVE  SubSeq(s, 1, l + 1) = Append(SubSeq(s, 1, l), s[l + 1]) /\ s[l + 1] \in S
<1>1. Len(s) \in Nat /\ l + 1 \in 1 .. Len(s) /\ s[l + 1] \in S
  OBVIOUS
<1> DEFINE a == SubSeq(s, 1, l + 1)
           b == Append(SubSeq(s, 1, l), s[l + 1])
<1>2. a \in Seq(S) /\ Len(a) = l + 1 /\ \A i \in 1 .. l + 1 : a[i] = s[i]
  BY <1>1
<1>3. SubSeq(s, 1, l) \in Seq(S) /\ Len(SubSeq(s, 1, l)) = l /\ \A i \in 1 .. l : SubSeq(s, 1, l)[i] = s[i]
  BY <1>1
<1>4. b \in Seq(S) /\ Len(b) = l + 1 /\ \A i \in 1 .. l + 1 : b[i] = s[i]
  BY <1>1, <1>3
<1> HIDE DEF a, b
<1>5. a = b
  BY <1>2, <1>4, SeqEqual
<1> QED
  BY <1>1, <1>5 DEF a, b

\* The loop over the data, as the sequence of the contexts it goes through.
LEMMA UpdateLoop ==
  ASSUME NEW c, NEW data, Len(data) \in Nat
  PROVE  \E after : /\ Sha256Update(c, data) = after[Len(data)]
                    /\ after[0] = [c EXCEPT !.total = @ + Len(data)]
                    /\ \A i \in 0 .. Len(data) - 1 : after[i + 1] = Absorb(after[i], data[i + 1])
<1> DEFINE n == Len(data)
           c0 == [c EXCEPT !.total = @ + Len(data)]
           Def(f, N) == f = [i \in 0 .. N |-> IF i = 0 THEN c0 ELSE Absorb(f[i - 1], data[i])]
           T == {N \in 0 .. n : \E f : Def(f, N)}
<1> HIDE DEF n, c0
<1>0. n \in Nat
  BY DEF n
<1>1. 0 \in T
  <2> DEFINE f == [i \in 0 .. 0 |-> c0]
  <2>1. Def(f, 0)
    OBVIOUS
  <2> HIDE DEF Def, f
  <2> QED
    BY <1>0, <2>1
<1>2. ASSUME NEW N \in 0 .. n - 1, N \in T PROVE N + 1 \in T
  <2>1. PICK f : Def(f, N)
    BY <1>2
  <2>2. \A i \in 0 .. N : f[i] = IF i = 0 THEN c0 ELSE Absorb(f[i - 1], data[i])
    BY <2>1
  <2> DEFINE g == [i \in 0 .. N + 1 |-> IF i <= N THEN f[i] ELSE Absorb(f[N], data[N + 1])]
             h == [i \in 0 .. N + 1 |-> IF i = 0 THEN c0 ELSE Absorb(g[i - 1], data[i])]
  <2>3. ASSUME NEW i \in 0 .. N + 1 PROVE g[i] = h[i]
    <3>1. CASE i = 0
      BY <1>0, <2>2, <3>1
    <3>2. CASE i \in 1 .. N
      <4>1. g[i] = f[i] /\ g[i - 1] = f[i - 1]
        BY <1>0, <3>2
      <4> HIDE DEF g, h
      <4>2. f[i] = Absorb(f[i - 1], data[i])
        BY <1>0, <2>2, <3>2
      <4> QED
        BY <4>1, <4>2, <3>2 DEF h
    <3>3. CASE i = N + 1
      <4>1. g[i] = Absorb(f[N], data[i]) /\ g[i - 1] = f[N] /\ i # 0
        BY <1>0, <3>3
      <4> QED
        BY <4>1
    <3> QED
      BY <1>0, <3>1, <3>2, <3>3
  <2>4. g = h
    BY <2>3
  <2>5. Def(g, N + 1)
    BY <2>4
  <2> HIDE DEF Def, g
  <2> QED
    BY <1>0, <2>5
<1>3. n \in T
  <2> HIDE DEF T
  <2>1. 0 .. n \subseteq T
    BY <1>0, <1>1, <1>2, BoundedInduction
  <2> QED
    BY <1>0, <2>1
<1> DEFINE after == CHOOSE f : Def(f, n)
<1>4. Def(after, n)
  <2>1. \E f : Def(f, n)
    BY <1>3
  <2> HIDE DEF Def
  <2> QED
    BY <2>1
<1>5. Sha256Update(c, data) = after[n]
  BY DEF Sha256Update, n, c0
<1> HIDE DEF after
<1>6. \A i \in 0 .. n : after[i] = IF i = 0 THEN c0 ELSE Absorb(after[i - 1], data[i])
  BY <1>4
<1>7. after[0] = c0
  BY <1>0, <1>6
<1>8. ASSUME NEW i \in 0 .. n - 1 PROVE after[i + 1] = Absorb(after[i], data[i + 1])
  <2>1. i + 1 \in 0 .. n /\ i + 1 # 0 /\ (i + 1) - 1 = i
    BY <1>0
  <2> QED
    BY <1>6, <2>1
<1> QED
  BY <1>5, <1>7, <1>8 DEF n, c0

\* Counting the bytes does not touch them.
LEMMA CountKeepsTaken ==
  ASSUME NEW S, NEW c, NEW m, Taken(S, c, m), NEW n \in Nat
  PROVE  /\ Taken(S, [c EXCEPT !.total = @ + n], m)
         /\ [c EXCEPT !.total = @ + n].total = c.total + n
<1> DEFINE d == [c EXCEPT !.total = @ + n]
<1>1. c \in [h : Seq([1 .. BlockLen -> S]), total : Nat, buf : Seq(S)]
  BY DEF Taken
<1>2. /\ d \in [h : Seq([1 .. BlockLen -> S]), total : Nat, buf : Seq(S)]
      /\ d.h = c.h /\ d.buf = c.buf /\ d.total = c.total + n
  BY <1>1
<1> HIDE DEF d
<1>3. Taken(S, d, m)
  BY <1>2 DEF Taken
<1> QED
  BY <1>2, <1>3 DEF d

\* nd_sha256_update takes in the data behind what was taken in before.
LEMMA UpdateTakes ==
  ASSUME NEW S, NEW c, NEW m, Taken(S, c, m), NEW data \in Seq(S)
  PROVE  /\ Taken(S, Sha256Update(c, data), m \o data)
         /\ Sha256Update(c, data).total = c.total + Len(data)
<1> DEFINE M == m \o data
           n == Len(data)
           l == Len(m)
<1>0. n \in Nat /\ l \in Nat /\ m \in Seq(S)
  BY DEF Taken
<1>1. /\ M \in Seq(S) /\ Len(M) = l + n
      /\ \A i \in 1 .. l : M[i] = m[i]
      /\ \A i \in 1 .. n : M[l + i] = data[i]
  BY <1>0, ConcatProperties
<1>2. PICK after :
        /\ Sha256Update(c, data) = after[n]
        /\ after[0] = [c EXCEPT !.total = @ + n]
        /\ \A i \in 0 .. n - 1 : after[i + 1] = Absorb(after[i], data[i + 1])
  BY <1>0, UpdateLoop
<1> HIDE DEF M, n, l
<1>3. SubSeq(M, 1, l) = m /\ SubSeq(M, 1, l + n) = M
  <2>1. /\ SubSeq(M, 1, l) \in Seq(S) /\ Len(SubSeq(M, 1, l)) = l
        /\ \A i \in 1 .. l : SubSeq(M, 1, l)[i] = M[i]
    BY <1>0, <1>1
  <2>2. /\ SubSeq(M, 1, l + n) \in Seq(S) /\ Len(SubSeq(M, 1, l + n)) = l + n
        /\ \A i \in 1 .. l + n : SubSeq(M, 1, l + n)[i] = M[i]
    BY <1>0, <1>1
  <2>3. Len(m) = l
    BY DEF l
  <2>4. SubSeq(M, 1, l) = m
    BY <1>0, <1>1, <2>1, <2>3, SeqEqual
  <2>5. SubSeq(M, 1, l + n) = M
    BY <1>1, <2>2, SeqEqual
  <2> QED
    BY <2>4, <2>5
<1> DEFINE T == {i \in 0 .. n : /\ Taken(S, after[i], SubSeq(M, 1, l + i))
                                /\ after[i].total = c.total + n}
<1>4. 0 \in T
  <2>1. l + 0 = l /\ 0 \in 0 .. n
    BY <1>0
  <2>2. Taken(S, after[0], m) /\ after[0].total = c.total + n
    BY <1>0, <1>2, CountKeepsTaken
  <2> QED
    BY <1>3, <2>1, <2>2
<1>5. ASSUME NEW i \in 0 .. n - 1, i \in T PROVE i + 1 \in T
  <2>1. Taken(S, after[i], SubSeq(M, 1, l + i)) /\ after[i].total = c.total + n
    BY <1>5
  <2>2. l + i \in 0 .. Len(M) - 1 /\ l + (i + 1) = (l + i) + 1 /\ i + 1 \in 0 .. n /\ i + 1 \in 1 .. n
    BY <1>0, <1>1
  <2>3. M[(l + i) + 1] = data[i + 1]
    BY <1>1, <2>2
  <2>4. SubSeq(M, 1, l + (i + 1)) = Append(SubSeq(M, 1, l + i), data[i + 1]) /\ data[i + 1] \in S
    BY <1>1, <2>2, <2>3, PrefixStep
  <2>5. /\ Taken(S, Absorb(after[i], data[i + 1]), SubSeq(M, 1, l + (i + 1)))
        /\ Absorb(after[i], data[i + 1]).total = after[i].total
    <3> DEFINE p == SubSeq(M, 1, l + i)
               x == data[i + 1]
               a == after[i]
    <3>1. Taken(S, a, p) /\ x \in S
      BY <2>1, <2>4
    <3> HIDE DEF p, x, a
    <3>2. Taken(S, Absorb(a, x), Append(p, x)) /\ Absorb(a, x).total = a.total
      BY <3>1, AbsorbTakes
    <3> QED
      BY <2>4, <3>2, Zenon DEF p, x, a
  <2>6. after[i + 1] = Absorb(after[i], data[i + 1])
    BY <1>2
  <2> QED
    BY <2>1, <2>2, <2>5, <2>6
<1>6. n \in T
  <2> HIDE DEF T
  <2>1. 0 .. n \subseteq T
    BY <1>0, <1>4, <1>5, BoundedInduction
  <2> QED
    BY <1>0, <2>1
<1>7. Taken(S, after[n], M) /\ after[n].total = c.total + n
  BY <1>3, <1>6
<1> QED
  BY <1>2, <1>7 DEF M, n

-----------------------------------------------------------------------------
(* nd_sha256_final                                                         *)

\* The zeros the loop of nd_sha256_final adds are as many as the definition
\* of the padding asks for, and no other number below a block is.
LEMMA ZerosFill ==
  ASSUME NEW len \in Nat, NEW n \in Nat, NEW b \in 0 .. BlockLen - 1, len + 1 = BlockLen * n + b
  PROVE  /\ ZeroCount(b) \in 0 .. BlockLen - 1
         /\ (len + 1 + ZeroCount(b) + CountLen) % BlockLen = 0
         /\ ZeroCount(b) = CHOOSE k \in 0 .. BlockLen - 1 : (len + 1 + k + CountLen) % BlockLen = 0
<1> DEFINE B == BlockLen
           C == CountLen
           z == ZeroCount(b)
           q == (2 * B - C - b) \div B
           d == n + 2 - q
<1>0. B \in Nat \ {0} /\ C \in Nat
  BY ShaAssumption
<1>1. /\ z \in 0 .. B - 1 /\ q \in Int
      /\ 2 * B - C - b = B * q + z
  <2>1. z = (2 * B - C - b) % B
    BY DEF ZeroCount
  <2>2. 2 * B - C - b \in Int
    BY <1>0
  <2> HIDE DEF B, C, z
  <2> QED
    BY <1>0, <2>1, <2>2, Rest
<1> HIDE DEF B, C, z, q
<1>2. d \in Int /\ len + 1 + z + C = B * d
  <2>1. len + 1 = B * n + b
    BY DEF B
  <2>2. B * d = B * n + 2 * B - B * q /\ B * q \in Int /\ B * n \in Int
    BY <1>0, <1>1
  <2> QED
    BY <1>0, <1>1, <2>1, <2>2
<1>3. ASSUME NEW k \in 0 .. B - 1
      PROVE  (len + 1 + k + C) % B = 0 <=> k = z
  <2> DEFINE e == (len + 1 + k + C) \div B
             r == (len + 1 + k + C) % B
  <2>1. r \in 0 .. B - 1 /\ e \in Int /\ len + 1 + k + C = B * e + r
    <3>1. len + 1 + k + C \in Int
      BY <1>0
    <3> QED
      BY <1>0, <3>1, Rest
  <2> HIDE DEF e, r, d
  <2>2. B * e \in Int /\ B * d \in Int
    BY <1>0, <1>2, <2>1
  <2>a. e \in Int /\ d \in Int /\ r \in 0 .. B - 1 /\ z \in 0 .. B - 1
    BY <1>1, <1>2, <2>1
  <2>3. CASE r = 0
    <3>1. B * e + z = B * d + k
      BY <1>0, <1>1, <1>2, <2>1, <2>2, <2>3
    <3>2. k = z
      BY <1>0, <2>a, <3>1, RestUnique
    <3> QED
      BY <2>3, <3>2 DEF r
  <2>4. CASE k = z
    <3>1. B * e + r = B * d + 0 /\ 0 \in 0 .. B - 1
      BY <1>0, <1>1, <1>2, <2>1, <2>2, <2>4
    <3>2. r = 0
      BY <1>0, <2>a, <3>1, RestUnique
    <3> QED
      BY <2>4, <3>2 DEF r
  <2> QED
    BY <2>3, <2>4 DEF r
<1>4. z = CHOOSE k \in 0 .. B - 1 : (len + 1 + k + C) % B = 0
  BY <1>1, <1>3
<1> QED
  BY <1>1, <1>3, <1>4 DEF B, C, z

\* A larger set of bytes
LEMMA TakenWider ==
  ASSUME NEW S, NEW R, S \subseteq R, NEW c, NEW m, Taken(S, c, m)
  PROVE  Taken(R, c, m)
<1>1. \A s \in Seq(S) : s \in Seq(R)
  <2> SUFFICES ASSUME NEW s \in Seq(S) PROVE s \in Seq(R)
    OBVIOUS
  <2> QED
    OBVIOUS
<1>2. \A s \in Seq([1 .. BlockLen -> S]) : s \in Seq([1 .. BlockLen -> R])
  <2>1. [1 .. BlockLen -> S] \subseteq [1 .. BlockLen -> R]
    OBVIOUS
  <2> DEFINE A == [1 .. BlockLen -> S]
             Q == [1 .. BlockLen -> R]
  <2> SUFFICES ASSUME NEW s \in Seq(A) PROVE s \in Seq(Q)
    OBVIOUS
  <2>2. A \subseteq Q
    BY <2>1
  <2> HIDE DEF A, Q
  <2> QED
    BY <2>2
<1> QED
  BY <1>1, <1>2 DEF Taken

\* A context without a rest holds the blocks of its bytes, one by one.
LEMMA BlocksTaken ==
  ASSUME NEW S, NEW c, NEW p, Taken(S, c, p), Len(p) % BlockLen = 0
  PROVE  c.h = [i \in 1 .. Len(p) \div BlockLen |-> SubSeq(p, (i - 1) * BlockLen + 1, i * BlockLen)]
<1> DEFINE B == BlockLen
           n == Len(c.h)
           k == Len(c.buf)
           L == Len(p)
           Q == [1 .. B -> S]
           blocks == [i \in 1 .. L \div B |-> SubSeq(p, (i - 1) * B + 1, i * B)]
<1>0. B \in Nat \ {0}
  BY BlockLenPositive
<1>1. /\ c.h \in Seq(Q) /\ p \in Seq(S) /\ n \in Nat /\ k \in 0 .. B - 1 /\ L = B * n + k
      /\ \A i \in 1 .. n : \A j \in 1 .. B : c.h[i][j] = p[B * (i - 1) + j]
  BY <1>0 DEF Taken
<1>2. L \in Nat /\ L % B = 0
  BY <1>1
<1> HIDE DEF B, n, k, L
<1>3. L \div B = n /\ L = B * n
  <2> DEFINE q == L \div B
  <2>1. q \in Int /\ L = B * q + 0 /\ 0 \in 0 .. B - 1
    BY <1>0, <1>2, Rest
  <2> HIDE DEF q
  <2>2. B * q + 0 = B * n + k
    BY <1>1, <2>1
  <2>3. q = n /\ 0 = k
    <3>1. n \in Int /\ k \in 0 .. B - 1 /\ q \in Int /\ 0 \in 0 .. B - 1
      BY <1>1, <2>1
    <3> QED
      BY <1>0, <2>2, <3>1, RestUnique
  <2> QED
    BY <1>0, <1>1, <2>1, <2>3 DEF q
<1>4. ASSUME NEW i \in 1 .. n PROVE c.h[i] = SubSeq(p, (i - 1) * B + 1, i * B)
  <2> DEFINE f == B * (i - 1)
             s == SubSeq(p, f + 1, f + B)
  <2>1. /\ f \in Int /\ (i - 1) * B = f /\ i * B = f + B
        /\ B * 0 <= f /\ f + B = B * i /\ B * i <= B * n
    <3>1. B * 0 <= B * (i - 1) /\ B * i <= B * n
      BY <1>0, <1>1, TimesMonotonic
    <3> QED
      BY <1>0, <3>1
  <2>2. 0 <= f /\ f + B <= L
    BY <1>0, <1>3, <2>1
  <2>3. c.h[i] \in Q
    BY <1>1 DEF n
  <2>4. c.h[i] \in [1 .. B -> S] /\ \A j \in 1 .. B : c.h[i][j] = p[f + j]
    BY <1>1, <2>3
  <2> HIDE DEF f
  <2>5. s \in [1 .. B -> S] /\ \A j \in 1 .. B : s[j] = p[f + j]
    <3>1. s \in Seq(S) /\ Len(s) = B
      BY <1>0, <1>1, <2>1, <2>2 DEF L
    <3>2. \A j \in 1 .. B : s[j] = p[f + j]
      BY <1>0, <1>1, <2>1, <2>2 DEF L
    <3> HIDE DEF s
    <3>3. s \in [1 .. B -> S]
      BY <3>1, LenProperties
    <3> QED
      BY <3>2, <3>3
  <2> HIDE DEF s
  <2>6. c.h[i] = s
    <3> DEFINE g == c.h[i]
    <3>1. g \in [1 .. B -> S] /\ \A j \in 1 .. B : g[j] = s[j]
      BY <2>4, <2>5
    <3> HIDE DEF g
    <3>2. g = [j \in 1 .. B |-> g[j]] /\ s = [j \in 1 .. B |-> s[j]]
      BY <2>5, <3>1
    <3>3. g = s
      BY <3>1, <3>2
    <3> QED
      BY <3>3 DEF g
  <2> QED
    BY <2>1, <2>6 DEF s
<1>5. c.h = [i \in 1 .. n |-> c.h[i]]
  BY <1>1, LenProperties DEF n
<1>6. c.h = [i \in 1 .. n |-> SubSeq(p, (i - 1) * B + 1, i * B)]
  BY <1>4, <1>5
<1> QED
  BY <1>3, <1>6 DEF B, L

\* nd_sha256_final pads what was taken in as the standard says.
LEMMA FinalDigests ==
  ASSUME NEW S, NEW c, NEW m, Taken(S, c, m), c.total = Len(m)
  PROVE  Sha256Final(c) = Digest(m)
<1> DEFINE len == Len(m)
           count == BigEndian(CountLen, 8 * len)
           R == S \cup {Lit(128), Lit(0)} \cup {count[i] : i \in 1 .. CountLen}
           one == <<Lit(128)>>
           m1 == m \o one
           c1 == Sha256Update(c, one)
           z == ZeroCount(Len(c1.buf))
           m2 == m1 \o Zeros(z)
           c2 == Sha256Update(c1, Zeros(z))
           m3 == m2 \o count
           c3 == Sha256Update(c2, count)
<1>0. len \in Nat /\ BlockLen \in Nat \ {0} /\ CountLen \in Nat /\ m \in Seq(S)
  BY ShaAssumption DEF Taken
<1>1. one \in Seq(R) /\ Len(one) = 1
  OBVIOUS
<1>2. count \in Seq(R) /\ Len(count) = CountLen
  <2>1. count = [i \in 1 .. CountLen |-> count[i]]
    BY DEF BigEndian
  <2> HIDE DEF count
  <2>2. count \in [1 .. CountLen -> R]
    BY <2>1
  <2> HIDE DEF R
  <2> QED
    BY <1>0, <2>2
<1>3. Taken(R, c, m)
  <2>1. S \subseteq R
    OBVIOUS
  <2> HIDE DEF R
  <2> QED
    BY <2>1, TakenWider
<1>4. \A k \in Nat : Zeros(k) \in Seq(R) /\ Len(Zeros(k)) = k
  <2>1. Lit(0) \in R
    OBVIOUS
  <2> HIDE DEF R
  <2> QED
    BY <2>1 DEF Zeros
<1> HIDE DEF R, one, count, m1, c1, m2, c2, m3, c3
<1>5. Taken(R, c1, m1) /\ Len(m1) = len + 1
  <2>1. Taken(R, c1, m1)
    BY <1>1, <1>3, UpdateTakes DEF m1, c1
  <2>2. m \in Seq(R) /\ Len(m) = len
    BY <1>3 DEF Taken
  <2>3. Len(m1) = len + 1
    <3>1. Len(m \o one) = Len(m) + Len(one)
      BY <1>1, <2>2, ConcatProperties
    <3> QED
      BY <1>1, <3>1 DEF m1
  <2> QED
    BY <2>1, <2>3
<1>6. /\ z \in 0 .. BlockLen - 1
      /\ (len + 1 + z + CountLen) % BlockLen = 0
      /\ z = CHOOSE k \in 0 .. BlockLen - 1 : (len + 1 + k + CountLen) % BlockLen = 0
  <2>1. /\ Len(c1.h) \in Nat /\ Len(c1.buf) \in 0 .. BlockLen - 1
        /\ len + 1 = BlockLen * Len(c1.h) + Len(c1.buf)
    <3>1. /\ c1 \in [h : Seq([1 .. BlockLen -> R]), total : Nat, buf : Seq(R)]
          /\ Len(c1.buf) < BlockLen
          /\ Len(m1) = BlockLen * Len(c1.h) + Len(c1.buf)
      BY <1>5, Zenon DEF Taken
    <3>2. Len(c1.h) \in Nat /\ Len(c1.buf) \in Nat
      BY <3>1
    <3>3. Len(c1.buf) \in 0 .. BlockLen - 1
      BY <1>0, <3>1, <3>2
    <3> QED
      BY <1>5, <3>1, <3>2, <3>3, Zenon
  <2> HIDE DEF len
  <2> QED
    BY <1>0, <2>1, ZerosFill
<1> HIDE DEF z
<1>7. Zeros(z) \in Seq(R) /\ Len(Zeros(z)) = z
  <2>1. z \in Nat
    BY <1>0, <1>6
  <2> QED
    BY <1>4, <2>1
<1>8. Taken(R, c2, m2) /\ Len(m2) = len + 1 + z
  <2>1. Taken(R, c2, m2)
    BY <1>5, <1>7, UpdateTakes DEF c2, m2
  <2>2. m1 \in Seq(R)
    BY <1>5 DEF Taken
  <2> QED
    <3>1. Len(m1 \o Zeros(z)) = Len(m1) + Len(Zeros(z))
      BY <1>7, <2>2, ConcatProperties
    <3> QED
      BY <1>5, <1>7, <2>1, <3>1 DEF m2
<1>9. Taken(R, c3, m3) /\ Len(m3) = len + 1 + z + CountLen
  <2>1. Taken(R, c3, m3)
    BY <1>8, <1>2, UpdateTakes DEF c3, m3
  <2>2. m2 \in Seq(R)
    BY <1>8 DEF Taken
  <2> QED
    <3>1. Len(m2 \o count) = Len(m2) + Len(count)
      BY <1>2, <2>2, ConcatProperties
    <3> QED
      BY <1>2, <1>8, <2>1, <3>1 DEF m3
<1>10. c3.h = [i \in 1 .. Len(m3) \div BlockLen |-> SubSeq(m3, (i - 1) * BlockLen + 1, i * BlockLen)]
  <2>1. Len(m3) % BlockLen = 0
    BY <1>6, <1>9
  <2> QED
    BY <1>9, <2>1, BlocksTaken
<1>11. Padded(m) = m3
  BY <1>6 DEF Padded, m3, m2, m1, one, count, len
<1>12. Sha256Final(c) = [i \in 1 .. HashLen |-> <<"sha", c3.h, i>>]
  <2>1. c.total * 8 = 8 * len
    BY <1>0
  <2>2. Sha256Final(c) = [i \in 1 .. HashLen |->
           <<"sha", Sha256Update(c2, BigEndian(CountLen, c.total * 8)).h, i>>]
    BY DEF Sha256Final, FillBlock, c2, c1, z, one
  <2> QED
    BY <2>1, <2>2 DEF c3, count
<1> QED
  BY <1>10, <1>11, <1>12 DEF Digest

-----------------------------------------------------------------------------
\* The inductive invariant: the context has taken in exactly what was added,
\* and counted it.  A snapshot says nothing of the messages added after it, so
\* it could not carry the property to the next one.
ContextHasAdded ==
  /\ Taken(Octet, ctx, added)
  /\ ctx.total = Len(added)

IInv == ContextHasAdded /\ SnapshotExact

\* Whatever was added, the running context holds exactly those bytes, its
\* whole blocks compressed and the rest buffered (nd_transcript_add), and the
\* last snapshot is exact.
THEOREM Invariance == TranscriptSpec => []IInv
<1>1. TranscriptInit => IInv
  <2> SUFFICES ASSUME TranscriptInit PROVE IInv
    OBVIOUS
  <2> DEFINE c == [h |-> <<>>, total |-> 0, buf |-> <<>>]
  <2>1. c \in [h : Seq([1 .. BlockLen -> Octet]), total : Nat, buf : Seq(Octet)]
    OBVIOUS
  <2>2. c.h = <<>> /\ c.buf = <<>> /\ c.total = 0
    OBVIOUS
  <2>3. ctx = c /\ added = <<>> /\ snapshot = None
    BY DEF TranscriptInit, Sha256Init
  <2> HIDE DEF c
  <2>4. ContextHasAdded
    BY <2>1, <2>2, <2>3, BlockLenPositive DEF ContextHasAdded, Taken
  <2> QED
    BY <2>3, <2>4 DEF IInv, SnapshotExact
<1>2. IInv /\ [TranscriptNext]_transcriptVars => IInv'
  <2> SUFFICES ASSUME IInv, [TranscriptNext]_transcriptVars PROVE IInv'
    OBVIOUS
  <2> USE DEF IInv
  <2>1. ASSUME NEW m \in Message, TranscriptAdd(m) PROVE IInv'
    <3>1. m \in Seq(Octet)
      BY TranscriptAssumption DEF Octet
    <3>2. added \in Seq(Octet) /\ Len(added \o m) = Len(added) + Len(m)
      BY <3>1, ConcatProperties DEF ContextHasAdded, Taken
    <3>3. Taken(Octet, ctx', added') /\ ctx'.total = ctx.total + Len(m)
      BY <2>1, <3>1, UpdateTakes DEF TranscriptAdd, ContextHasAdded
    <3>4. ContextHasAdded'
      BY <2>1, <3>2, <3>3 DEF TranscriptAdd, ContextHasAdded
    <3> QED
      BY <2>1, <3>4 DEF TranscriptAdd, SnapshotExact
  <2>2. CASE TranscriptSnapshot
    <3>1. Sha256Final(ctx) = Digest(added)
      BY FinalDigests DEF ContextHasAdded
    <3>2. snapshot'.hash = Sha256Final(ctx) /\ snapshot'.of = added
      BY <2>2 DEF TranscriptSnapshot
    <3>3. SnapshotExact'
      BY <3>1, <3>2 DEF SnapshotExact
    <3>4. ContextHasAdded'
      BY <2>2 DEF TranscriptSnapshot, ContextHasAdded
    <3> QED
      BY <3>3, <3>4
  <2>3. ASSUME NEW prefix, NEW shared, Derive(prefix, shared) PROVE IInv'
    BY <2>3 DEF Derive, ContextHasAdded, SnapshotExact
  <2>4. ASSUME NEW keys, FinishServer(keys) \/ FinishClient(keys) PROVE IInv'
    <3>1. UNCHANGED <<ctx, added, snapshot>>
      BY <2>4 DEF FinishServer, FinishClient, Finish
    <3> QED
      BY <3>1 DEF ContextHasAdded, SnapshotExact
  <2>5. CASE UNCHANGED transcriptVars
    BY <2>5 DEF transcriptVars, ContextHasAdded, SnapshotExact
  <2> QED
    BY <2>1, <2>2, <2>3, <2>4, <2>5 DEF TranscriptNext
<1> QED
  BY <1>1, <1>2, PTL DEF TranscriptSpec

\* nd_transcript_snapshot gives the SHA-256 of the messages added until then,
\* whatever their lengths, wherever they end in a block and whatever snapshots
\* were taken before, for every size of block, digest and length field.
THEOREM Snapshots == TranscriptSpec => []SnapshotExact
<1>1. IInv => SnapshotExact
  BY DEF IInv
<1> QED
  BY Invariance, <1>1, PTL

-----------------------------------------------------------------------------
(* build_nonce                                                             *)

\* The bytes of a number, by repeated division
LEMMA ShiftedSteps ==
  ASSUME NEW seq \in Nat
  PROVE  /\ Shifted(seq)[0] = seq
         /\ \A i \in 0 .. SeqLen - 1 : Shifted(seq)[i + 1] = Shifted(seq)[i] \div ByteMod
<1> DEFINE Def(f, N) == f = [i \in 0 .. N |-> IF i = 0 THEN seq ELSE f[i - 1] \div ByteMod]
           T == {N \in 0 .. SeqLen : \E f : Def(f, N)}
<1>0. SeqLen \in Nat
  BY AeadAssumption
<1>1. 0 \in T
  <2> DEFINE f == [i \in 0 .. 0 |-> seq]
  <2>1. Def(f, 0)
    OBVIOUS
  <2> HIDE DEF Def, f
  <2> QED
    BY <1>0, <2>1
<1>2. ASSUME NEW N \in 0 .. SeqLen - 1, N \in T PROVE N + 1 \in T
  <2>1. PICK f : Def(f, N)
    BY <1>2
  <2>2. \A i \in 0 .. N : f[i] = IF i = 0 THEN seq ELSE f[i - 1] \div ByteMod
    BY <2>1
  <2> DEFINE g == [i \in 0 .. N + 1 |-> IF i <= N THEN f[i] ELSE f[N] \div ByteMod]
             h == [i \in 0 .. N + 1 |-> IF i = 0 THEN seq ELSE g[i - 1] \div ByteMod]
  <2>3. ASSUME NEW i \in 0 .. N + 1 PROVE g[i] = h[i]
    <3>1. CASE i = 0
      BY <1>0, <2>2, <3>1
    <3>2. CASE i \in 1 .. N
      <4>1. g[i] = f[i] /\ g[i - 1] = f[i - 1]
        BY <1>0, <3>2
      <4> HIDE DEF g, h
      <4>2. f[i] = f[i - 1] \div ByteMod
        BY <1>0, <2>2, <3>2
      <4> QED
        BY <4>1, <4>2, <3>2 DEF h
    <3>3. CASE i = N + 1
      <4>1. g[i] = f[N] \div ByteMod /\ g[i - 1] = f[N] /\ i # 0
        BY <1>0, <3>3
      <4> QED
        BY <4>1
    <3> QED
      BY <1>0, <3>1, <3>2, <3>3
  <2>4. g = h
    BY <2>3
  <2>5. Def(g, N + 1)
    BY <2>4
  <2> HIDE DEF Def, g
  <2> QED
    BY <1>0, <2>5
<1>3. SeqLen \in T
  <2> HIDE DEF T
  <2>1. 0 .. SeqLen \subseteq T
    BY <1>0, <1>1, <1>2, BoundedInduction
  <2> QED
    BY <1>0, <2>1
<1> DEFINE shift == CHOOSE f : Def(f, SeqLen)
<1>4. Def(shift, SeqLen)
  <2>1. \E f : Def(f, SeqLen)
    BY <1>3
  <2> HIDE DEF Def
  <2> QED
    BY <2>1
<1>5. Shifted(seq) = shift
  BY DEF Shifted
<1> HIDE DEF shift
<1>6. \A i \in 0 .. SeqLen : shift[i] = IF i = 0 THEN seq ELSE shift[i - 1] \div ByteMod
  BY <1>4
<1>7. shift[0] = seq
  BY <1>0, <1>6
<1>8. ASSUME NEW i \in 0 .. SeqLen - 1 PROVE shift[i + 1] = shift[i] \div ByteMod
  <2>1. i + 1 \in 0 .. SeqLen /\ i + 1 # 0 /\ (i + 1) - 1 = i
    BY <1>0
  <2> QED
    BY <1>6, <2>1
<1> QED
  BY <1>5, <1>7, <1>8

LEMMA ShiftedType ==
  ASSUME NEW seq \in Nat
  PROVE  \A i \in 0 .. SeqLen : Shifted(seq)[i] \in Int
<1> DEFINE T == {i \in 0 .. SeqLen : Shifted(seq)[i] \in Int}
<1>0. SeqLen \in Nat /\ ByteMod \in Nat \ {0}
  BY AeadAssumption
<1>1. 0 \in T
  BY <1>0, ShiftedSteps
<1>2. \A i \in 0 .. SeqLen - 1 : i \in T => i + 1 \in T
  <2> SUFFICES ASSUME NEW i \in 0 .. SeqLen - 1, i \in T PROVE i + 1 \in T
    OBVIOUS
  <2>1. Shifted(seq)[i + 1] = Shifted(seq)[i] \div ByteMod /\ i + 1 \in 0 .. SeqLen
    BY <1>0, ShiftedSteps
  <2>2. Shifted(seq)[i] \in Int
    OBVIOUS
  <2>3. Shifted(seq)[i] \div ByteMod \in Int
    BY <1>0, <2>2
  <2> QED
    BY <2>1, <2>3
<1> HIDE DEF T
<1>3. 0 .. SeqLen \subseteq T
  BY <1>0, <1>1, <1>2, BoundedInduction
<1> QED
  BY <1>3 DEF T

\* Two numbers that fit in the bytes of the nonce and agree in them are equal.
LEMMA BytesDetermine ==
  ASSUME NEW s \in Nat, NEW t \in Nat, Shifted(s)[SeqLen] = Shifted(t)[SeqLen],
         \A i \in 0 .. SeqLen - 1 : Shifted(s)[i] % ByteMod = Shifted(t)[i] % ByteMod
  PROVE  s = t
<1> DEFINE f == Shifted(s)
           g == Shifted(t)
           T == {i \in 0 .. SeqLen : f[SeqLen - i] = g[SeqLen - i]}
<1>0. SeqLen \in Nat /\ ByteMod \in Nat \ {0}
  BY AeadAssumption
<1>1. /\ \A i \in 0 .. SeqLen : f[i] \in Int /\ g[i] \in Int
      /\ \A i \in 0 .. SeqLen - 1 : f[i + 1] = f[i] \div ByteMod /\ g[i + 1] = g[i] \div ByteMod
      /\ \A i \in 0 .. SeqLen - 1 : f[i] % ByteMod = g[i] % ByteMod
      /\ f[0] = s /\ g[0] = t /\ f[SeqLen] = g[SeqLen]
  BY ShiftedSteps, ShiftedType
<1> HIDE DEF f, g
<1>2. 0 \in T
  BY <1>0, <1>1
<1>3. \A i \in 0 .. SeqLen - 1 : i \in T => i + 1 \in T
  <2> SUFFICES ASSUME NEW i \in 0 .. SeqLen - 1, i \in T PROVE i + 1 \in T
    OBVIOUS
  <2> DEFINE j == SeqLen - (i + 1)
  <2>1. j \in 0 .. SeqLen - 1 /\ j \in 0 .. SeqLen /\ j + 1 = SeqLen - i /\ i + 1 \in 0 .. SeqLen
    BY <1>0
  <2>2. f[j + 1] = g[j + 1]
    BY <2>1
  <2> HIDE DEF j
  <2>3. f[j] \div ByteMod = g[j] \div ByteMod /\ f[j] % ByteMod = g[j] % ByteMod
    BY <1>1, <2>1, <2>2
  <2>4. f[j] \in Int /\ g[j] \in Int
    BY <1>1, <2>1
  <2> DEFINE u == f[j]
             v == g[j]
  <2>5. u \in Int /\ v \in Int /\ u \div ByteMod = v \div ByteMod /\ u % ByteMod = v % ByteMod
    BY <2>3, <2>4
  <2> HIDE DEF u, v
  <2>6. u = ByteMod * (u \div ByteMod) + (u % ByteMod) /\ v = ByteMod * (v \div ByteMod) + (v % ByteMod)
    BY <1>0, <2>5, Rest
  <2>7. u = v
    BY <2>5, <2>6
  <2> QED
    BY <2>1, <2>7 DEF u, v, j
<1> HIDE DEF T
<1>4. 0 .. SeqLen \subseteq T
  BY <1>0, <1>2, <1>3, BoundedInduction
<1>5. f[SeqLen - SeqLen] = g[SeqLen - SeqLen]
  BY <1>0, <1>4 DEF T
<1> QED
  BY <1>0, <1>1, <1>5

\* Under one IV, no two sequence numbers that fit give the same nonce.
LEMMA NonceInjective ==
  ASSUME NEW iv \in [1 .. NonceLen -> Byte], NEW s \in Nat, NEW t \in Nat,
         Shifted(s)[SeqLen] = Shifted(t)[SeqLen], Nonce(iv, s) = Nonce(iv, t)
  PROVE  s = t
<1>0. SeqLen \in Nat /\ ByteMod \in Nat \ {0} /\ NonceLen \in Nat /\ SeqLen <= NonceLen
  BY AeadAssumption
<1>1. ASSUME NEW i \in 0 .. SeqLen - 1 PROVE Shifted(s)[i] % ByteMod = Shifted(t)[i] % ByteMod
  <2> DEFINE k == NonceLen - i
             p == Shifted(s)[i] % ByteMod
             q == Shifted(t)[i] % ByteMod
  <2>1. k \in 1 .. NonceLen /\ ~(k <= NonceLen - SeqLen) /\ NonceLen - k = i /\ i \in 0 .. SeqLen
    BY <1>0
  <2>2. p \in Byte /\ q \in Byte
    <3>1. Shifted(s)[i] \in Int /\ Shifted(t)[i] \in Int
      BY <2>1, ShiftedType
    <3> QED
      BY <1>0, <3>1, Rest DEF Byte
  <2> HIDE DEF k
  <2>3. Nonce(iv, s)[k] = ByteXor(iv[k], p) /\ Nonce(iv, t)[k] = ByteXor(iv[k], q)
    BY <2>1 DEF Nonce
  <2>4. iv[k] \in Byte
    BY <2>1
  <2> HIDE DEF p, q
  <2>5. ByteXor(iv[k], p) = ByteXor(iv[k], q)
    BY <2>3
  <2>6. ByteXor(iv[k], ByteXor(iv[k], p)) = p /\ ByteXor(iv[k], ByteXor(iv[k], q)) = q
    BY <2>2, <2>4, XorAssumption
  <2>7. p = q
    BY <2>5, <2>6
  <2> QED
    BY <2>7 DEF p, q
<1> QED
  BY <1>1, BytesDetermine

-----------------------------------------------------------------------------
(* nd_chacha20_xor and the input of Poly1305                               *)

\* The blocks of a message begin at 1 and do not come around to block 0.
LEMMA CounterAfterKey ==
  ASSUME NEW i \in 1 .. StreamLen * (CounterMod - 1)
  PROVE  Counter(i) # 0
<1> DEFINE w == StreamLen
           c == CounterMod
           q == (i - 1) \div w
           r == (i - 1) % w
<1>0. w \in Nat \ {0} /\ c \in Nat \ {0} /\ i \in 1 .. w * (c - 1)
  BY AeadAssumption
<1>1. i - 1 = w * q + r /\ q \in Int /\ r \in 0 .. w - 1
  <2>1. i - 1 \in Int
    OBVIOUS
  <2> HIDE DEF w
  <2> QED
    BY <1>0, <2>1, Rest
<1>a. Counter(i) = (1 + q) % c
  BY DEF Counter
<1> HIDE DEF w, c, q, r
<1>2. ~(c - 1 <= q)
  <2> SUFFICES ASSUME c - 1 <= q PROVE FALSE
    OBVIOUS
  <2>1. w * (c - 1) <= w * q
    BY <1>0, <1>1, TimesMonotonic
  <2>2. w * (c - 1) \in Int /\ w * q \in Int
    BY <1>0, <1>1
  <2> QED
    BY <1>0, <1>1, <2>1, <2>2
<1>3. ~(q <= -1)
  <2> SUFFICES ASSUME q <= -1 PROVE FALSE
    OBVIOUS
  <2>1. w * q <= w * (-1)
    BY <1>0, <1>1, TimesMonotonic
  <2>2. w * (-1) = -w /\ w * q \in Int
    BY <1>0, <1>1
  <2> QED
    BY <1>0, <1>1, <2>1, <2>2
<1>4. 1 + q \in 1 .. c - 1
  BY <1>0, <1>1, <1>2, <1>3
<1> DEFINE d == (1 + q) \div c
           m == (1 + q) % c
<1>5. m \in 0 .. c - 1 /\ d \in Int /\ 1 + q = c * d + m
  <2>1. 1 + q \in Int
    BY <1>1
  <2> QED
    BY <1>0, <2>1, Rest
<1> HIDE DEF d, m
<1>6. m = 1 + q
  <2>1. c * d + m = c * 0 + (1 + q) /\ 1 + q \in 0 .. c - 1 /\ 0 \in Int
    BY <1>0, <1>4, <1>5
  <2>2. d \in Int /\ m \in 0 .. c - 1
    BY <1>5
  <2> QED
    BY <1>0, <2>1, <2>2, RestUnique
<1> QED
  BY <1>4, <1>6, <1>a DEF m

\* Encrypting a ciphertext again under the same key and nonce decrypts it.
LEMMA ChachaTwice ==
  ASSUME NEW key, NEW nonce, NEW plain \in Seq(TextByte)
  PROVE  /\ ChachaXor(key, nonce, ChachaXor(key, nonce, plain)) = plain
         /\ Len(ChachaXor(key, nonce, plain)) = Len(plain)
         /\ ChachaXor(key, nonce, plain)
              = [i \in 1 .. Len(plain) |-> ChachaXor(key, nonce, plain)[i]]
<1> DEFINE n == Len(plain)
           k(i) == <<key, nonce, Counter(i), (i - 1) % StreamLen>>
           ct == ChachaXor(key, nonce, plain)
<1>0. n \in Nat /\ plain = [i \in 1 .. n |-> plain[i]]
  BY LenProperties
<1>1. ct = [i \in 1 .. n |-> Mask(plain[i], k(i))]
  BY DEF ChachaXor
<1>2. Len(ct) = n /\ \A i \in 1 .. n : ct[i] = Mask(plain[i], k(i))
  BY <1>0, <1>1
<1> HIDE DEF n, k, ct
<1>3. ASSUME NEW i \in 1 .. n PROVE Mask(ct[i], k(i)) = plain[i]
  <2>1. plain[i] \in TextByte
    BY DEF n
  <2>2. plain[i][1] # "xor"
    BY <2>1 DEF TextByte
  <2>3. ct[i] = <<"xor", plain[i], k(i)>>
    BY <1>2, <2>2 DEF Mask
  <2> QED
    BY <2>3 DEF Mask
<1>4. ChachaXor(key, nonce, ct) = [i \in 1 .. n |-> Mask(ct[i], k(i))]
  BY <1>2 DEF ChachaXor, k
<1>5. ChachaXor(key, nonce, ct) = plain
  BY <1>0, <1>3, <1>4
<1>6. ct = [i \in 1 .. n |-> ct[i]]
  BY <1>1
<1> QED
  BY <1>2, <1>5, <1>6 DEF ct, n

ZeroByte == <<"zero", 0>>

PadCount(n) == (MacLen - (n % MacLen)) % MacLen

LEMMA PadProperties ==
  ASSUME NEW S, ZeroByte \in S, NEW s \in Seq(S)
  PROVE  /\ Pad(s) \in Seq(S)
         /\ PadCount(Len(s)) \in Nat
         /\ Len(Pad(s)) = Len(s) + PadCount(Len(s))
         /\ \A i \in 1 .. Len(s) : Pad(s)[i] = s[i]
<1> DEFINE n == PadCount(Len(s))
           z == [i \in 1 .. n |-> ZeroByte]
<1>1. n \in Nat
  <2>1. MacLen \in Nat \ {0} /\ Len(s) \in Nat
    BY AeadAssumption
  <2>2. MacLen - (Len(s) % MacLen) \in Int
    BY <2>1
  <2> QED
    BY <2>1, <2>2, Rest DEF PadCount
<1>a. Pad(s) = s \o z
  BY DEF Pad, PadCount, ZeroByte
<1> HIDE DEF n
<1>2. z \in Seq(S) /\ Len(z) = n
  BY <1>1
<1> HIDE DEF z
<1>3. /\ s \o z \in Seq(S) /\ Len(s \o z) = Len(s) + Len(z)
      /\ \A i \in 1 .. Len(s) : (s \o z)[i] = s[i]
  BY <1>2
<1> QED
  BY <1>1, <1>2, <1>3, <1>a DEF n

\* Header and ciphertext can be told from the input of the MAC.
LEMMA MacInputInjective ==
  ASSUME NEW S, NEW a \in Seq(S), NEW c \in Seq(S), NEW a2 \in Seq(S), NEW c2 \in Seq(S),
         MacInput(a, c) = MacInput(a2, c2)
  PROVE  a = a2 /\ c = c2
<1> DEFINE R == S \cup {ZeroByte} \cup {<<"len", n>> : n \in Nat}
           Lens(x, y) == <<<<"len", Len(x)>>, <<"len", Len(y)>>>>
<1>1. ASSUME NEW x \in Seq(S), NEW y \in Seq(S)
      PROVE  /\ Len(x) \in Nat /\ Len(y) \in Nat
             /\ PadCount(Len(x)) \in Nat /\ PadCount(Len(y)) \in Nat
             /\ Len(MacInput(x, y))
                  = Len(x) + PadCount(Len(x)) + Len(y) + PadCount(Len(y)) + 2
             /\ \A i \in 1 .. Len(x) : MacInput(x, y)[i] = x[i]
             /\ \A i \in 1 .. Len(y) : MacInput(x, y)[Len(x) + PadCount(Len(x)) + i] = y[i]
             /\ MacInput(x, y)[Len(MacInput(x, y)) - 1] = <<"len", Len(x)>>
             /\ MacInput(x, y)[Len(MacInput(x, y))] = <<"len", Len(y)>>
  <2> DEFINE P == Pad(x)
             Q == Pad(y)
             L == Lens(x, y)
             J == P \o Q
             M == J \o L
             p == Len(x) + PadCount(Len(x))
             q == Len(y) + PadCount(Len(y))
  <2>0. ZeroByte \in R /\ S \subseteq R /\ Len(x) \in Nat /\ Len(y) \in Nat
    OBVIOUS
  <2>a. L \in Seq(R) /\ Len(L) = 2 /\ L[1] = <<"len", Len(x)>> /\ L[2] = <<"len", Len(y)>>
    BY <2>0
  <2> HIDE DEF R, L
  <2>1. x \in Seq(R) /\ y \in Seq(R)
    BY <2>0
  <2>2. /\ P \in Seq(R) /\ PadCount(Len(x)) \in Nat /\ Len(P) = p
        /\ \A i \in 1 .. Len(x) : P[i] = x[i]
    BY <2>0, <2>1, PadProperties
  <2>3. /\ Q \in Seq(R) /\ PadCount(Len(y)) \in Nat /\ Len(Q) = q
        /\ \A i \in 1 .. Len(y) : Q[i] = y[i]
    BY <2>0, <2>1, PadProperties
  <2>4. p \in Nat /\ q \in Nat /\ Len(x) <= p /\ Len(y) <= q
    BY <2>0, <2>2, <2>3
  <2> HIDE DEF P, Q, p, q
  <2>5. /\ J \in Seq(R) /\ Len(J) = p + q
        /\ \A i \in 1 .. p : J[i] = P[i]
        /\ \A i \in 1 .. q : J[p + i] = Q[i]
    <3>1. /\ J \in Seq(R) /\ Len(J) = Len(P) + Len(Q)
          /\ \A i \in 1 .. Len(P) : J[i] = P[i]
          /\ \A i \in 1 .. Len(Q) : J[Len(P) + i] = Q[i]
      <4>1. P \in Seq(R) /\ Q \in Seq(R)
        BY <2>2, <2>3
      <4> QED
        BY <4>1
    <3> HIDE DEF J
    <3> QED
      BY <2>2, <2>3, <3>1
  <2> HIDE DEF J
  <2>6. /\ M \in Seq(R) /\ Len(M) = p + q + 2
        /\ \A i \in 1 .. p + q : M[i] = J[i]
        /\ \A i \in 1 .. 2 : M[p + q + i] = L[i]
    <3>1. /\ M \in Seq(R) /\ Len(M) = Len(J) + Len(L)
          /\ \A i \in 1 .. Len(J) : M[i] = J[i]
          /\ \A i \in 1 .. Len(L) : M[Len(J) + i] = L[i]
      <4>1. J \in Seq(R) /\ L \in Seq(R)
        BY <2>5, <2>a
      <4> QED
        BY <4>1
    <3> HIDE DEF M
    <3> QED
      BY <2>5, <2>a, <3>1
  <2>7. MacInput(x, y) = M
    BY DEF MacInput, M, J, P, Q, L
  <2> HIDE DEF M
  <2>8. ASSUME NEW i \in 1 .. Len(x) PROVE M[i] = x[i]
    <3>1. i \in 1 .. p /\ i \in 1 .. p + q
      BY <2>0, <2>4
    <3> QED
      BY <2>2, <2>5, <2>6, <3>1
  <2>9. ASSUME NEW i \in 1 .. Len(y) PROVE M[p + i] = y[i]
    <3>1. i \in 1 .. q /\ p + i \in 1 .. p + q
      BY <2>0, <2>4
    <3> QED
      BY <2>3, <2>5, <2>6, <3>1
  <2>10. M[Len(M) - 1] = <<"len", Len(x)>> /\ M[Len(M)] = <<"len", Len(y)>>
    <3>1. Len(M) - 1 = p + q + 1 /\ Len(M) = p + q + 2 /\ 1 \in 1 .. 2 /\ 2 \in 1 .. 2
      BY <2>4, <2>6
    <3> QED
      BY <2>6, <2>a, <3>1
  <2>11. Len(M) = Len(x) + PadCount(Len(x)) + Len(y) + PadCount(Len(y)) + 2
    BY <2>0, <2>2, <2>3, <2>6 DEF p, q
  <2> QED
    BY <2>0, <2>2, <2>3, <2>7, <2>8, <2>9, <2>10, <2>11 DEF p
<1> DEFINE M == MacInput(a, c)
           N == MacInput(a2, c2)
<1>2. /\ M[Len(M) - 1] = <<"len", Len(a)>> /\ M[Len(M)] = <<"len", Len(c)>>
      /\ \A i \in 1 .. Len(a) : M[i] = a[i]
      /\ \A i \in 1 .. Len(c) : M[Len(a) + PadCount(Len(a)) + i] = c[i]
  BY <1>1
<1>3. /\ N[Len(N) - 1] = <<"len", Len(a2)>> /\ N[Len(N)] = <<"len", Len(c2)>>
      /\ \A i \in 1 .. Len(a2) : N[i] = a2[i]
      /\ \A i \in 1 .. Len(c2) : N[Len(a2) + PadCount(Len(a2)) + i] = c2[i]
  BY <1>1
<1>4. M = N
  OBVIOUS
<1> HIDE DEF M, N
<1>5. Len(a) = Len(a2) /\ Len(c) = Len(c2)
  BY <1>2, <1>3, <1>4
<1>6. \A i \in 1 .. Len(a) : a[i] = a2[i]
  BY <1>2, <1>3, <1>4, <1>5
<1>7. \A i \in 1 .. Len(c) : c[i] = c2[i]
  BY <1>2, <1>3, <1>4, <1>5
<1> QED
  BY <1>5, <1>6, <1>7, SeqEqual

-----------------------------------------------------------------------------
(* nd_record_protect                                                       *)

\* A record is what nd_record_protect makes of its number, header and contents.
RecordsAreSealings ==
  \A rec \in sealed :
    /\ rec.key \in WriteKey /\ rec.aad \in Aad /\ rec.plain \in Plain
    /\ rec.seq \in 0 .. MaxSealed - 1
    /\ rec.nonce = Nonce(Iv[rec.key], rec.seq)
    /\ rec.ct = ChachaXor(rec.key, rec.nonce, rec.plain)
    /\ rec.tag = Tag(rec.key, rec.nonce, rec.aad, rec.ct)

\* The number of the next record under a key is larger than all before.
NumbersBelowNext == \A rec \in sealed : rec.seq < Cardinality(Under(rec.key))

NumbersOnce == \A r1, r2 \in sealed : r1.key = r2.key /\ r1.seq = r2.seq => r1 = r2

\* The inductive invariant of sealing: nonces are distinct because numbers are,
\* and these are because the next one is beyond all that were used.
SealInv ==
  IsFiniteSet(sealed) /\ RecordsAreSealings /\ NumbersBelowNext /\ NumbersOnce

\* next_send_sequence after a record
LEMMA UnderGrows ==
  ASSUME NEW key, NEW rec, IsFiniteSet(sealed), rec \notin sealed, rec.key = key,
         sealed' = sealed \cup {rec}
  PROVE  /\ Cardinality(Under(key)) \in Nat
         /\ Cardinality(Under(key)') = Cardinality(Under(key)) + 1
         /\ \A k : k # key => Under(k)' = Under(k)
<1>1. IsFiniteSet(Under(key))
  BY FS_Subset DEF Under
<1>2. Under(key)' = Under(key) \cup {rec} /\ rec \notin Under(key)
  BY DEF Under
<1>3. \A k : k # key => Under(k)' = Under(k)
  BY DEF Under
<1>4. Cardinality(Under(key)) \in Nat
  BY <1>1, FS_CardinalityType
<1>5. Cardinality(Under(key) \cup {rec}) = Cardinality(Under(key)) + 1
  BY <1>1, <1>2, FS_AddElement
<1> QED
  BY <1>2, <1>3, <1>4, <1>5

\* The records under a key are numbered from zero without repetition, and each
\* is what nd_record_protect makes of its number, header and contents.
THEOREM SealInvariance == SealSpec => []SealInv
<1>1. SealInit => SealInv
  BY FS_EmptySet DEF SealInit, SealInv, RecordsAreSealings, NumbersBelowNext, NumbersOnce
<1>2. SealInv /\ [SealNext]_sealed => SealInv'
  <2> SUFFICES ASSUME SealInv, [SealNext]_sealed PROVE SealInv'
    OBVIOUS
  <2>1. ASSUME NEW key \in WriteKey, NEW aad \in Aad, NEW plain \in Plain, Seal(key, aad, plain)
        PROVE  SealInv'
    <3> DEFINE n == Cardinality(Under(key))
               nonce == Nonce(Iv[key], n)
               ct == ChachaXor(key, nonce, plain)
               rec == [key |-> key, seq |-> n, nonce |-> nonce, aad |-> aad, plain |-> plain,
                       ct |-> ct, tag |-> Tag(key, nonce, aad, ct)]
    <3>1. n < MaxSealed /\ sealed' = sealed \cup {rec}
      BY <2>1 DEF Seal, Encrypt
    <3>2. /\ rec.key = key /\ rec.seq = n /\ rec.aad = aad /\ rec.plain = plain
          /\ rec.nonce = Nonce(Iv[rec.key], rec.seq)
          /\ rec.ct = ChachaXor(rec.key, rec.nonce, rec.plain)
          /\ rec.tag = Tag(rec.key, rec.nonce, rec.aad, rec.ct)
      OBVIOUS
    <3> HIDE DEF rec, n
    <3>3. IsFiniteSet(sealed) /\ IsFiniteSet(sealed')
      BY <3>1, FS_AddElement DEF SealInv
    <3>4. n \in Nat
      <4>1. IsFiniteSet(Under(key))
        BY <3>3, FS_Subset DEF Under
      <4> QED
        BY <4>1, FS_CardinalityType DEF n
    <3>5. \A r \in sealed : r.key = key => r.seq # n /\ r.seq < n /\ r.seq \in Int
      BY <3>4 DEF SealInv, NumbersBelowNext, RecordsAreSealings, n
    <3>6. rec \notin sealed
      BY <3>2, <3>5
    <3>7. /\ Cardinality(Under(key)') = n + 1
          /\ \A k : k # key => Under(k)' = Under(k)
      BY <3>1, <3>2, <3>3, <3>6, UnderGrows DEF n
    <3>8. RecordsAreSealings'
      <4>1. rec.seq \in 0 .. MaxSealed - 1
        BY <3>1, <3>2, <3>4, SealAssumption
      <4> QED
        BY <2>1, <3>1, <3>2, <4>1 DEF SealInv, RecordsAreSealings
    <3>9. NumbersBelowNext'
      <4> SUFFICES ASSUME NEW r \in sealed' PROVE r.seq < Cardinality(Under(r.key)')
        BY DEF NumbersBelowNext
      <4>1. CASE r = rec
        BY <3>2, <3>4, <3>7, <4>1
      <4>2. CASE r \in sealed /\ r.key = key
        BY <3>4, <3>5, <3>7, <4>2
      <4>3. CASE r \in sealed /\ r.key # key
        BY <3>7, <4>3 DEF SealInv, NumbersBelowNext
      <4> QED
        BY <3>1, <4>1, <4>2, <4>3
    <3>10. NumbersOnce'
      BY <3>1, <3>2, <3>5 DEF SealInv, NumbersOnce
    <3> QED
      BY <3>3, <3>8, <3>9, <3>10 DEF SealInv
  <2>2. CASE UNCHANGED sealed
    BY <2>2 DEF SealInv, RecordsAreSealings, NumbersBelowNext, NumbersOnce, Under
  <2> QED
    BY <2>1, <2>2 DEF SealNext
<1> QED
  BY <1>1, <1>2, PTL DEF SealSpec

\* No nonce under a key, and with it no keystream block, serves two records,
\* and none serves both a record and a one-time key of Poly1305: for every
\* size of nonce, sequence number, block and counter, as long as the sequence
\* numbers fit the nonce and a record fits the counter.
THEOREM Keystream == SealSpec => []KeystreamFresh
<1>1. SealInv => KeystreamFresh
  <2> SUFFICES ASSUME SealInv PROVE KeystreamFresh
    OBVIOUS
  <2>1. ASSUME NEW r1 \in sealed, NEW r2 \in sealed, r1 # r2 PROVE Blocks(r1) \cap Blocks(r2) = {}
    <3>1. CASE r1.key # r2.key
      BY <3>1 DEF Blocks
    <3>2. CASE r1.key = r2.key
      <4> DEFINE iv == Iv[r1.key]
                 s == r1.seq
                 t == r2.seq
      <4>1. s # t /\ s \in 0 .. MaxSealed - 1 /\ t \in 0 .. MaxSealed - 1
        BY <2>1, <3>2 DEF SealInv, NumbersOnce, RecordsAreSealings
      <4>2. iv \in [1 .. NonceLen -> Byte]
        BY SealAssumption DEF SealInv, RecordsAreSealings
      <4>3. r1.nonce = Nonce(iv, s) /\ r2.nonce = Nonce(iv, t)
        BY <3>2 DEF SealInv, RecordsAreSealings
      <4> HIDE DEF iv, s, t
      <4>4. Shifted(s)[SeqLen] = Shifted(t)[SeqLen] /\ s \in Nat /\ t \in Nat
        BY <4>1, SealAssumption
      <4>5. r1.nonce # r2.nonce
        BY <4>1, <4>2, <4>3, <4>4, NonceInjective
      <4> QED
        BY <4>5 DEF Blocks
    <3> QED
      BY <3>1, <3>2
  <2>2. ASSUME NEW r1 \in sealed, NEW r2 \in sealed
        PROVE  OneTimeKey(r1.key, r1.nonce) \notin Blocks(r2)
    <3>1. Len(r2.plain) <= StreamLen * (CounterMod - 1) /\ Len(r2.plain) \in Nat
      BY SealAssumption DEF SealInv, RecordsAreSealings
    <3>2. StreamLen * (CounterMod - 1) \in Int
      BY AeadAssumption
    <3>3. \A i \in 1 .. Len(r2.plain) : i \in 1 .. StreamLen * (CounterMod - 1)
      BY <3>1, <3>2
    <3>4. \A i \in 1 .. Len(r2.plain) : Counter(i) # 0
      BY <3>3, CounterAfterKey
    <3> QED
      BY <3>4 DEF Blocks, OneTimeKey
  <2> QED
    BY <2>1, <2>2 DEF KeystreamFresh
<1> QED
  BY SealInvariance, <1>1, PTL

\* What nd_record_protect sealed opens to what went in, and nothing else opens
\* that the records sealed can be taken apart and put together to: another
\* key, nonce or header, a shortened ciphertext, bytes moved across.
THEOREM Authenticity == SealSpec => []OpensOnlySealed
<1>1. SealInv => OpensOnlySealed
  <2> SUFFICES ASSUME SealInv, NEW r1 \in sealed, NEW r2 \in sealed,
                      NEW aad \in Aad \cup {r1.ct},
                      NEW ct \in {r1.ct, r2.ct, r2.aad, SubSeq(r2.ct, 1, Len(r2.ct) - 1)}
               PROVE  LET opened == Decrypt(r1.key, r1.nonce, aad, ct, r2.tag)
                      IN  IF r1 = r2 /\ aad = r1.aad /\ ct = r1.ct
                          THEN opened = [ok |-> TRUE, plaintext |-> r1.plain]
                          ELSE opened.ok => <<r1.key, r1.nonce, aad, ct>>
                                              = <<r2.key, r2.nonce, r2.aad, r2.ct>>
    BY DEF OpensOnlySealed
  <2> DEFINE S == TextByte \cup {r.ct[i] : r \in sealed, i \in Nat}
  <2>1. ASSUME NEW r \in sealed
        PROVE  /\ r.ct \in Seq(S) /\ r.aad \in Seq(S) /\ r.plain \in Seq(TextByte)
               /\ r.tag = Tag(r.key, r.nonce, r.aad, r.ct)
               /\ ChachaXor(r.key, r.nonce, r.ct) = r.plain
    <3>1. /\ r.plain \in Seq(TextByte) /\ r.aad \in Seq(TextByte)
          /\ r.ct = ChachaXor(r.key, r.nonce, r.plain)
          /\ r.tag = Tag(r.key, r.nonce, r.aad, r.ct)
      BY SealAssumption DEF SealInv, RecordsAreSealings
    <3>2. /\ ChachaXor(r.key, r.nonce, r.ct) = r.plain
          /\ r.ct = [i \in 1 .. Len(r.plain) |-> r.ct[i]]
          /\ Len(r.plain) \in Nat
      BY <3>1, ChachaTwice
    <3>3. \A i \in 1 .. Len(r.plain) : r.ct[i] \in S
      BY <3>2
    <3>4. TextByte \subseteq S
      OBVIOUS
    <3> HIDE DEF S
    <3>5. r.ct \in [1 .. Len(r.plain) -> S]
      BY <3>2, <3>3
    <3>6. r.ct \in Seq(S)
      BY <3>2, <3>5
    <3>7. r.aad \in Seq(S)
      BY <3>1, <3>4
    <3> QED
      BY <3>1, <3>2, <3>6, <3>7
  <2>2. TextByte \subseteq S
    OBVIOUS
  <2> HIDE DEF S
  <2>3. aad \in Seq(S)
    <3>1. \A h \in Aad : h \in Seq(S)
      BY <2>2, SealAssumption
    <3> QED
      BY <2>1, <3>1
  <2>4. ct \in Seq(S)
    <3> DEFINE c == r2.ct
    <3>1. c \in Seq(S)
      BY <2>1
    <3> HIDE DEF c
    <3>2. SubSeq(c, 1, Len(c) - 1) \in Seq(S)
      BY <3>1
    <3> QED
      BY <2>1, <3>2 DEF c
  <2>5. CASE r1 = r2 /\ aad = r1.aad /\ ct = r1.ct
    <3>1. r2.tag = Tag(r1.key, r1.nonce, aad, ct) /\ ChachaXor(r1.key, r1.nonce, ct) = r1.plain
      BY <2>1, <2>5
    <3> QED
      BY <2>5, <3>1 DEF Decrypt
  <2>6. CASE ~(r1 = r2 /\ aad = r1.aad /\ ct = r1.ct)
    <3> DEFINE opened == Decrypt(r1.key, r1.nonce, aad, ct, r2.tag)
    <3> SUFFICES ASSUME opened.ok
                 PROVE  <<r1.key, r1.nonce, aad, ct>> = <<r2.key, r2.nonce, r2.aad, r2.ct>>
      BY <2>6
    <3>1. r2.tag = Tag(r1.key, r1.nonce, aad, ct)
      BY DEF Decrypt
    <3>2. Tag(r2.key, r2.nonce, r2.aad, r2.ct) = Tag(r1.key, r1.nonce, aad, ct)
      BY <2>1, <3>1
    <3>3. r1.key = r2.key /\ r1.nonce = r2.nonce /\ MacInput(r2.aad, r2.ct) = MacInput(aad, ct)
      BY <3>2 DEF Tag, OneTimeKey
    <3>4. r2.aad \in Seq(S) /\ r2.ct \in Seq(S)
      BY <2>1
    <3>5. r2.aad = aad /\ r2.ct = ct
      BY <2>3, <2>4, <3>3, <3>4, MacInputInjective
    <3> QED
      BY <3>3, <3>5
  <2> QED
    BY <2>5, <2>6
<1> QED
  BY SealInvariance, <1>1, PTL

-----------------------------------------------------------------------------
(* Sequences whose elements are of any kind                                *)

IsSeq(s) == \E S : s \in Seq(S)

\* Equal length and equal elements
LEMMA SeqsEqual ==
  ASSUME NEW s, IsSeq(s), NEW t, IsSeq(t), Len(s) = Len(t), \A i \in 1 .. Len(s) : s[i] = t[i]
  PROVE  s = t
<1>1. PICK S : s \in Seq(S)
  BY DEF IsSeq
<1>2. PICK R : t \in Seq(R)
  BY DEF IsSeq
<1>3. s \in Seq(S \cup R) /\ t \in Seq(S \cup R)
  BY <1>1, <1>2
<1> QED
  BY <1>3, SeqEqual

\* The sequence u is s and then t.
Joined(u, s, t) ==
  /\ IsSeq(u) /\ Len(s) \in Nat /\ Len(t) \in Nat
  /\ Len(u) = Len(s) + Len(t)
  /\ \A i \in 1 .. Len(s) : u[i] = s[i]
  /\ \A i \in 1 .. Len(t) : u[Len(s) + i] = t[i]

\* Concatenation joins its two parts.
LEMMA Cat ==
  ASSUME NEW s, IsSeq(s), NEW t, IsSeq(t)
  PROVE  Joined(s \o t, s, t)
<1>1. PICK S : s \in Seq(S)
  BY DEF IsSeq
<1>2. PICK R : t \in Seq(R)
  BY DEF IsSeq
<1> DEFINE U == S \cup R
           u == s \o t
<1>3. s \in Seq(U) /\ t \in Seq(U) /\ Len(s) \in Nat /\ Len(t) \in Nat
  BY <1>1, <1>2
<1> HIDE DEF U
<1>4. /\ u \in Seq(U) /\ Len(u) = Len(s) + Len(t)
      /\ \A i \in 1 .. Len(s) + Len(t) : u[i] = IF i <= Len(s) THEN s[i] ELSE t[i - Len(s)]
  BY <1>3, ConcatProperties
<1> HIDE DEF u
<1>5. \A i \in 1 .. Len(s) : u[i] = s[i]
  BY <1>3, <1>4
<1>6. ASSUME NEW i \in 1 .. Len(t) PROVE u[Len(s) + i] = t[i]
  <2>1. /\ Len(s) + i \in 1 .. Len(s) + Len(t) /\ ~ Len(s) + i <= Len(s)
        /\ Len(s) + i - Len(s) = i
    BY <1>3
  <2> QED
    BY <1>4, <2>1
<1>7. IsSeq(u)
  BY <1>4 DEF IsSeq
<1> QED
  BY <1>3, <1>4, <1>5, <1>6, <1>7 DEF u, Joined

\* What is joined can be taken apart again where the lengths agree.
LEMMA CatCancel ==
  ASSUME NEW s1, IsSeq(s1), NEW s2, IsSeq(s2), NEW t1, IsSeq(t1), NEW t2, IsSeq(t2),
         Len(s1) = Len(s2)
  PROVE  s1 \o t1 = s2 \o t2 => s1 = s2 /\ t1 = t2
<1> DEFINE u == s1 \o t1
           v == s2 \o t2
<1>1. Joined(u, s1, t1) /\ Joined(v, s2, t2)
  BY Cat
<1> HIDE DEF u, v
<1>2. SUFFICES ASSUME u = v PROVE s1 = s2 /\ t1 = t2
  BY DEF u, v
<1>3. Len(t1) = Len(t2)
  BY <1>1, <1>2 DEF Joined
<1>4. \A i \in 1 .. Len(s1) : s1[i] = s2[i]
  BY <1>1, <1>2 DEF Joined
<1>5. \A i \in 1 .. Len(t1) : t1[i] = t2[i]
  BY <1>1, <1>2, <1>3 DEF Joined
<1> QED
  BY <1>3, <1>4, <1>5, SeqsEqual

\* A sequence given by a formula for its elements
LEMMA Listed ==
  ASSUME NEW n \in Nat, NEW f, f = [i \in 1 .. n |-> f[i]]
  PROVE  IsSeq(f) /\ Len(f) = n
<1>1. f \in Seq({f[i] : i \in 1 .. n}) /\ Len(f) = n
  OBVIOUS
<1> QED
  BY <1>1 DEF IsSeq

\* A run of zero bytes
LEMMA ZerosType ==
  ASSUME NEW n \in Nat
  PROVE  IsSeq(Zeros(n)) /\ Len(Zeros(n)) = n /\ \A i \in 1 .. n : Zeros(n)[i] = Lit(0)
<1> DEFINE z == Zeros(n)
<1>1. z = [i \in 1 .. n |-> z[i]] /\ \A i \in 1 .. n : z[i] = Lit(0)
  BY DEF Zeros
<1> HIDE DEF z
<1>2. IsSeq(z) /\ Len(z) = n
  BY <1>1, Listed
<1> QED
  BY <1>1, <1>2 DEF z

\* A number in n bytes
LEMMA BigEndianType ==
  ASSUME NEW n \in Nat, NEW v
  PROVE  IsSeq(BigEndian(n, v)) /\ Len(BigEndian(n, v)) = n
<1> DEFINE z == BigEndian(n, v)
<1>1. z = [i \in 1 .. n |-> z[i]]
  BY DEF BigEndian
<1> HIDE DEF z
<1>2. IsSeq(z) /\ Len(z) = n
  BY <1>1, Listed
<1> QED
  BY <1>2 DEF z

\* A sequence of one element
LEMMA One ==
  ASSUME NEW x
  PROVE  IsSeq(<<x>>) /\ Len(<<x>>) = 1 /\ <<x>>[1] = x
<1>1. <<x>> \in Seq({x}) /\ Len(<<x>>) = 1 /\ <<x>>[1] = x
  OBVIOUS
<1> QED
  BY <1>1 DEF IsSeq

\* The empty sequence
LEMMA Empty == IsSeq(<<>>) /\ Len(<<>>) = 0
<1>1. <<>> \in Seq({}) /\ Len(<<>>) = 0
  OBVIOUS
<1> QED
  BY <1>1 DEF IsSeq

-----------------------------------------------------------------------------
(* The hash is injective, as the compression function is.                  *)

\* The padding of a message: a one bit, zeros, and the count
LEMMA PaddedShape ==
  ASSUME NEW S, NEW m \in Seq(S)
  PROVE  \E k \in Nat :
           /\ Padded(m) = m \o <<Lit(128)>> \o Zeros(k) \o BigEndian(CountLen, 8 * Len(m))
           /\ (Len(m) + 1 + k + CountLen) % BlockLen = 0
<1> DEFINE len == Len(m)
           n == (len + 1) \div BlockLen
           b == (len + 1) % BlockLen
           Fits(k) == (len + 1 + k + CountLen) % BlockLen = 0
<1>0. len \in Nat /\ BlockLen \in Nat \ {0}
  BY BlockLenPositive
<1>1. n \in Int /\ b \in 0 .. BlockLen - 1 /\ len + 1 = BlockLen * n + b
  BY <1>0, Rest
<1>2. n \in Nat
  <2> HIDE DEF n, b, len
  <2>1. CASE n < 0
    <3>1. BlockLen * n <= BlockLen * (-1)
      BY <1>0, <1>1, <2>1, TimesMonotonic
    <3> QED
      BY <1>0, <1>1, <3>1
  <2> QED
    BY <1>1, <2>1
<1> HIDE DEF n, b
<1>3. ZeroCount(b) \in 0 .. BlockLen - 1 /\ Fits(ZeroCount(b))
      /\ ZeroCount(b) = CHOOSE k \in 0 .. BlockLen - 1 : (len + 1 + k + CountLen) % BlockLen = 0
  BY <1>0, <1>1, <1>2, ZerosFill
<1>4. Padded(m) = m \o <<Lit(128)>> \o Zeros(ZeroCount(b)) \o BigEndian(CountLen, 8 * Len(m))
  BY <1>3 DEF Padded
<1>5. ZeroCount(b) \in Nat
  BY <1>0, <1>3
<1> QED
  BY <1>3, <1>4, <1>5

\* The sequence p is the message m with k zeros in its padding.
PaddedWith(p, m, k) ==
  /\ IsSeq(p) /\ Len(p) = Len(m) + 1 + k + CountLen /\ Len(p) % BlockLen = 0
  /\ Len(m) \in Nat
  /\ \A i \in 1 .. Len(m) : p[i] = m[i]
  /\ p[Len(m) + 1] = Lit(128)
  /\ \A i \in Len(m) + 2 .. Len(m) + 1 + k : p[i] = Lit(0)

\* Every message is padded like that.
LEMMA PaddedParts ==
  ASSUME NEW m, IsSeq(m)
  PROVE  \E k \in Nat : PaddedWith(Padded(m), m, k)
<1> DEFINE l == Len(m)
<1>1. PICK S : m \in Seq(S)
  BY DEF IsSeq
<1>2. PICK k \in Nat :
           /\ Padded(m) = m \o <<Lit(128)>> \o Zeros(k) \o BigEndian(CountLen, 8 * Len(m))
           /\ (l + 1 + k + CountLen) % BlockLen = 0
  BY <1>1, PaddedShape
<1>0. CountLen \in Nat
  BY ShaAssumption
<1> DEFINE one == <<Lit(128)>>
           zeros == Zeros(k)
           count == BigEndian(CountLen, 8 * Len(m))
           m1 == m \o one
           m2 == m1 \o zeros
           m3 == m2 \o count
<1>3. IsSeq(one) /\ Len(one) = 1 /\ one[1] = Lit(128)
  BY One
<1>4. IsSeq(zeros) /\ Len(zeros) = k /\ \A i \in 1 .. k : zeros[i] = Lit(0)
  BY ZerosType
<1>5. IsSeq(count) /\ Len(count) = CountLen
  BY <1>0, BigEndianType
<1>6. Padded(m) = m3
  BY <1>2
<1> HIDE DEF count, one, zeros
<1>7. Joined(m1, m, one)
  BY <1>3, Cat
<1> HIDE DEF m1
<1>8. IsSeq(m1)
  BY <1>7 DEF Joined
<1>9. Joined(m2, m1, zeros)
  BY <1>4, <1>8, Cat
<1> HIDE DEF m2
<1>10. IsSeq(m2)
  BY <1>9 DEF Joined
<1>11. Joined(m3, m2, count)
  BY <1>5, <1>10, Cat
<1> HIDE DEF m3
<1>12. /\ l \in Nat /\ Len(m1) = l + 1 /\ m1[l + 1] = Lit(128)
       /\ \A i \in 1 .. l : m1[i] = m[i]
  BY <1>3, <1>7 DEF Joined
<1>13. /\ Len(m2) = l + 1 + k
       /\ \A i \in 1 .. l + 1 : m2[i] = m1[i]
  BY <1>4, <1>9, <1>12 DEF Joined
<1>14. ASSUME NEW i \in l + 2 .. l + 1 + k PROVE m2[i] = Lit(0)
  <2>1. i - (l + 1) \in 1 .. k /\ i = (l + 1) + (i - (l + 1))
    BY <1>12
  <2>2. m2[Len(m1) + (i - (l + 1))] = zeros[i - (l + 1)]
    BY <1>4, <1>9, <2>1 DEF Joined
  <2> QED
    BY <1>4, <1>12, <2>1, <2>2
<1>15. /\ IsSeq(m3) /\ Len(m3) = l + 1 + k + CountLen
       /\ \A i \in 1 .. l + 1 + k : m3[i] = m2[i]
  BY <1>5, <1>11, <1>13 DEF Joined
<1>16. \A i \in 1 .. l : m3[i] = m[i]
  BY <1>12, <1>13, <1>15
<1>17. m3[l + 1] = Lit(128)
  BY <1>12, <1>13, <1>15
<1>18. \A i \in l + 2 .. l + 1 + k : m3[i] = Lit(0)
  BY <1>12, <1>14, <1>15
<1>19. PaddedWith(m3, m, k)
  BY <1>2, <1>12, <1>15, <1>16, <1>17, <1>18 DEF PaddedWith
<1> QED
  BY <1>6, <1>19

\* The one bit is the last byte before the count that is not zero.
LEMMA PaddedInjective ==
  ASSUME NEW m, IsSeq(m), NEW n, IsSeq(n)
  PROVE  Padded(m) = Padded(n) => m = n
<1>1. PICK a \in Nat : PaddedWith(Padded(m), m, a)
  BY PaddedParts
<1>2. PICK b \in Nat : PaddedWith(Padded(n), n, b)
  BY PaddedParts
<1> DEFINE p == Padded(m)
           l == Len(m)
           k == Len(n)
           C == CountLen
<1>3. HAVE p = Padded(n)
<1>4. PaddedWith(p, m, a) /\ PaddedWith(p, n, b)
  BY <1>1, <1>2, <1>3
<1>5. Lit(128) # Lit(0)
  BY DEF Lit
<1> HIDE DEF p
<1>0. l \in Nat /\ k \in Nat /\ C \in Nat
  BY <1>4, ShaAssumption DEF PaddedWith
<1>6. l = k
  <2>1. CASE l < k
    <3>1. k + 1 \in l + 2 .. l + 1 + a
      BY <1>0, <1>4, <2>1 DEF PaddedWith
    <3> QED
      BY <1>4, <1>5, <3>1 DEF PaddedWith
  <2>2. CASE k < l
    <3>1. l + 1 \in k + 2 .. k + 1 + b
      BY <1>0, <1>4, <2>2 DEF PaddedWith
    <3> QED
      BY <1>4, <1>5, <3>1 DEF PaddedWith
  <2> QED
    BY <1>0, <2>1, <2>2
<1>7. \A i \in 1 .. l : m[i] = n[i]
  BY <1>4, <1>6 DEF PaddedWith
<1> QED
  BY <1>6, <1>7, SeqsEqual

\* The blocks of a padded message
MessageBlocks(p) ==
  [i \in 1 .. Len(p) \div BlockLen |-> SubSeq(p, (i - 1) * BlockLen + 1, i * BlockLen)]

\* Each byte of whole blocks is in one of them.
LEMMA BlockBytes ==
  ASSUME NEW p, IsSeq(p), Len(p) % BlockLen = 0
  PROVE  \E n \in Nat :
           /\ Len(p) = BlockLen * n /\ Len(MessageBlocks(p)) = n
           /\ \A i \in 1 .. n, j \in 1 .. BlockLen : MessageBlocks(p)[i][j] = p[BlockLen * (i - 1) + j]
<1> DEFINE B == BlockLen
           L == Len(p)
           n == L \div B
           blocks == MessageBlocks(p)
<1>0. B \in Nat \ {0}
  BY BlockLenPositive
<1>1. PICK S : p \in Seq(S)
  BY DEF IsSeq
<1>2. L \in Nat /\ L % B = 0
  BY <1>1
<1> HIDE DEF L, B
<1>3. n \in Int /\ L = B * n
  BY <1>0, <1>2, Rest
<1> HIDE DEF n
<1>4. n \in Nat
  <2>1. CASE n < 0
    <3>1. B * n <= B * (-1)
      BY <1>0, <1>3, <2>1, TimesMonotonic
    <3> QED
      BY <1>0, <1>2, <1>3, <3>1
  <2> QED
    BY <1>3, <2>1
<1>5. blocks = [i \in 1 .. n |-> SubSeq(p, (i - 1) * B + 1, i * B)]
  BY DEF MessageBlocks, n, L, B
<1>6. blocks = [i \in 1 .. n |-> blocks[i]]
  BY <1>5
<1>7. ASSUME NEW i \in 1 .. n, NEW j \in 1 .. B PROVE blocks[i][j] = p[B * (i - 1) + j]
  <2> DEFINE f == B * (i - 1)
             s == SubSeq(p, f + 1, f + B)
  <2>1. /\ f \in Int /\ (i - 1) * B = f /\ i * B = f + B
        /\ B * 0 <= f /\ f + B = B * i /\ B * i <= B * n
    <3>1. B * 0 <= B * (i - 1) /\ B * i <= B * n
      BY <1>0, <1>4, TimesMonotonic
    <3> QED
      BY <1>0, <3>1
  <2>2. 0 <= f /\ f + B <= L
    BY <1>0, <1>3, <2>1
  <2>3. blocks[i] = s
    BY <1>5, <2>1
  <2> HIDE DEF f
  <2>4. f \in Nat /\ B \in Nat /\ f + B <= Len(p) /\ j \in 1 .. B /\ p \in Seq(S)
    BY <1>0, <1>1, <2>1, <2>2 DEF L
  <2>5. s[j] = p[f + j]
    BY <2>4
  <2> QED
    BY <2>3, <2>5 DEF f
<1> HIDE DEF blocks
<1>8. Len(blocks) = n
  BY <1>4, <1>6, Listed
<1> QED
  BY <1>3, <1>4, <1>7, <1>8 DEF L, B, blocks

\* Whole blocks tell the bytes they were cut from.
LEMMA BlocksInjective ==
  ASSUME NEW p, IsSeq(p), Len(p) % BlockLen = 0, NEW q, IsSeq(q), Len(q) % BlockLen = 0
  PROVE  MessageBlocks(p) = MessageBlocks(q) => p = q
<1> DEFINE B == BlockLen
           b == MessageBlocks(p)
<1>0. B \in Nat \ {0}
  BY BlockLenPositive
<1>1. PICK n \in Nat : /\ Len(p) = B * n /\ Len(MessageBlocks(p)) = n
                       /\ \A i \in 1 .. n, j \in 1 .. B : MessageBlocks(p)[i][j] = p[B * (i - 1) + j]
  BY BlockBytes
<1>2. PICK k \in Nat : /\ Len(q) = B * k /\ Len(MessageBlocks(q)) = k
                       /\ \A i \in 1 .. k, j \in 1 .. B : MessageBlocks(q)[i][j] = q[B * (i - 1) + j]
  BY BlockBytes
<1> HIDE DEF B
<1>3. HAVE MessageBlocks(p) = MessageBlocks(q)
<1>4. n = k /\ Len(p) = Len(q)
  BY <1>1, <1>2, <1>3
<1>5. ASSUME NEW x \in 1 .. Len(p) PROVE p[x] = q[x]
  <2> DEFINE i == (x - 1) \div B
             j == (x - 1) % B
  <2>1. B * n \in Nat /\ x \in Int /\ x - 1 \in Int /\ 0 <= x - 1 /\ x - 1 < B * n
    BY <1>0, <1>1
  <2>2. i \in Int /\ j \in 0 .. B - 1 /\ x - 1 = B * i + j
    BY <1>0, <2>1, Rest
  <2> HIDE DEF i, j
  <2>3. i + 1 \in 1 .. n
    <3>1. CASE i < 0
      <4>1. B * i <= B * (-1)
        BY <1>0, <2>2, <3>1, TimesMonotonic
      <4> QED
        BY <1>0, <2>1, <2>2, <4>1
    <3>2. CASE n <= i
      <4>1. B * n <= B * i
        BY <1>0, <2>2, <3>2, TimesMonotonic
      <4> QED
        BY <1>0, <2>1, <2>2, <4>1
    <3> QED
      BY <2>2, <3>1, <3>2
  <2>4. j + 1 \in 1 .. B /\ (i + 1) - 1 = i /\ x = B * i + (j + 1)
    <3>1. B * i \in Int
      BY <1>0, <2>2
    <3> QED
      BY <1>0, <2>1, <2>2, <3>1
  <2>5. MessageBlocks(p)[i + 1][j + 1] = p[B * i + (j + 1)]
    BY <1>1, <2>3, <2>4
  <2>6. MessageBlocks(q)[i + 1][j + 1] = q[B * i + (j + 1)]
    BY <1>2, <1>4, <2>3, <2>4
  <2> QED
    BY <1>3, <2>4, <2>5, <2>6
<1> QED
  BY <1>4, <1>5, SeqsEqual

\* Every byte of a digest names all blocks.
LEMMA DigestBytes ==
  ASSUME NEW m
  PROVE  /\ IsSeq(Digest(m)) /\ Len(Digest(m)) = HashLen
         /\ \A i \in 1 .. HashLen : Digest(m)[i] = <<"sha", MessageBlocks(Padded(m)), i>>
<1> DEFINE b == MessageBlocks(Padded(m))
           d == Digest(m)
<1>1. d = [i \in 1 .. HashLen |-> <<"sha", b, i>>]
  BY DEF Digest, MessageBlocks
<1> HIDE DEF b, d
<1>2. /\ d = [i \in 1 .. HashLen |-> d[i]]
      /\ \A i \in 1 .. HashLen : d[i] = <<"sha", b, i>>
  BY <1>1
<1>3. IsSeq(d) /\ Len(d) = HashLen
  BY <1>2, Listed, ShaAssumption
<1> QED
  BY <1>2, <1>3 DEF b, d

\* The first byte of a digest tells the message.
LEMMA DigestInjective ==
  ASSUME NEW m, IsSeq(m), NEW n, IsSeq(n)
  PROVE  Digest(m)[1] = Digest(n)[1] => m = n
<1> DEFINE p == Padded(m)
           q == Padded(n)
<1>1. 1 \in 1 .. HashLen
  BY ShaAssumption
<1>2. Digest(m)[1] = <<"sha", MessageBlocks(p), 1>> /\ Digest(n)[1] = <<"sha", MessageBlocks(q), 1>>
  BY <1>1, DigestBytes
<1>3. PICK a \in Nat : PaddedWith(p, m, a)
  BY PaddedParts
<1>4. PICK b \in Nat : PaddedWith(q, n, b)
  BY PaddedParts
<1>5. HAVE Digest(m)[1] = Digest(n)[1]
<1>6. MessageBlocks(p) = MessageBlocks(q)
  BY <1>2, <1>5
<1>7. p = q
  BY <1>3, <1>4, <1>6, BlocksInjective DEF PaddedWith
<1> QED
  BY <1>7, PaddedInjective

-----------------------------------------------------------------------------
(* HMAC tells key and data apart.                                          *)

\* nd_sha256_init has taken in nothing.
LEMMA InitTakes ==
  ASSUME NEW S
  PROVE  Taken(S, Sha256Init, <<>>) /\ Sha256Init.total = 0
<1> DEFINE c == [h |-> <<>>, total |-> 0, buf |-> <<>>]
<1>1. c \in [h : Seq([1 .. BlockLen -> S]), total : Nat, buf : Seq(S)]
  OBVIOUS
<1>2. c.h = <<>> /\ c.buf = <<>> /\ c.total = 0
  OBVIOUS
<1>3. Sha256Init = c
  BY DEF Sha256Init
<1> HIDE DEF c
<1> QED
  BY <1>1, <1>2, <1>3, BlockLenPositive DEF Taken

\* nd_sha256 is the digest by its definition.
LEMMA Sha256Exact ==
  ASSUME NEW m, IsSeq(m)
  PROVE  Sha256(m) = Digest(m)
<1>1. PICK S : m \in Seq(S)
  BY DEF IsSeq
<1> DEFINE c == Sha256Update(Sha256Init, m)
<1>2. Taken(S, c, <<>> \o m) /\ c.total = 0 + Len(m)
  BY <1>1, InitTakes, UpdateTakes
<1>3. <<>> \o m = m /\ 0 + Len(m) = Len(m)
  BY <1>1, ConcatEmptySeq
<1>4. Taken(S, c, m) /\ c.total = Len(m)
  BY <1>2, <1>3
<1> HIDE DEF c
<1>5. Sha256Final(c) = Digest(m)
  BY <1>4, FinalDigests
<1> QED
  BY <1>5 DEF Sha256, c

\* So is the hash of a block and then the data, as nd_hmac_sha256 takes it.
LEMMA KeyedHashExact ==
  ASSUME NEW block, IsSeq(block), NEW data, IsSeq(data)
  PROVE  KeyedHash(block, data) = Digest(block \o data)
<1>1. PICK S : block \in Seq(S)
  BY DEF IsSeq
<1>2. PICK R : data \in Seq(R)
  BY DEF IsSeq
<1> DEFINE U == S \cup R
           c == Sha256Update(Sha256Init, block)
           d == Sha256Update(c, data)
           m == block \o data
<1>3. block \in Seq(U) /\ data \in Seq(U)
  BY <1>1, <1>2
<1> HIDE DEF U
<1>4. Taken(U, c, <<>> \o block) /\ c.total = 0 + Len(block)
  BY <1>3, InitTakes, UpdateTakes
<1>5. <<>> \o block = block /\ 0 + Len(block) = Len(block)
  BY <1>3, ConcatEmptySeq
<1>6. Taken(U, c, block) /\ c.total = Len(block)
  BY <1>4, <1>5
<1> HIDE DEF c
<1>7. Taken(U, d, m) /\ d.total = Len(block) + Len(data)
  BY <1>3, <1>6, UpdateTakes
<1>8. Joined(m, block, data)
  BY Cat
<1> HIDE DEF d, m
<1>9. d.total = Len(m)
  BY <1>7, <1>8 DEF Joined
<1>10. Sha256Final(d) = Digest(m)
  BY <1>7, <1>9, FinalDigests
<1> QED
  BY <1>10 DEF KeyedHash, c, d, m

\* A value of the length of a hash, as all keys of the schedule are
Secret(k) == IsSeq(k) /\ Len(k) = HashLen

\* A padded key block is a block, and tells the bytes under the pad.
LEMMA PadsTell ==
  ASSUME NEW a, NEW b
  PROVE  /\ IsSeq(Ipad(a)) /\ Len(Ipad(a)) = BlockLen
         /\ IsSeq(Opad(a)) /\ Len(Opad(a)) = BlockLen
         /\ Opad(a) = Opad(b) => \A i \in 1 .. BlockLen : a[i] = b[i]
<1> DEFINE x == Ipad(a)
           y == Opad(a)
           z == Opad(b)
<1>1. x = [i \in 1 .. BlockLen |-> x[i]]
  BY DEF Ipad
<1>2. y = [i \in 1 .. BlockLen |-> y[i]] /\ \A i \in 1 .. BlockLen : y[i] = <<"opad", a[i]>>
  BY DEF Opad
<1>3. \A i \in 1 .. BlockLen : z[i] = <<"opad", b[i]>>
  BY DEF Opad
<1> HIDE DEF x, y, z
<1>4. IsSeq(x) /\ Len(x) = BlockLen /\ IsSeq(y) /\ Len(y) = BlockLen
  BY <1>1, <1>2, BlockLenPositive, Listed
<1>5. ASSUME y = z, NEW i \in 1 .. BlockLen PROVE a[i] = b[i]
  <2>1. <<"opad", a[i]>> = <<"opad", b[i]>>
    BY <1>2, <1>3, <1>5
  <2> QED
    BY <2>1
<1> QED
  BY <1>4, <1>5 DEF x, y, z

\* A key of the length of a hash is told by its block, filled up with zeros.
LEMMA KeyBlockTells ==
  ASSUME NEW j, Secret(j), NEW k, Secret(k), \A i \in 1 .. BlockLen : KeyBlock(j)[i] = KeyBlock(k)[i]
  PROVE  j = k
<1> DEFINE z == Zeros(BlockLen - HashLen)
           s == j \o z
           t == k \o z
<1>0. /\ BlockLen \in Nat /\ HashLen \in Nat /\ HashLen <= BlockLen /\ BlockLen - HashLen \in Nat
      /\ IsSeq(j) /\ Len(j) = HashLen /\ IsSeq(k) /\ Len(k) = HashLen
  BY ShaAssumption DEF Secret
<1>1. KeyBlock(j) = s /\ KeyBlock(k) = t
  <2>1. ~ Len(j) > BlockLen /\ ~ Len(k) > BlockLen
    BY <1>0
  <2>2. KeyBlock(j) = ZeroFilled(j) /\ KeyBlock(k) = ZeroFilled(k)
    BY <2>1, Zenon DEF KeyBlock
  <2> QED
    BY <1>0, <2>2 DEF ZeroFilled
<1>2. IsSeq(z)
  BY <1>0, ZerosType
<1> HIDE DEF z
<1>3. Joined(s, j, z) /\ Joined(t, k, z)
  BY <1>0, <1>2, Cat
<1> HIDE DEF s, t
<1>4. \A i \in 1 .. Len(j) : j[i] = k[i]
  BY <1>0, <1>1, <1>3 DEF Joined
<1> QED
  BY <1>0, <1>4, SeqsEqual

\* The outer hash is over the padded key and the inner hash, this over the
\* padded key and the data.
LEMMA HmacShape ==
  ASSUME NEW k, NEW d, IsSeq(d)
  PROVE  Hmac(k, d) = Digest(Opad(KeyBlock(k)) \o Digest(Ipad(KeyBlock(k)) \o d))
<1> DEFINE b == KeyBlock(k)
           inner == Digest(Ipad(b) \o d)
<1>1. KeyedHash(Ipad(b), d) = inner
  BY PadsTell, KeyedHashExact
<1>2. IsSeq(inner)
  BY DigestBytes
<1> HIDE DEF inner
<1>3. KeyedHash(Opad(b), inner) = Digest(Opad(b) \o inner)
  BY <1>2, PadsTell, KeyedHashExact
<1> QED
  BY <1>1, <1>3 DEF Hmac, HmacWith, inner

\* The first byte of an HMAC tells its key and its data.
LEMMA HmacTells ==
  ASSUME NEW j, Secret(j), NEW k, Secret(k), NEW c, IsSeq(c), NEW d, IsSeq(d)
  PROVE  Hmac(j, c)[1] = Hmac(k, d)[1] => j = k /\ c = d
<1> DEFINE b1 == KeyBlock(j)
           b2 == KeyBlock(k)
           i1 == Ipad(b1)
           i2 == Ipad(b2)
           o1 == Opad(b1)
           o2 == Opad(b2)
           x1 == i1 \o c
           x2 == i2 \o d
           h1 == Digest(x1)
           h2 == Digest(x2)
           y1 == o1 \o h1
           y2 == o2 \o h2
<1>1. Hmac(j, c) = Digest(y1) /\ Hmac(k, d) = Digest(y2)
  BY HmacShape
<1> HIDE DEF b1, b2
<1>2. /\ IsSeq(i1) /\ Len(i1) = BlockLen /\ IsSeq(i2) /\ Len(i2) = BlockLen
      /\ IsSeq(o1) /\ Len(o1) = BlockLen /\ IsSeq(o2) /\ Len(o2) = BlockLen
      /\ o1 = o2 => \A i \in 1 .. BlockLen : b1[i] = b2[i]
  BY PadsTell
<1> HIDE DEF i1, i2, o1, o2
<1>3. Joined(x1, i1, c) /\ Joined(x2, i2, d)
  BY <1>2, Cat
<1>4. IsSeq(h1) /\ IsSeq(h2)
  BY DigestBytes
<1>5. IsSeq(x1) /\ IsSeq(x2)
  BY <1>3 DEF Joined
<1>6. Digest(x1)[1] = Digest(x2)[1] => x1 = x2
  BY <1>5, DigestInjective
<1>7. x1 = x2 => c = d
  <2>1. IsSeq(i1) /\ IsSeq(i2) /\ Len(i1) = Len(i2)
    BY <1>2
  <2> QED
    BY <2>1, CatCancel, Zenon
<1> HIDE DEF x1, x2, h1, h2
<1>8. y1 = y2 => o1 = o2 /\ h1 = h2
  <2>1. IsSeq(o1) /\ IsSeq(o2) /\ Len(o1) = Len(o2)
    BY <1>2
  <2> QED
    BY <1>4, <2>1, CatCancel, Zenon
<1>9. Joined(y1, o1, h1) /\ Joined(y2, o2, h2)
  BY <1>2, <1>4, Cat
<1>10. IsSeq(y1) /\ IsSeq(y2)
  BY <1>9 DEF Joined
<1>11. Digest(y1)[1] = Digest(y2)[1] => y1 = y2
  BY <1>10, DigestInjective
<1>12. HAVE Hmac(j, c)[1] = Hmac(k, d)[1]
<1>13. o1 = o2 /\ h1 = h2
  BY <1>1, <1>8, <1>11, <1>12
<1>14. c = d
  BY <1>6, <1>7, <1>13 DEF h1, h2
<1>15. j = k
  BY <1>2, <1>13, KeyBlockTells DEF b1, b2
<1> QED
  BY <1>14, <1>15

\* An HMAC is of the length of a hash, and none of its bytes is a literal one.
LEMMA HmacSecret ==
  ASSUME NEW k, NEW d, IsSeq(d)
  PROVE  Secret(Hmac(k, d)) /\ \A n : Hmac(k, d)[1] # Lit(n)
<1> DEFINE m == Opad(KeyBlock(k)) \o Digest(Ipad(KeyBlock(k)) \o d)
           h == Hmac(k, d)
<1>1. h = Digest(m)
  BY HmacShape
<1> HIDE DEF m, h
<1>2. IsSeq(h) /\ Len(h) = HashLen /\ h[1] = <<"sha", MessageBlocks(Padded(m)), 1>>
  BY <1>1, DigestBytes, ShaAssumption
<1>3. \A n : h[1] # Lit(n)
  <2> DEFINE b == MessageBlocks(Padded(m))
  <2>1. h[1] = <<"sha", b, 1>>
    BY <1>2
  <2> HIDE DEF b
  <2> QED
    BY <2>1 DEF Lit
<1> QED
  BY <1>2, <1>3 DEF Secret, h

-----------------------------------------------------------------------------
(* nd_hkdf_expand                                                          *)

\* It begins with the first of them.
LEMMA FlattenFirst ==
  ASSUME NEW f, NEW n \in Nat \ {0}, Len(f) = n,
         \A i \in 1 .. n : IsSeq(f[i]), Len(f[1]) >= 1
  PROVE  FlattenSeq(f)[1] = f[1][1] /\ (n = 1 => FlattenSeq(f) = f[1])
<1>1. PICK g : /\ FlattenSeq(f) = g[n]
               /\ \A i \in 1 .. n : g[i] = IF i = 1 THEN f[i] ELSE g[i - 1] \o f[i]
  BY FlattenLoop
<1> DEFINE T == {i \in 0 .. n : i = 0 \/ (IsSeq(g[i]) /\ Len(g[i]) \in Nat
                                           /\ Len(g[i]) >= 1 /\ g[i][1] = f[1][1])}
<1>2. 0 \in T
  OBVIOUS
<1>3. g[1] = f[1] /\ IsSeq(f[1]) /\ Len(f[1]) \in Nat
  <2>1. g[1] = f[1] /\ IsSeq(f[1])
    BY <1>1
  <2>2. PICK S : f[1] \in Seq(S)
    BY <2>1 DEF IsSeq
  <2> QED
    BY <2>1, <2>2
<1>4. ASSUME NEW N \in 0 .. n - 1, N \in T PROVE N + 1 \in T
  <2>1. CASE N = 0
    BY <1>3, <2>1
  <2>2. CASE N # 0
    <3> DEFINE a == g[N]
               b == f[N + 1]
               c == a \o b
    <3>1. /\ N + 1 \in 1 .. n /\ N + 1 # 1 /\ (N + 1) - 1 = N
          /\ IsSeq(a) /\ Len(a) \in Nat /\ Len(a) >= 1 /\ a[1] = f[1][1] /\ IsSeq(b)
      BY <1>4, <2>2
    <3>2. g[N + 1] = c
      BY <1>1, <3>1
    <3> HIDE DEF a, b
    <3>3. Joined(c, a, b)
      BY <3>1, Cat
    <3> HIDE DEF c
    <3>4. IsSeq(c) /\ Len(c) \in Nat /\ Len(c) >= 1 /\ c[1] = a[1]
      BY <3>1, <3>3 DEF Joined
    <3> QED
      BY <3>1, <3>2, <3>4
  <2> QED
    BY <2>1, <2>2
<1>5. n \in T
  <2> HIDE DEF T
  <2>1. 0 .. n \subseteq T
    BY <1>2, <1>4, BoundedInduction
  <2> QED
    BY <2>1
<1> QED
  BY <1>1, <1>3, <1>5

\* The most rounds there can be, one byte of a counter
MaxRounds == 255

LEMMA MaxRoundsType == MaxRounds \in Nat /\ MaxRounds >= 1
  BY DEF MaxRounds

\* Each round is the HMAC of the one before, the info and its number.
Rounds(t, prk, info) ==
  /\ t[0] = <<>>
  /\ \A i \in 1 .. MaxRounds : t[i] = Hmac(prk, t[i - 1] \o info \o <<Lit(i)>>)

\* The loop of nd_hkdf_expand, as the sequence of its rounds
LEMMA ExpandLoop ==
  ASSUME NEW prk, NEW info, NEW len \in Nat, len <= MaxRounds * HashLen, Len(info) \in Nat, Len(info) <= InfoMax
  PROVE  \E t : /\ HkdfExpand(prk, info, len)
                     = SubSeq(FlattenSeq([i \in 1 .. (len + HashLen - 1) \div HashLen |-> t[i]]), 1, len)
                /\ Rounds(t, prk, info)
<1>0. MaxRounds \in Nat /\ MaxRounds >= 1
  BY MaxRoundsType
<1> DEFINE none == <<>>
           Step(x, i) == Hmac(prk, x \o info \o <<Lit(i)>>)
           Def(f, N) == f = [i \in 0 .. N |-> IF i = 0 THEN none ELSE Step(f[i - 1], i)]
           T == {N \in 0 .. MaxRounds : \E f : Def(f, N)}
<1> HIDE DEF Step, none
<1>1. 0 \in T
  <2> DEFINE f == [i \in 0 .. 0 |-> none]
  <2>1. Def(f, 0)
    OBVIOUS
  <2> HIDE DEF Def, f
  <2> QED
    BY <1>0, <2>1
<1>2. ASSUME NEW N \in 0 .. MaxRounds - 1, N \in T PROVE N + 1 \in T
  <2>1. PICK f : Def(f, N)
    BY <1>2
  <2>2. \A i \in 0 .. N : f[i] = IF i = 0 THEN none ELSE Step(f[i - 1], i)
    BY <2>1
  <2> DEFINE g == [i \in 0 .. N + 1 |-> IF i <= N THEN f[i] ELSE Step(f[N], N + 1)]
             h == [i \in 0 .. N + 1 |-> IF i = 0 THEN none ELSE Step(g[i - 1], i)]
  <2>3. ASSUME NEW i \in 0 .. N + 1 PROVE g[i] = h[i]
    <3>1. CASE i = 0
      BY <1>0, <2>2, <3>1
    <3>2. CASE i \in 1 .. N
      <4>1. g[i] = f[i] /\ g[i - 1] = f[i - 1]
        BY <1>0, <3>2
      <4> HIDE DEF g, h
      <4>2. f[i] = Step(f[i - 1], i)
        BY <1>0, <2>2, <3>2
      <4> QED
        BY <4>1, <4>2, <3>2 DEF h
    <3>3. CASE i = N + 1
      <4>1. g[i] = Step(f[N], i) /\ g[i - 1] = f[N] /\ i # 0
        BY <1>0, <3>3
      <4> QED
        BY <4>1
    <3> QED
      BY <1>0, <3>1, <3>2, <3>3
  <2>4. g = h
    BY <2>3
  <2>5. Def(g, N + 1)
    BY <2>4
  <2> HIDE DEF Def, g
  <2> QED
    BY <1>0, <2>5
<1>3. MaxRounds \in T
  <2> HIDE DEF T
  <2>1. 0 .. MaxRounds \subseteq T
    BY <1>0, <1>1, <1>2, BoundedInduction
  <2> QED
    BY <1>0, <2>1
<1> DEFINE t == CHOOSE f : Def(f, MaxRounds)
<1>4. Def(t, MaxRounds)
  <2>1. \E f : Def(f, MaxRounds)
    BY <1>3
  <2> HIDE DEF Def
  <2> QED
    BY <2>1
<1> USE DEF Step, none
<1>5. HkdfExpand(prk, info, len)
        = IF len > MaxRounds * HashLen \/ Len(info) > InfoMax THEN BadArg
          ELSE SubSeq(FlattenSeq([i \in 1 .. (len + HashLen - 1) \div HashLen |-> t[i]]), 1, len)
  BY Zenon DEF HkdfExpand, MaxRounds
<1> HIDE DEF t, Step, none
<1>6. \A i \in 0 .. MaxRounds : t[i] = IF i = 0 THEN none ELSE Step(t[i - 1], i)
  BY <1>4
<1>7. Rounds(t, prk, info)
  <2>1. t[0] = none
    BY <1>0, <1>6
  <2>2. \A i \in 1 .. MaxRounds : t[i] = Step(t[i - 1], i)
    BY <1>0, <1>6
  <2> QED
    BY <1>0, <2>1, <2>2 DEF Rounds, Step, none
<1>8. ~ (len > MaxRounds * HashLen \/ Len(info) > InfoMax)
  BY <1>0, ShaAssumption, HkdfAssumption
<1> QED
  BY <1>5, <1>8, <1>7

\* How many rounds the length asks for
LEMMA RoundCount ==
  ASSUME NEW H \in Nat \ {0}, NEW len \in Nat \ {0}, NEW M \in Nat, len <= M * H
  PROVE  /\ (len + H - 1) \div H \in 1 .. M
         /\ len = H => (len + H - 1) \div H = 1
<1> DEFINE a == len + H - 1
           n == a \div H
           r == a % H
<1> SUFFICES n \in 1 .. M /\ (len = H => n = 1)
  OBVIOUS
<1>1. a \in Int /\ a >= H
  OBVIOUS
<1> HIDE DEF a
<1>2. n \in Int /\ r \in 0 .. H - 1 /\ a = H * n + r
  BY <1>1, Rest
<1> HIDE DEF n, r
<1>3. CASE n <= 0
  <2>1. H * n <= H * 0
    BY <1>2, <1>3, TimesMonotonic
  <2> QED
    BY <1>1, <1>2, <2>1
<1>4. CASE M + 1 <= n
  <2>1. H * (M + 1) <= H * n
    BY <1>2, <1>4, TimesMonotonic
  <2>2. H * (M + 1) = H * M + H /\ M * H = H * M /\ H * M \in Int /\ H * n \in Int
    BY <1>2
  <2> QED
    BY <1>2, <2>1, <2>2 DEF a
<1>5. CASE len = H /\ 2 <= n
  <2>1. H * 2 <= H * n
    BY <1>2, <1>5, TimesMonotonic
  <2> QED
    BY <1>2, <1>5, <2>1 DEF a
<1> QED
  BY <1>2, <1>3, <1>4, <1>5

\* What all of the rounds together begin with
LEMMA FlattenRounds ==
  ASSUME NEW t, NEW n \in 1 .. MaxRounds, \A i \in 0 .. MaxRounds : IsSeq(t[i]), Len(t[1]) >= 1
  PROVE  /\ FlattenSeq([i \in 1 .. n |-> t[i]])[1] = t[1][1]
         /\ n = 1 => FlattenSeq([i \in 1 .. n |-> t[i]]) = t[1]
<1> DEFINE f == [i \in 1 .. n |-> t[i]]
<1>1. f = [i \in 1 .. n |-> f[i]] /\ \A i \in 1 .. n : f[i] = t[i]
  OBVIOUS
<1> HIDE DEF f
<1>2. n \in Nat \ {0} /\ f[1] = t[1] /\ Len(f[1]) >= 1
  BY <1>1, MaxRoundsType
<1>3. Len(f) = n
  BY <1>1, <1>2, Listed
<1>4. \A i \in 1 .. n : IsSeq(f[i])
  BY <1>1, MaxRoundsType
<1>5. FlattenSeq(f)[1] = f[1][1] /\ (n = 1 => FlattenSeq(f) = f[1])
  BY <1>2, <1>3, <1>4, FlattenFirst
<1> QED
  BY <1>2, <1>5 DEF f

\* The output is cut out of them.
LEMMA Cut ==
  ASSUME NEW F, NEW len \in Nat \ {0}
  PROVE  /\ Len(SubSeq(F, 1, len)) = len /\ SubSeq(F, 1, len)[1] = F[1]
         /\ IsSeq(SubSeq(F, 1, len))
         /\ IsSeq(F) /\ Len(F) = len => SubSeq(F, 1, len) = F
<1> DEFINE S == {F[i] : i \in 1 .. len}
           out == SubSeq(F, 1, len)
<1>1. \A i \in 1 .. len : F[i] \in S
  OBVIOUS
<1> HIDE DEF S
<1>2. /\ out \in Seq(S)
      /\ Len(out) = IF 1 <= len THEN len - 1 + 1 ELSE 0
      /\ \A i \in 1 .. len - 1 + 1 : out[i] = F[1 + i - 1]
  BY <1>1, SubSeqProperties
<1> HIDE DEF out
<1>3. IsSeq(out) /\ Len(out) = len /\ \A i \in 1 .. len : out[i] = F[i]
  BY <1>2 DEF IsSeq
<1>4. IsSeq(F) /\ Len(F) = len => out = F
  BY <1>3, SeqsEqual
<1> QED
  BY <1>3, <1>4 DEF out

\* All rounds are hashes, and the first one is over the info alone.
LEMMA RoundsHash ==
  ASSUME NEW prk, NEW info, IsSeq(info), NEW t, Rounds(t, prk, info)
  PROVE  /\ t[1] = Hmac(prk, info \o <<Lit(1)>>) /\ Secret(t[1])
         /\ \A i \in 0 .. MaxRounds : IsSeq(t[i])
<1>0. MaxRounds \in Nat /\ MaxRounds >= 1
  BY MaxRoundsType
<1>1. t[0] = <<>> /\ \A i \in 1 .. MaxRounds : t[i] = Hmac(prk, t[i - 1] \o info \o <<Lit(i)>>)
  BY DEF Rounds
<1>2. <<>> \o info = info
  <2>1. PICK S : info \in Seq(S)
    BY DEF IsSeq
  <2> QED
    BY <2>1, ConcatEmptySeq
<1>3. ASSUME NEW N \in 0 .. MaxRounds - 1, IsSeq(t[N]) PROVE Secret(t[N + 1])
  <2> DEFINE a == t[N] \o info
             b == <<Lit(N + 1)>>
  <2>1. Joined(a, t[N], info) /\ IsSeq(b)
    BY <1>3, Cat, One
  <2>2. N + 1 \in 1 .. MaxRounds /\ (N + 1) - 1 = N
    BY <1>0
  <2>3. t[N + 1] = Hmac(prk, a \o b)
    BY <1>1, <2>2
  <2> HIDE DEF a, b
  <2>4. IsSeq(a)
    BY <2>1 DEF Joined
  <2>5. Joined(a \o b, a, b)
    BY <2>1, <2>4, Cat
  <2>6. IsSeq(a \o b)
    BY <2>5 DEF Joined
  <2> QED
    BY <2>3, <2>6, HmacSecret
<1>4. \A i \in 0 .. MaxRounds : IsSeq(t[i])
  <2> DEFINE T == {i \in 0 .. MaxRounds : IsSeq(t[i])}
  <2>1. 0 \in T
    BY <1>0, <1>1, Empty
  <2>2. ASSUME NEW N \in 0 .. MaxRounds - 1, N \in T PROVE N + 1 \in T
    BY <1>0, <1>3, <2>2 DEF Secret
  <2> HIDE DEF T
  <2>3. 0 .. MaxRounds \subseteq T
    BY <1>0, <2>1, <2>2, BoundedInduction
  <2> QED
    BY <2>3 DEF T
<1>5. Secret(t[1])
  <2>1. 0 \in 0 .. MaxRounds - 1 /\ 0 + 1 = 1 /\ IsSeq(t[0])
    BY <1>0, <1>4
  <2>2. Secret(t[0 + 1])
    BY <1>3, <2>1
  <2> QED
    BY <2>1, <2>2
<1>6. t[1] = Hmac(prk, info \o <<Lit(1)>>)
  <2>1. 1 \in 1 .. MaxRounds /\ 1 - 1 = 0
    BY <1>0
  <2>2. t[1] = Hmac(prk, t[1 - 1] \o info \o <<Lit(1)>>)
    BY <1>1, <2>1
  <2> QED
    BY <1>1, <1>2, <2>1, <2>2
<1> QED
  BY <1>4, <1>5, <1>6

\* What HKDF-Expand begins with, and what one block of it is.
LEMMA ExpandFirst ==
  ASSUME NEW prk, NEW info, IsSeq(info), Len(info) <= InfoMax,
         NEW len \in Nat \ {0}, len <= MaxRounds * HashLen
  PROVE  /\ IsSeq(HkdfExpand(prk, info, len)) /\ Len(HkdfExpand(prk, info, len)) = len
         /\ HkdfExpand(prk, info, len)[1] = Hmac(prk, info \o <<Lit(1)>>)[1]
         /\ len = HashLen => HkdfExpand(prk, info, len) = Hmac(prk, info \o <<Lit(1)>>)
<1> DEFINE n == (len + HashLen - 1) \div HashLen
           F(t) == FlattenSeq([i \in 1 .. n |-> t[i]])
           out == HkdfExpand(prk, info, len)
           first == Hmac(prk, info \o <<Lit(1)>>)
<1>0. HashLen \in Nat \ {0} /\ Len(info) \in Nat
  <2>1. PICK S : info \in Seq(S)
    BY DEF IsSeq
  <2> QED
    BY <2>1, ShaAssumption
<1>1. PICK t : out = SubSeq(F(t), 1, len) /\ Rounds(t, prk, info)
  BY <1>0, ExpandLoop, Zenon
<1>2. n \in 1 .. MaxRounds /\ (len = HashLen => n = 1)
  BY <1>0, MaxRoundsType, RoundCount
<1> HIDE DEF n, out, first
<1>3. t[1] = first /\ Secret(t[1]) /\ \A i \in 0 .. MaxRounds : IsSeq(t[i])
  BY <1>1, RoundsHash DEF first
<1>4. IsSeq(t[1]) /\ Len(t[1]) = HashLen /\ Len(t[1]) >= 1
  BY <1>0, <1>3 DEF Secret
<1>5. F(t)[1] = t[1][1] /\ (n = 1 => F(t) = t[1])
  BY <1>2, <1>3, <1>4, FlattenRounds
<1> HIDE DEF F
<1>6. /\ IsSeq(out) /\ Len(out) = len /\ out[1] = F(t)[1]
      /\ IsSeq(F(t)) /\ Len(F(t)) = len => out = F(t)
  BY <1>1, Cut
<1>7. len = HashLen => out = first
  BY <1>2, <1>3, <1>4, <1>5, <1>6
<1> QED
  BY <1>3, <1>5, <1>6, <1>7 DEF out, first

-----------------------------------------------------------------------------
(* nd_hkdf_expand_label                                                    *)

Prefix == {Dtls13, Tls13}
Label == {DerivedLabel, ClientLabel, ServerLabel, KeyLabel, IvLabel, FinishedLabel}

\* Labels of one letter
LEMMA LetterOne ==
  ASSUME NEW x, NEW s, s = <<x>>
  PROVE  IsSeq(s) /\ Len(s) = 1 /\ s[1] = x
BY One

\* Labels of two letters
LEMMA LetterTwo ==
  ASSUME NEW x, NEW y, NEW s, s = <<x, y>>
  PROVE  IsSeq(s) /\ Len(s) = 2 /\ s[1] = x
<1>1. s \in Seq({x, y}) /\ Len(s) = 2 /\ s[1] = x
  OBVIOUS
<1> QED
  BY <1>1 DEF IsSeq

\* The first letters and the lengths of all labels and prefixes
LEMMA LabelLetters ==
  /\ IsSeq(DerivedLabel) /\ Len(DerivedLabel) = 2 /\ DerivedLabel[1] = Lit(100)
  /\ IsSeq(ClientLabel) /\ Len(ClientLabel) = 2 /\ ClientLabel[1] = Lit(99)
  /\ IsSeq(ServerLabel) /\ Len(ServerLabel) = 2 /\ ServerLabel[1] = Lit(115)
  /\ IsSeq(KeyLabel) /\ Len(KeyLabel) = 1 /\ KeyLabel[1] = Lit(107)
  /\ IsSeq(IvLabel) /\ Len(IvLabel) = 1 /\ IvLabel[1] = Lit(105)
  /\ IsSeq(FinishedLabel) /\ Len(FinishedLabel) = 1 /\ FinishedLabel[1] = Lit(102)
  /\ IsSeq(Dtls13) /\ Len(Dtls13) = 1 /\ Dtls13[1] = Lit(68)
  /\ IsSeq(Tls13) /\ Len(Tls13) = 1 /\ Tls13[1] = Lit(84)
<1>1. IsSeq(DerivedLabel) /\ Len(DerivedLabel) = 2 /\ DerivedLabel[1] = Lit(100)
  BY LetterTwo DEF DerivedLabel
<1>2. IsSeq(ClientLabel) /\ Len(ClientLabel) = 2 /\ ClientLabel[1] = Lit(99)
  BY LetterTwo DEF ClientLabel
<1>3. IsSeq(ServerLabel) /\ Len(ServerLabel) = 2 /\ ServerLabel[1] = Lit(115)
  BY LetterTwo DEF ServerLabel
<1>4. IsSeq(KeyLabel) /\ Len(KeyLabel) = 1 /\ KeyLabel[1] = Lit(107)
  BY LetterOne, Zenon DEF KeyLabel
<1>5. IsSeq(IvLabel) /\ Len(IvLabel) = 1 /\ IvLabel[1] = Lit(105)
  BY LetterOne, Zenon DEF IvLabel
<1>6. IsSeq(FinishedLabel) /\ Len(FinishedLabel) = 1 /\ FinishedLabel[1] = Lit(102)
  BY LetterOne, Zenon DEF FinishedLabel
<1>7. IsSeq(Dtls13) /\ Len(Dtls13) = 1 /\ Dtls13[1] = Lit(68)
  BY LetterOne, Zenon DEF Dtls13
<1>8. IsSeq(Tls13) /\ Len(Tls13) = 1 /\ Tls13[1] = Lit(84)
  BY LetterOne, Zenon DEF Tls13
<1> QED
  BY <1>1, <1>2, <1>3, <1>4, <1>5, <1>6, <1>7, <1>8

\* A literal byte tells its number.
LEMMA LitTells ==
  ASSUME NEW m, NEW n, Lit(m) = Lit(n)
  PROVE  m = n
BY DEF Lit

\* Labels have one or two letters, prefixes one.
LEMMA LabelType ==
  /\ \A L \in Label : IsSeq(L) /\ Len(L) \in 1 .. 2
  /\ \A p \in Prefix : IsSeq(p) /\ Len(p) = 1
BY LabelLetters DEF Label, Prefix

\* Labels and prefixes differ in the first letter.
LEMMA LabelTells ==
  /\ \A L, M \in Label : L[1] = M[1] => L = M
  /\ \A p, q \in Prefix : p[1] = q[1] => p = q
BY LabelLetters, LitTells DEF Label, Prefix

\* The label structure: four bytes of lengths, the label and the context
LEMMA InfoParts ==
  ASSUME NEW p \in Prefix, NEW L \in Label, NEW c, IsSeq(c), NEW n
  PROVE  \E head : /\ HkdfLabel(p \o L, c, n) = head \o c
                   /\ IsSeq(head) /\ Len(head) = 5 + Len(L)
                   /\ head[4] = p[1] /\ head[5] = L[1]
<1> DEFINE l == p \o L
           a == BigEndian(2, n)
           b == BigEndian(1, Len(l))
           d == BigEndian(1, Len(c))
           ab == a \o b
           abl == ab \o l
           head == abl \o d
<1>1. HkdfLabel(p \o L, c, n) = head \o c
  BY DEF HkdfLabel
<1>2. IsSeq(L) /\ Len(L) \in 1 .. 2 /\ IsSeq(p) /\ Len(p) = 1
  BY LabelType
<1>3. Joined(l, p, L)
  BY <1>2, Cat
<1>4. IsSeq(l) /\ Len(l) = 1 + Len(L) /\ l[1] = p[1] /\ l[2] = L[1]
  <2>1. IsSeq(l) /\ Len(l) = 1 + Len(L) /\ l[1] = p[1]
    BY <1>2, <1>3 DEF Joined
  <2>2. 1 \in 1 .. Len(L) /\ Len(p) + 1 = 2
    BY <1>2
  <2>3. l[Len(p) + 1] = L[1]
    BY <1>3, <2>2 DEF Joined
  <2> QED
    BY <2>1, <2>2, <2>3
<1> HIDE DEF l
<1>5. IsSeq(a) /\ Len(a) = 2 /\ IsSeq(b) /\ Len(b) = 1 /\ IsSeq(d) /\ Len(d) = 1
  BY BigEndianType
<1> HIDE DEF a, b, d
<1>6. Joined(ab, a, b)
  BY <1>5, Cat
<1>7. IsSeq(ab) /\ Len(ab) = 3
  BY <1>5, <1>6 DEF Joined
<1> HIDE DEF ab
<1>8. Joined(abl, ab, l)
  BY <1>4, <1>7, Cat
<1>9. IsSeq(abl) /\ Len(abl) = 4 + Len(L) /\ abl[4] = p[1] /\ abl[5] = L[1]
  <2>1. IsSeq(abl) /\ Len(abl) = 4 + Len(L)
    BY <1>2, <1>4, <1>7, <1>8 DEF Joined
  <2>2. 1 \in 1 .. Len(l) /\ 2 \in 1 .. Len(l) /\ Len(ab) + 1 = 4 /\ Len(ab) + 2 = 5
    BY <1>2, <1>4, <1>7
  <2>3. abl[Len(ab) + 1] = l[1] /\ abl[Len(ab) + 2] = l[2]
    BY <1>8, <2>2 DEF Joined
  <2> QED
    BY <1>4, <2>1, <2>2, <2>3
<1> HIDE DEF abl
<1>10. Joined(head, abl, d)
  BY <1>5, <1>9, Cat
<1> HIDE DEF head
<1>11. IsSeq(head) /\ Len(head) = 5 + Len(L) /\ head[4] = p[1] /\ head[5] = L[1]
  <2>1. 4 \in 1 .. Len(abl) /\ 5 \in 1 .. Len(abl)
    BY <1>2, <1>9
  <2> QED
    BY <1>2, <1>5, <1>9, <1>10, <2>1 DEF Joined
<1> QED
  BY <1>1, <1>11

\* What one round hashes tells the prefix, the label and the context.
Info(p, L, c, n) == HkdfLabel(p \o L, c, n) \o <<Lit(1)>>

\* Two equal infos have the same prefix, label and context.
LEMMA InfoTells ==
  ASSUME NEW p \in Prefix, NEW L \in Label, NEW c, IsSeq(c), NEW n,
         NEW q \in Prefix, NEW M \in Label, NEW d, IsSeq(d), NEW m
  PROVE  Info(p, L, c, n) = Info(q, M, d, m) => p = q /\ L = M /\ c = d
<1> DEFINE one == <<Lit(1)>>
           F == HkdfLabel(p \o L, c, n)
           G == HkdfLabel(q \o M, d, m)
<1>1. PICK f : F = f \o c /\ IsSeq(f) /\ Len(f) = 5 + Len(L) /\ f[4] = p[1] /\ f[5] = L[1]
  BY InfoParts
<1>2. PICK g : G = g \o d /\ IsSeq(g) /\ Len(g) = 5 + Len(M) /\ g[4] = q[1] /\ g[5] = M[1]
  BY InfoParts
<1> DEFINE x == F \o one
           y == G \o one
<1>3. Info(p, L, c, n) = x /\ Info(q, M, d, m) = y
  BY DEF Info
<1> HIDE DEF F, G
<1>4. Joined(F, f, c) /\ Joined(G, g, d)
  BY <1>1, <1>2, Cat
<1>5. IsSeq(F) /\ IsSeq(G) /\ IsSeq(one) /\ Len(one) = 1
  BY <1>4, One DEF Joined
<1> HIDE DEF one
<1>6. Joined(x, F, one) /\ Joined(y, G, one)
  BY <1>5, Cat
<1>7. Len(L) \in 1 .. 2 /\ Len(M) \in 1 .. 2
  BY LabelType
<1>8. x[4] = p[1] /\ x[5] = L[1] /\ y[4] = q[1] /\ y[5] = M[1]
  <2>1. 4 \in 1 .. Len(f) /\ 5 \in 1 .. Len(f) /\ 4 \in 1 .. Len(g) /\ 5 \in 1 .. Len(g)
    BY <1>1, <1>2, <1>7
  <2>2. F[4] = p[1] /\ F[5] = L[1] /\ G[4] = q[1] /\ G[5] = M[1]
    BY <1>1, <1>2, <1>4, <2>1 DEF Joined
  <2>3. 4 \in 1 .. Len(F) /\ 5 \in 1 .. Len(F) /\ 4 \in 1 .. Len(G) /\ 5 \in 1 .. Len(G)
    BY <1>4, <2>1 DEF Joined
  <2> HIDE DEF x, y
  <2> QED
    BY <1>6, <2>2, <2>3 DEF Joined
<1>9. ASSUME x = y PROVE p = q /\ L = M /\ c = d
  <2>1. p = q /\ L = M
    BY <1>8, <1>9, LabelTells
  <2>2. Len(F) = Len(G)
    <3> HIDE DEF x, y
    <3> QED
      BY <1>5, <1>6, <1>9 DEF Joined
  <2>3. F = G
    BY <1>5, <1>9, <2>2, CatCancel, Zenon
  <2>4. Len(f) = Len(g)
    BY <1>1, <1>2, <2>1
  <2>5. f \o c = g \o d
    BY <1>1, <1>2, <2>3
  <2>6. c = d
    BY <1>1, <1>2, <2>4, <2>5, CatCancel, Zenon
  <2> QED
    BY <2>1, <2>6
<1> QED
  BY <1>3, <1>9

\* The contexts and the lengths that the key schedule asks for
Asked(c, n) == IsSeq(c) /\ Len(c) <= HashLen /\ n \in {HashLen, AeadKeyLen, IvLen}

\* What nd_hkdf_expand_label gives out begins with the hash of its info.
LEMMA ExpandLabelFirst ==
  ASSUME NEW k, NEW p \in Prefix, NEW L \in Label, NEW c, NEW n, Asked(c, n)
  PROVE  /\ IsSeq(Info(p, L, c, n))
         /\ IsSeq(HkdfExpandLabel(k, p, L, c, n)) /\ Len(HkdfExpandLabel(k, p, L, c, n)) = n
         /\ n \in Nat \ {0}
         /\ HkdfExpandLabel(k, p, L, c, n)[1] = Hmac(k, Info(p, L, c, n))[1]
         /\ n = HashLen => HkdfExpandLabel(k, p, L, c, n) = Hmac(k, Info(p, L, c, n))
<1> DEFINE F == HkdfLabel(p \o L, c, n)
           x == HkdfExpand(k, F, n)
<1>1. HashLen \in Nat /\ n \in Nat /\ 0 < n /\ n <= 65535 /\ n <= 255 * HashLen
  BY ShaAssumption, HkdfAssumption, RoomAssumption DEF Asked
<1>2. IsSeq(c)
  BY DEF Asked
<1>0. /\ LabelMax \in Nat /\ ContextMax \in Nat /\ InfoMax \in Nat
      /\ 3 <= LabelMax /\ HashLen <= ContextMax /\ HashLen + 7 <= InfoMax
  BY HkdfAssumption, RoomAssumption
<1>3. n \in Nat \ {0} /\ ~ n > 65535
  BY <1>1
<1>4. PICK f : F = f \o c /\ IsSeq(f) /\ Len(f) = 5 + Len(L) /\ f[4] = p[1] /\ f[5] = L[1]
  BY <1>2, InfoParts
<1>5. IsSeq(L) /\ Len(L) \in 1 .. 2 /\ IsSeq(p) /\ Len(p) = 1
  BY LabelType
<1>6. Joined(p \o L, p, L)
  BY <1>5, Cat
<1>7. Len(c) \in Nat
  <2>1. PICK S : c \in Seq(S)
    BY <1>2 DEF IsSeq
  <2> QED
    BY <2>1
<1>8. Len(c) <= HashLen
  BY DEF Asked
<1>9. ~ Len(p \o L) > LabelMax /\ ~ Len(c) > ContextMax
  <2>1. Len(p \o L) = Len(p) + Len(L)
    BY <1>6 DEF Joined
  <2> DEFINE l == Len(p \o L)
             i == Len(L)
             j == Len(c)
  <2>2. l = 1 + i /\ i \in 1 .. 2 /\ j \in Nat /\ j <= HashLen
    BY <1>5, <1>7, <1>8, <2>1
  <2> HIDE DEF l, i, j
  <2>3. ~ l > LabelMax /\ ~ j > ContextMax
    BY <1>0, <1>1, <2>2
  <2> QED
    BY <2>3 DEF l, j
<1>10. HkdfExpandLabel(k, p, L, c, n) = x
  <2> DEFINE cond == Len(p \o L) > LabelMax \/ Len(c) > ContextMax \/ n > 65535
  <2>1. HkdfExpandLabel(k, p, L, c, n) = IF cond THEN BadArg ELSE x
    BY SMT DEF HkdfExpandLabel
  <2>2. ~ cond
    BY <1>3, <1>9, SMT
  <2> HIDE DEF cond, x
  <2> QED
    BY <2>1, <2>2
<1>11. Joined(F, f, c)
  BY <1>4, <1>2, Cat
<1> HIDE DEF F
<1>12. IsSeq(F) /\ Len(F) = 5 + Len(L) + Len(c)
  BY <1>4, <1>11 DEF Joined
<1>13. Len(F) <= InfoMax
  <2> DEFINE l == Len(F)
             i == Len(L)
             j == Len(c)
  <2>1. l = 5 + i + j /\ i \in 1 .. 2 /\ j \in Nat /\ j <= HashLen
    BY <1>5, <1>7, <1>8, <1>12
  <2> HIDE DEF l, i, j
  <2>2. l <= InfoMax
    BY <1>0, <1>1, <2>1
  <2> QED
    BY <2>2 DEF l
<1>14. Joined(F \o <<Lit(1)>>, F, <<Lit(1)>>)
  BY <1>12, One, Cat
<1>15. IsSeq(Info(p, L, c, n)) /\ F \o <<Lit(1)>> = Info(p, L, c, n)
  BY <1>14 DEF Joined, Info, F
<1>16. /\ IsSeq(x) /\ Len(x) = n /\ x[1] = Hmac(k, F \o <<Lit(1)>>)[1]
       /\ n = HashLen => x = Hmac(k, F \o <<Lit(1)>>)
  <2>1. n <= MaxRounds * HashLen
    BY <1>1 DEF MaxRounds
  <2> QED
    BY <1>3, <1>12, <1>13, <2>1, ExpandFirst
<1> HIDE DEF x
<1> DEFINE i == Info(p, L, c, n)
<1>17. IsSeq(x) /\ Len(x) = n /\ x[1] = Hmac(k, i)[1] /\ (n = HashLen => x = Hmac(k, i)) /\ IsSeq(i)
  BY <1>15, <1>16, Zenon
<1> HIDE DEF i
<1>18. n \in Nat \ {0}
  BY <1>3
<1> QED
  BY <1>10, <1>17, <1>18, Zenon DEF i

-----------------------------------------------------------------------------
(* The levels of the key schedule                                          *)

\* The first salt
NoSecret == Zeros(HashLen)

\* k is the HMAC of something under the key j.
HmacUnder(k, j) == \E d : IsSeq(d) /\ k = Hmac(j, d)

\* The first salt is of the length of a hash and is all literal.
LEMMA NoSecretType == Secret(NoSecret) /\ NoSecret[1] = Lit(0)
<1>1. HashLen \in Nat \ {0}
  BY ShaAssumption
<1> QED
  BY <1>1, ZerosType DEF NoSecret, Secret

\* No HMAC is the first salt.
LEMMA UnderType ==
  ASSUME NEW k, NEW j, HmacUnder(k, j)
  PROVE  Secret(k) /\ k # NoSecret
<1>1. PICK d : IsSeq(d) /\ k = Hmac(j, d)
  BY DEF HmacUnder
<1> QED
  BY <1>1, HmacSecret, NoSecretType

\* An HMAC tells its key.
LEMMA UnderTells ==
  ASSUME NEW k, NEW i, Secret(i), NEW j, Secret(j), HmacUnder(k, i), HmacUnder(k, j)
  PROVE  i = j
<1>1. PICK c : IsSeq(c) /\ k = Hmac(i, c)
  BY DEF HmacUnder
<1>2. PICK d : IsSeq(d) /\ k = Hmac(j, d)
  BY DEF HmacUnder
<1>3. Hmac(i, c)[1] = Hmac(j, d)[1]
  BY <1>1, <1>2
<1> QED
  BY <1>1, <1>2, <1>3, HmacTells

\* m HMACs lead from the first salt to k, the steps in s.
Chain(s, m) ==
  /\ s[0] = NoSecret
  /\ \A i \in 0 .. m - 1 : HmacUnder(s[i + 1], s[i])

\* What is on a chain
LEMMA ChainType ==
  ASSUME NEW m \in Nat, NEW s, Chain(s, m), NEW i \in 0 .. m
  PROVE  Secret(s[i]) /\ (i # 0 => s[i] # NoSecret)
<1>1. CASE i = 0
  BY <1>1, NoSecretType DEF Chain
<1>2. CASE i # 0
  <2>1. i - 1 \in 0 .. m - 1 /\ (i - 1) + 1 = i
    BY <1>2
  <2>2. HmacUnder(s[(i - 1) + 1], s[i - 1])
    BY <2>1 DEF Chain
  <2> QED
    BY <2>1, <2>2, UnderType
<1> QED
  BY <1>1, <1>2

\* Two chains that meet are equally long: they meet all the way back, and an
\* HMAC never is the first salt.
LEMMA ChainsApart ==
  ASSUME NEW m \in Nat, NEW n \in Nat, NEW s, NEW t, Chain(s, m), Chain(t, n), s[m] = t[n]
  PROVE  m = n
<1> DEFINE T == {i \in 0 .. m : \A j \in 0 .. n : s[i] = t[j] => i = j}
<1>0. s[0] = NoSecret /\ t[0] = NoSecret
  BY DEF Chain
<1>1. 0 \in T
  <2>1. ASSUME NEW j \in 0 .. n, s[0] = t[j] PROVE 0 = j
    BY <1>0, <2>1, ChainType
  <2> QED
    BY <2>1
<1>2. ASSUME NEW i \in 0 .. m - 1, i \in T PROVE i + 1 \in T
  <2>1. ASSUME NEW j \in 0 .. n, s[i + 1] = t[j] PROVE i + 1 = j
    <3>1. j # 0
      <4>1. i + 1 \in 0 .. m /\ i + 1 # 0
        OBVIOUS
      <4>2. s[i + 1] # NoSecret
        BY <4>1, ChainType
      <4> QED
        BY <1>0, <2>1, <4>2
    <3>2. j - 1 \in 0 .. n - 1 /\ (j - 1) + 1 = j /\ j - 1 \in 0 .. n /\ i \in 0 .. m
      BY <3>1
    <3>3. HmacUnder(s[i + 1], s[i])
      BY DEF Chain
    <3>4. HmacUnder(t[(j - 1) + 1], t[j - 1])
      BY <3>2 DEF Chain
    <3>5. Secret(s[i]) /\ Secret(t[j - 1])
      BY <3>2, ChainType
    <3>6. HmacUnder(s[i + 1], t[j - 1])
      BY <2>1, <3>2, <3>4
    <3>7. s[i] = t[j - 1]
      BY <3>3, <3>5, <3>6, UnderTells
    <3>8. i = j - 1
      BY <1>2, <3>2, <3>7
    <3> QED
      BY <3>8
  <2> QED
    BY <2>1
<1>3. m \in T
  <2> HIDE DEF T
  <2>1. 0 .. m \subseteq T
    BY <1>1, <1>2, BoundedInduction
  <2> QED
    BY <2>1
<1> QED
  BY <1>3

Depth(k, m) == \E s : Chain(s, m) /\ s[m] = k

\* So every secret has one depth.
LEMMA DepthUnique ==
  ASSUME NEW k, NEW m \in Nat, NEW n \in Nat, Depth(k, m), Depth(k, n)
  PROVE  m = n
<1>1. PICK s : Chain(s, m) /\ s[m] = k
  BY DEF Depth
<1>2. PICK t : Chain(t, n) /\ t[n] = k
  BY DEF Depth
<1> QED
  BY <1>1, <1>2, ChainsApart

\* A secret of any depth is of the length of a hash.
LEMMA DepthType ==
  ASSUME NEW k, NEW m \in Nat, Depth(k, m)
  PROVE  Secret(k)
<1>1. PICK s : Chain(s, m) /\ s[m] = k
  BY DEF Depth
<1>2. m \in 0 .. m
  OBVIOUS
<1> QED
  BY <1>1, <1>2, ChainType

\* The first salt has depth 0.
LEMMA DepthFirst == Depth(NoSecret, 0)
<1> DEFINE s == [i \in {0} |-> NoSecret]
<1>1. s[0] = NoSecret
  OBVIOUS
<1> HIDE DEF s
<1>2. Chain(s, 0)
  BY <1>1 DEF Chain
<1> QED
  BY <1>1, <1>2 DEF Depth

\* An HMAC is one deeper than its key.
LEMMA DepthStep ==
  ASSUME NEW j, NEW m \in Nat, Depth(j, m), NEW d, IsSeq(d)
  PROVE  Depth(Hmac(j, d), m + 1)
<1>1. PICK s : Chain(s, m) /\ s[m] = j
  BY DEF Depth
<1> DEFINE k == Hmac(j, d)
           t == [i \in 0 .. m + 1 |-> IF i <= m THEN s[i] ELSE k]
<1>2. HmacUnder(k, j)
  BY DEF HmacUnder
<1> HIDE DEF k
<1>3. t[m + 1] = k /\ \A i \in 0 .. m : t[i] = s[i]
  OBVIOUS
<1> HIDE DEF t
<1>4. Chain(t, m + 1)
  <2>1. t[0] = NoSecret
    BY <1>1, <1>3 DEF Chain
  <2>2. ASSUME NEW i \in 0 .. (m + 1) - 1 PROVE HmacUnder(t[i + 1], t[i])
    <3>1. CASE i = m
      BY <1>1, <1>2, <1>3, <3>1
    <3>2. CASE i # m
      <4>1. i \in 0 .. m - 1 /\ i \in 0 .. m /\ i + 1 \in 0 .. m
        BY <3>2
      <4>2. HmacUnder(s[i + 1], s[i])
        BY <1>1, <4>1 DEF Chain
      <4> QED
        BY <1>3, <4>1, <4>2
    <3> QED
      BY <3>1, <3>2
  <2> QED
    BY <2>1, <2>2 DEF Chain
<1> QED
  BY <1>3, <1>4 DEF Depth, k

-----------------------------------------------------------------------------
(* nd_derive_handshake_keys and nd_finished_compute                        *)

EmptyHash == Sha256(<<>>)
DerivedSecret(p) == DeriveSecret(EarlySecret, p, DerivedLabel, EmptyHash)
HandshakeSecret(p, s) == HkdfExtract(DerivedSecret(p), s)
TrafficSecret(p, s, h, T) == DeriveSecret(HandshakeSecret(p, s), p, T, h)
FinishedKey(p, s, h, T) == HkdfExpandLabel(TrafficSecret(p, s, h, T), p, FinishedLabel, <<>>, HashLen)

\* The labels of the two sides
Traffic == {ClientLabel, ServerLabel}

\* Both are labels.
LEMMA TrafficIsLabel == Traffic \subseteq Label
BY DEF Traffic, Label

\* A hash is a context that the schedule asks for,
LEMMA AskedHash ==
  ASSUME NEW h, Secret(h)
  PROVE  Asked(h, HashLen)
<1>1. HashLen \in Nat
  BY ShaAssumption
<1> QED
  BY <1>1 DEF Asked, Secret

\* and so is none.
LEMMA AskedNothing ==
  ASSUME NEW n \in {HashLen, AeadKeyLen, IvLen}
  PROVE  Asked(<<>>, n)
<1>1. HashLen \in Nat /\ IsSeq(<<>>) /\ Len(<<>>) = 0
  BY ShaAssumption, Empty
<1>2. Len(<<>>) <= HashLen
  BY <1>1
<1> QED
  BY <1>1, <1>2 DEF Asked

\* nd_derive_secret is one HMAC.
LEMMA DeriveShape ==
  ASSUME NEW k, NEW p \in Prefix, NEW L \in Label, NEW h, Secret(h)
  PROVE  /\ DeriveSecret(k, p, L, h) = Hmac(k, Info(p, L, h, HashLen))
         /\ IsSeq(Info(p, L, h, HashLen)) /\ IsSeq(h)
<1>1. Asked(h, HashLen)
  BY AskedHash
<1>2. /\ HkdfExpandLabel(k, p, L, h, HashLen) = Hmac(k, Info(p, L, h, HashLen))
      /\ IsSeq(Info(p, L, h, HashLen))
  BY <1>1, ExpandLabelFirst
<1> QED
  BY <1>2 DEF DeriveSecret, Secret

\* The hash of no message
LEMMA EmptyHashType == Secret(EmptyHash)
BY Empty, Sha256Exact, DigestBytes DEF EmptyHash, Secret

\* Extraction with a salt that is not empty, or with the one for none
LEMMA ExtractShape ==
  ASSUME NEW k, Secret(k), NEW d
  PROVE  HkdfExtract(k, d) = Hmac(k, d)
<1>1. k # <<>>
  BY ShaAssumption, Empty DEF Secret
<1> QED
  BY <1>1 DEF HkdfExtract

\* The depths of the secrets, from the first extraction to the Finished keys
LEMMA EarlyDepth == Depth(EarlySecret, 1)
<1>1. EarlySecret = Hmac(NoSecret, NoSecret)
  BY NoSecretType, ExtractShape DEF EarlySecret, NoSecret
<1>2. Depth(Hmac(NoSecret, NoSecret), 0 + 1)
  BY DepthFirst, DepthStep, NoSecretType DEF Secret
<1> QED
  BY <1>1, <1>2

LEMMA DerivedDepth ==
  ASSUME NEW p \in Prefix
  PROVE  Depth(DerivedSecret(p), 2)
<1> DEFINE i == Info(p, DerivedLabel, EmptyHash, HashLen)
<1>1. DerivedSecret(p) = Hmac(EarlySecret, i) /\ IsSeq(i)
  BY EmptyHashType, DeriveShape DEF DerivedSecret, Label
<1> HIDE DEF i
<1>2. Depth(Hmac(EarlySecret, i), 1 + 1)
  BY <1>1, EarlyDepth, DepthStep
<1> QED
  BY <1>1, <1>2

LEMMA HandshakeDepth ==
  ASSUME NEW p \in Prefix, NEW s, IsSeq(s)
  PROVE  /\ Depth(HandshakeSecret(p, s), 3)
         /\ HandshakeSecret(p, s) = Hmac(DerivedSecret(p), s)
<1> DEFINE d == DerivedSecret(p)
<1>1. Depth(d, 2) /\ Secret(d)
  BY DerivedDepth, DepthType
<1> HIDE DEF d
<1>2. HkdfExtract(d, s) = Hmac(d, s)
  BY <1>1, ExtractShape
<1>3. Depth(Hmac(d, s), 2 + 1)
  BY <1>1, DepthStep
<1> QED
  BY <1>2, <1>3 DEF HandshakeSecret, d

LEMMA TrafficDepth ==
  ASSUME NEW p \in Prefix, NEW s, IsSeq(s), NEW h, Secret(h), NEW T \in Traffic
  PROVE  /\ Depth(TrafficSecret(p, s, h, T), 4)
         /\ TrafficSecret(p, s, h, T) = Hmac(HandshakeSecret(p, s), Info(p, T, h, HashLen))
         /\ IsSeq(Info(p, T, h, HashLen))
<1> DEFINE i == Info(p, T, h, HashLen)
           k == HandshakeSecret(p, s)
<1>1. TrafficSecret(p, s, h, T) = Hmac(k, i) /\ IsSeq(i)
  BY TrafficIsLabel, DeriveShape DEF TrafficSecret
<1>2. Depth(k, 3)
  BY HandshakeDepth
<1> HIDE DEF i, k
<1>3. Depth(Hmac(k, i), 3 + 1)
  BY <1>1, <1>2, DepthStep
<1> QED
  BY <1>1, <1>3 DEF i, k

LEMMA FinishedDepth ==
  ASSUME NEW p \in Prefix, NEW s, IsSeq(s), NEW h, Secret(h), NEW T \in Traffic
  PROVE  /\ Depth(FinishedKey(p, s, h, T), 5)
         /\ FinishedKey(p, s, h, T)
              = Hmac(TrafficSecret(p, s, h, T), Info(p, FinishedLabel, <<>>, HashLen))
         /\ IsSeq(Info(p, FinishedLabel, <<>>, HashLen))
<1> DEFINE i == Info(p, FinishedLabel, <<>>, HashLen)
           k == TrafficSecret(p, s, h, T)
<1>1. Asked(<<>>, HashLen) /\ FinishedLabel \in Label
  BY AskedNothing DEF Label
<1>2. FinishedKey(p, s, h, T) = Hmac(k, i) /\ IsSeq(i)
  BY <1>1, ExpandLabelFirst DEF FinishedKey
<1>3. Depth(k, 4)
  BY TrafficDepth
<1> HIDE DEF i, k
<1>4. Depth(Hmac(k, i), 4 + 1)
  BY <1>2, <1>3, DepthStep
<1> QED
  BY <1>2, <1>4 DEF i, k

-----------------------------------------------------------------------------
\* The byte x begins an output of level m: an HMAC under a key of that depth.
Begins(x, m) == \E k, d : Depth(k, m) /\ IsSeq(d) /\ x = Hmac(k, d)[1]

\* A byte begins outputs of one level only.
LEMMA BeginsApart ==
  ASSUME NEW x, NEW m \in Nat, NEW n \in Nat, Begins(x, m), Begins(x, n)
  PROVE  m = n
<1>1. PICK j, c : Depth(j, m) /\ IsSeq(c) /\ x = Hmac(j, c)[1]
  BY DEF Begins
<1>2. PICK k, d : Depth(k, n) /\ IsSeq(d) /\ x = Hmac(k, d)[1]
  BY DEF Begins
<1>3. Secret(j) /\ Secret(k)
  BY <1>1, <1>2, DepthType
<1>4. j = k
  BY <1>1, <1>2, <1>3, HmacTells
<1> QED
  BY <1>1, <1>2, <1>4, DepthUnique

\* The derived secret tells the protocol, the handshake secret also what was
\* shared, a traffic secret also the transcript and the side.
LEMMA DerivedTells ==
  ASSUME NEW p \in Prefix, NEW q \in Prefix
  PROVE  DerivedSecret(p) = DerivedSecret(q) => p = q
<1> DEFINE i == Info(p, DerivedLabel, EmptyHash, HashLen)
           j == Info(q, DerivedLabel, EmptyHash, HashLen)
<1>1. DerivedSecret(p) = Hmac(EarlySecret, i) /\ IsSeq(i)
  BY EmptyHashType, DeriveShape DEF DerivedSecret, Label
<1>2. DerivedSecret(q) = Hmac(EarlySecret, j) /\ IsSeq(j)
  BY EmptyHashType, DeriveShape DEF DerivedSecret, Label
<1>3. IsSeq(EmptyHash) /\ DerivedLabel \in Label
  BY EmptyHashType DEF Label, Secret
<1>4. i = j => p = q
  BY <1>3, InfoTells
<1> HIDE DEF i, j
<1>5. Secret(EarlySecret)
  BY EarlyDepth, DepthType
<1>6. Hmac(EarlySecret, i)[1] = Hmac(EarlySecret, j)[1] => i = j
  BY <1>1, <1>2, <1>5, HmacTells
<1> QED
  BY <1>1, <1>2, <1>4, <1>6

LEMMA HandshakeTells ==
  ASSUME NEW p \in Prefix, NEW q \in Prefix, NEW s, IsSeq(s), NEW t, IsSeq(t)
  PROVE  HandshakeSecret(p, s)[1] = HandshakeSecret(q, t)[1] => p = q /\ s = t
<1> DEFINE j == DerivedSecret(p)
           k == DerivedSecret(q)
<1>1. HandshakeSecret(p, s) = Hmac(j, s) /\ HandshakeSecret(q, t) = Hmac(k, t)
  BY HandshakeDepth
<1>2. Secret(j) /\ Secret(k)
  BY DerivedDepth, DepthType
<1>3. j = k => p = q
  BY DerivedTells
<1> HIDE DEF j, k
<1>4. Hmac(j, s)[1] = Hmac(k, t)[1] => j = k /\ s = t
  BY <1>2, HmacTells
<1> QED
  BY <1>1, <1>3, <1>4

LEMMA TrafficTells ==
  ASSUME NEW p \in Prefix, NEW s, IsSeq(s), NEW g, Secret(g), NEW T \in Traffic,
         NEW q \in Prefix, NEW t, IsSeq(t), NEW h, Secret(h), NEW U \in Traffic
  PROVE  TrafficSecret(p, s, g, T)[1] = TrafficSecret(q, t, h, U)[1]
           => p = q /\ s = t /\ g = h /\ T = U
<1> DEFINE j == HandshakeSecret(p, s)
           k == HandshakeSecret(q, t)
           c == Info(p, T, g, HashLen)
           d == Info(q, U, h, HashLen)
<1>1. TrafficSecret(p, s, g, T) = Hmac(j, c) /\ IsSeq(c)
  BY TrafficDepth
<1>2. TrafficSecret(q, t, h, U) = Hmac(k, d) /\ IsSeq(d)
  BY TrafficDepth
<1>3. Secret(j) /\ Secret(k)
  BY HandshakeDepth, DepthType
<1>4. j = k => p = q /\ s = t
  BY HandshakeTells
<1>5. c = d => g = h /\ T = U
  <2>1. IsSeq(g) /\ IsSeq(h) /\ T \in Label /\ U \in Label
    BY TrafficIsLabel DEF Secret
  <2> QED
    BY <2>1, InfoTells
<1> HIDE DEF j, k, c, d
<1>6. Hmac(j, c)[1] = Hmac(k, d)[1] => j = k /\ c = d
  BY <1>1, <1>2, <1>3, HmacTells
<1> QED
  BY <1>1, <1>2, <1>4, <1>5, <1>6

\* A key or an IV also tells which of the two it is,
KeyByte(p, s, h, T, L, n) == Hmac(TrafficSecret(p, s, h, T), Info(p, L, <<>>, n))[1]

LEMMA KeyTells ==
  ASSUME NEW p \in Prefix, NEW s, IsSeq(s), NEW g, Secret(g), NEW T \in Traffic,
         NEW K \in {KeyLabel, IvLabel}, NEW m \in {AeadKeyLen, IvLen},
         NEW q \in Prefix, NEW t, IsSeq(t), NEW h, Secret(h), NEW U \in Traffic,
         NEW L \in {KeyLabel, IvLabel}, NEW n \in {AeadKeyLen, IvLen}
  PROVE  KeyByte(p, s, g, T, K, m) = KeyByte(q, t, h, U, L, n)
           => p = q /\ s = t /\ g = h /\ T = U /\ K = L
<1> DEFINE j == TrafficSecret(p, s, g, T)
           k == TrafficSecret(q, t, h, U)
           c == Info(p, K, <<>>, m)
           d == Info(q, L, <<>>, n)
<1>1. Secret(j) /\ Secret(k)
  BY TrafficDepth, DepthType
<1>2. K \in Label /\ L \in Label
  BY DEF Label
<1>3. IsSeq(c) /\ IsSeq(d)
  BY <1>2, AskedNothing, ExpandLabelFirst
<1>4. j = k => p = q /\ s = t /\ g = h /\ T = U
  BY TrafficTells
<1>5. c = d => K = L
  BY <1>2, Empty, InfoTells
<1>6. KeyByte(p, s, g, T, K, m) = Hmac(j, c)[1] /\ KeyByte(q, t, h, U, L, n) = Hmac(k, d)[1]
  BY DEF KeyByte
<1> HIDE DEF j, k, c, d
<1>7. Hmac(j, c)[1] = Hmac(k, d)[1] => j = k /\ c = d
  BY <1>1, <1>3, HmacTells
<1> QED
  BY <1>4, <1>5, <1>6, <1>7

\* and a Finished the messages it is over, besides those of its keys.
LEMMA FinishedTells ==
  ASSUME NEW p \in Prefix, NEW s, IsSeq(s), NEW g, Secret(g), NEW T \in Traffic, NEW v, Secret(v),
         NEW q \in Prefix, NEW t, IsSeq(t), NEW h, Secret(h), NEW U \in Traffic, NEW w, Secret(w)
  PROVE  Hmac(FinishedKey(p, s, g, T), v)[1] = Hmac(FinishedKey(q, t, h, U), w)[1]
           => p = q /\ s = t /\ g = h /\ T = U /\ v = w
<1> DEFINE j == TrafficSecret(p, s, g, T)
           k == TrafficSecret(q, t, h, U)
           c == Info(p, FinishedLabel, <<>>, HashLen)
           d == Info(q, FinishedLabel, <<>>, HashLen)
           x == FinishedKey(p, s, g, T)
           y == FinishedKey(q, t, h, U)
<1>1. Secret(j) /\ Secret(k)
  BY TrafficDepth, DepthType
<1>2. x = Hmac(j, c) /\ IsSeq(c) /\ Secret(x)
  BY FinishedDepth, DepthType
<1>3. y = Hmac(k, d) /\ IsSeq(d) /\ Secret(y)
  BY FinishedDepth, DepthType
<1>4. j = k => p = q /\ s = t /\ g = h /\ T = U
  BY TrafficTells
<1>5. IsSeq(v) /\ IsSeq(w)
  BY DEF Secret
<1> HIDE DEF j, k, c, d, x, y
<1>6. Hmac(x, v)[1] = Hmac(y, w)[1] => x = y /\ v = w
  BY <1>2, <1>3, <1>5, HmacTells
<1>7. Hmac(j, c)[1] = Hmac(k, d)[1] => j = k
  BY <1>1, <1>2, <1>3, HmacTells
<1>8. Hmac(x, v)[1] = Hmac(y, w)[1] => p = q /\ s = t /\ g = h /\ T = U /\ v = w
  BY <1>2, <1>3, <1>4, <1>6, <1>7
<1> QED
  BY <1>8 DEF x, y

-----------------------------------------------------------------------------
(* All the outputs: keys from the hash h, a Finished over the hash v        *)

Given(p, s, h) == p \in Prefix /\ IsSeq(s) /\ Secret(h)

\* Where each output comes from
TrafficField(f, T) ==
  \/ f = "client_secret" /\ T = ClientLabel
  \/ f = "server_secret" /\ T = ServerLabel

KeyField(f, T, L) ==
  \/ f = "client_key" /\ T = ClientLabel /\ L = KeyLabel
  \/ f = "client_iv" /\ T = ClientLabel /\ L = IvLabel
  \/ f = "server_key" /\ T = ServerLabel /\ L = KeyLabel
  \/ f = "server_iv" /\ T = ServerLabel /\ L = IvLabel

FinishedField(f, T) ==
  \/ f = "client_finished" /\ T = ClientLabel
  \/ f = "server_finished" /\ T = ServerLabel

\* The byte x is the first one of the output f.
FirstByte(x, f, p, s, h, v) ==
  \/ f = "handshake_secret" /\ x = HandshakeSecret(p, s)[1]
  \/ \E T \in Traffic : TrafficField(f, T) /\ x = TrafficSecret(p, s, h, T)[1]
  \/ \E T \in Traffic : \E L \in {KeyLabel, IvLabel} : \E n \in {AeadKeyLen, IvLen} :
       KeyField(f, T, L) /\ x = KeyByte(p, s, h, T, L, n)
  \/ \E T \in Traffic : FinishedField(f, T) /\ x = Hmac(FinishedKey(p, s, h, T), v)[1]

\* The head of a sequence that is not empty
LEMMA SecretHead ==
  ASSUME NEW k, IsSeq(k)
  PROVE  Len(k) >= 1 => Head(k) = k[1]
<1>1. PICK S : k \in Seq(S)
  BY DEF IsSeq
<1> QED
  BY <1>1

\* What a key or an IV begins with
LEMMA KeyHead ==
  ASSUME NEW p, NEW s, NEW h, Given(p, s, h), NEW T \in Traffic,
         NEW L \in {KeyLabel, IvLabel}, NEW n \in {AeadKeyLen, IvLen}
  PROVE  Head(HkdfExpandLabel(TrafficSecret(p, s, h, T), p, L, <<>>, n)) = KeyByte(p, s, h, T, L, n)
<1> DEFINE x == HkdfExpandLabel(TrafficSecret(p, s, h, T), p, L, <<>>, n)
<1>1. L \in Label /\ p \in Prefix /\ Asked(<<>>, n)
  BY AskedNothing DEF Label, Given
<1>2. IsSeq(x) /\ Len(x) = n /\ n \in Nat \ {0} /\ x[1] = KeyByte(p, s, h, T, L, n)
  BY <1>1, ExpandLabelFirst DEF KeyByte
<1> HIDE DEF x
<1>3. Head(x) = x[1]
  BY <1>2, SecretHead
<1> QED
  BY <1>2, <1>3 DEF x

Field == {"handshake_secret", "client_secret", "server_secret", "client_key", "client_iv",
          "server_key", "server_iv"}

\* The keys of one derivation, by name
LEMMA KeyFields ==
  ASSUME NEW p, NEW s, NEW h
  PROVE  /\ DOMAIN HandshakeKeys(p, s, h) = Field
         /\ HandshakeKeys(p, s, h)["handshake_secret"] = HandshakeSecret(p, s)
         /\ HandshakeKeys(p, s, h)["client_secret"] = TrafficSecret(p, s, h, ClientLabel)
         /\ HandshakeKeys(p, s, h)["server_secret"] = TrafficSecret(p, s, h, ServerLabel)
         /\ HandshakeKeys(p, s, h)["client_key"]
              = HkdfExpandLabel(TrafficSecret(p, s, h, ClientLabel), p, KeyLabel, <<>>, AeadKeyLen)
         /\ HandshakeKeys(p, s, h)["client_iv"]
              = HkdfExpandLabel(TrafficSecret(p, s, h, ClientLabel), p, IvLabel, <<>>, IvLen)
         /\ HandshakeKeys(p, s, h)["server_key"]
              = HkdfExpandLabel(TrafficSecret(p, s, h, ServerLabel), p, KeyLabel, <<>>, AeadKeyLen)
         /\ HandshakeKeys(p, s, h)["server_iv"]
              = HkdfExpandLabel(TrafficSecret(p, s, h, ServerLabel), p, IvLabel, <<>>, IvLen)
<1> DEFINE hs == HandshakeSecret(p, s)
           c == TrafficSecret(p, s, h, ClientLabel)
           d == TrafficSecret(p, s, h, ServerLabel)
           ck == HkdfExpandLabel(c, p, KeyLabel, <<>>, AeadKeyLen)
           ci == HkdfExpandLabel(c, p, IvLabel, <<>>, IvLen)
           dk == HkdfExpandLabel(d, p, KeyLabel, <<>>, AeadKeyLen)
           di == HkdfExpandLabel(d, p, IvLabel, <<>>, IvLen)
           k == [handshake_secret |-> hs, client_secret |-> c, server_secret |-> d,
                 client_key |-> ck, client_iv |-> ci, server_key |-> dk, server_iv |-> di]
<1>1. HandshakeKeys(p, s, h) = k
  BY Zenon DEF HandshakeKeys, FromHandshakeSecret, TrafficKeys, HandshakeSecret, TrafficSecret,
               DerivedSecret, EmptyHash
<1> HIDE DEF hs, c, d, ck, ci, dk, di
<1>2. DOMAIN k = Field
  BY DEF Field
<1>3. /\ k["handshake_secret"] = hs /\ k["client_secret"] = c /\ k["server_secret"] = d
      /\ k["client_key"] = ck /\ k["client_iv"] = ci /\ k["server_key"] = dk /\ k["server_iv"] = di
  OBVIOUS
<1> HIDE DEF k
<1> QED
  BY <1>1, <1>2, <1>3, Zenon DEF hs, c, d, ck, ci, dk, di

\* A secret begins with its first byte.
LEMMA HeadOfSecret ==
  ASSUME NEW k, Secret(k)
  PROVE  Head(k) = k[1]
BY ShaAssumption, SecretHead DEF Secret

\* Every key begins as it should,
LEMMA KeysFirst ==
  ASSUME NEW p, NEW s, NEW h, Given(p, s, h), NEW f \in Field, NEW v
  PROVE  FirstByte(Head(HandshakeKeys(p, s, h)[f]), f, p, s, h, v)
<1> DEFINE out == HandshakeKeys(p, s, h)
<1>0. ClientLabel \in Traffic /\ ServerLabel \in Traffic
  BY DEF Traffic
<1>1. p \in Prefix /\ IsSeq(s) /\ Secret(h)
  BY DEF Given
<1>2. CASE f = "handshake_secret"
  <2> DEFINE k == HandshakeSecret(p, s)
  <2>1. out[f] = k /\ Secret(k)
    BY <1>1, <1>2, KeyFields, HandshakeDepth, DepthType
  <2> QED
    BY <1>2, <2>1, HeadOfSecret DEF FirstByte
<1>3. ASSUME NEW T \in Traffic, TrafficField(f, T) PROVE FirstByte(Head(out[f]), f, p, s, h, v)
  <2> DEFINE k == TrafficSecret(p, s, h, T)
  <2>1. out[f] = k
    BY <1>3, KeyFields DEF TrafficField
  <2>2. Secret(k)
    BY <1>1, TrafficDepth, DepthType
  <2>3. Head(out[f]) = k[1]
    BY <2>1, <2>2, HeadOfSecret
  <2> QED
    BY <1>3, <2>3 DEF FirstByte
<1>4. ASSUME NEW T \in Traffic, NEW L \in {KeyLabel, IvLabel}, KeyField(f, T, L)
      PROVE  FirstByte(Head(out[f]), f, p, s, h, v)
  <2>1. \E n \in {AeadKeyLen, IvLen} :
          out[f] = HkdfExpandLabel(TrafficSecret(p, s, h, T), p, L, <<>>, n)
    BY <1>4, KeyFields DEF KeyField
  <2>2. PICK n \in {AeadKeyLen, IvLen} :
          out[f] = HkdfExpandLabel(TrafficSecret(p, s, h, T), p, L, <<>>, n)
    BY <2>1
  <2>3. Head(out[f]) = KeyByte(p, s, h, T, L, n)
    BY <2>2, KeyHead
  <2> QED
    BY <1>4, <2>3 DEF FirstByte
<1>5. \/ f = "handshake_secret"
      \/ \E T \in Traffic : TrafficField(f, T)
      \/ \E T \in Traffic : \E L \in {KeyLabel, IvLabel} : KeyField(f, T, L)
  BY <1>0 DEF Field, TrafficField, KeyField
<1> QED
  BY <1>2, <1>3, <1>4, <1>5

\* and so does every Finished.
LEMMA FinishedFirst ==
  ASSUME NEW p, NEW s, NEW h, Given(p, s, h), NEW v, Secret(v),
         NEW f, NEW T \in Traffic, FinishedField(f, T)
  PROVE  FirstByte(Head(Hmac(FinishedKey(p, s, h, T), v)), f, p, s, h, v)
<1> DEFINE k == Hmac(FinishedKey(p, s, h, T), v)
<1>1. Secret(k)
  BY HmacSecret DEF Given, Secret
<1>2. Head(k) = k[1]
  BY <1>1, HeadOfSecret
<1> QED
  BY <1>2 DEF FirstByte

\* The four groups of outputs are on different levels.
LEMMA FirstByteLevel ==
  ASSUME NEW p, NEW s, NEW h, Given(p, s, h), NEW v, Secret(v), NEW x
  PROVE  /\ x = HandshakeSecret(p, s)[1] => Begins(x, 2)
         /\ \A T \in Traffic : x = TrafficSecret(p, s, h, T)[1] => Begins(x, 3)
         /\ \A T \in Traffic : \A L \in {KeyLabel, IvLabel} : \A n \in {AeadKeyLen, IvLen} :
              x = KeyByte(p, s, h, T, L, n) => Begins(x, 4)
         /\ \A T \in Traffic : x = Hmac(FinishedKey(p, s, h, T), v)[1] => Begins(x, 5)
<1>1. p \in Prefix /\ IsSeq(s) /\ Secret(h) /\ IsSeq(v)
  BY DEF Given, Secret
<1>2. x = HandshakeSecret(p, s)[1] => Begins(x, 2)
  BY <1>1, HandshakeDepth, DerivedDepth DEF Begins
<1>3. ASSUME NEW T \in Traffic, x = TrafficSecret(p, s, h, T)[1] PROVE Begins(x, 3)
  BY <1>1, <1>3, HandshakeDepth, TrafficDepth DEF Begins
<1>4. ASSUME NEW T \in Traffic, NEW L \in {KeyLabel, IvLabel}, NEW n \in {AeadKeyLen, IvLen},
             x = KeyByte(p, s, h, T, L, n)
      PROVE  Begins(x, 4)
  <2>1. L \in Label /\ Asked(<<>>, n)
    BY AskedNothing DEF Label
  <2>2. IsSeq(Info(p, L, <<>>, n))
    BY <1>1, <2>1, ExpandLabelFirst
  <2>3. Depth(TrafficSecret(p, s, h, T), 4)
    BY <1>1, TrafficDepth
  <2> QED
    BY <1>4, <2>2, <2>3 DEF Begins, KeyByte
<1>5. ASSUME NEW T \in Traffic, x = Hmac(FinishedKey(p, s, h, T), v)[1] PROVE Begins(x, 5)
  BY <1>1, <1>5, FinishedDepth DEF Begins
<1> QED
  BY <1>2, <1>3, <1>4, <1>5

\* The two sides and the two kinds of key have different labels.
LEMMA LabelsDiffer ==
  ClientLabel # ServerLabel /\ KeyLabel # IvLabel
<1>1. Lit(99) # Lit(115) /\ Lit(107) # Lit(105)
  BY DEF Lit
<1> QED
  BY <1>1, LabelLetters

\* Side and label tell the output.
LEMMA FieldTells ==
  ASSUME NEW f1, NEW f2, NEW T, NEW L
  PROVE  /\ TrafficField(f1, T) /\ TrafficField(f2, T) => f1 = f2
         /\ KeyField(f1, T, L) /\ KeyField(f2, T, L) => f1 = f2
         /\ FinishedField(f1, T) /\ FinishedField(f2, T) => f1 = f2
<1>1. ClientLabel # ServerLabel /\ KeyLabel # IvLabel
  BY LabelsDiffer
<1>2. TrafficField(f1, T) /\ TrafficField(f2, T) => f1 = f2
  BY <1>1 DEF TrafficField
<1>3. KeyField(f1, T, L) /\ KeyField(f2, T, L) => f1 = f2
  BY <1>1 DEF KeyField
<1>4. FinishedField(f1, T) /\ FinishedField(f2, T) => f1 = f2
  BY <1>1 DEF FinishedField
<1> QED
  BY <1>2, <1>3, <1>4

\* The first byte of an output tells which output it is, and what it was
\* derived from.
LEMMA FirstByteTells ==
  ASSUME NEW x, NEW p, NEW s, NEW g, Given(p, s, g), NEW v, Secret(v), NEW f1,
         FirstByte(x, f1, p, s, g, v),
         NEW q, NEW t, NEW h, Given(q, t, h), NEW w, Secret(w), NEW f2,
         FirstByte(x, f2, q, t, h, w)
  PROVE  /\ f1 = f2 /\ p = q /\ s = t
         /\ f1 # "handshake_secret" => g = h
         /\ f1 \notin Field => v = w
<1>1. /\ p \in Prefix /\ IsSeq(s) /\ Secret(g) /\ q \in Prefix /\ IsSeq(t) /\ Secret(h)
  BY DEF Given
<1>2. /\ \A m, n \in Nat : Begins(x, m) /\ Begins(x, n) => m = n
      /\ 2 # 3 /\ 2 # 4 /\ 2 # 5 /\ 3 # 4 /\ 3 # 5 /\ 4 # 5
      /\ {2, 3, 4, 5} \subseteq Nat
  BY BeginsApart
<1>3. CASE Begins(x, 2)
  <2>1. ~ Begins(x, 3) /\ ~ Begins(x, 4) /\ ~ Begins(x, 5)
    BY <1>2, <1>3
  <2>2. f1 = "handshake_secret" /\ x = HandshakeSecret(p, s)[1]
    BY <2>1, FirstByteLevel, Zenon DEF FirstByte
  <2>3. f2 = "handshake_secret" /\ x = HandshakeSecret(q, t)[1]
    BY <2>1, FirstByteLevel, Zenon DEF FirstByte
  <2> QED
    BY <1>1, <2>2, <2>3, HandshakeTells DEF Field
<1>4. CASE Begins(x, 3)
  <2>1. ~ Begins(x, 2) /\ ~ Begins(x, 4) /\ ~ Begins(x, 5)
    BY <1>2, <1>4
  <2>2. PICK T \in Traffic : TrafficField(f1, T) /\ x = TrafficSecret(p, s, g, T)[1]
    BY <2>1, FirstByteLevel, Zenon DEF FirstByte
  <2>3. PICK U \in Traffic : TrafficField(f2, U) /\ x = TrafficSecret(q, t, h, U)[1]
    BY <2>1, FirstByteLevel, Zenon DEF FirstByte
  <2>4. p = q /\ s = t /\ g = h /\ T = U
    <3>1. TrafficSecret(p, s, g, T)[1] = TrafficSecret(q, t, h, U)[1]
            => p = q /\ s = t /\ g = h /\ T = U
      BY <1>1, TrafficTells
    <3> QED
      BY <2>2, <2>3, <3>1
  <2>5. f1 = f2 /\ f1 \in Field
    BY <2>2, <2>3, <2>4, FieldTells DEF TrafficField, Field
  <2> QED
    BY <2>4, <2>5
<1>5. CASE Begins(x, 4)
  <2>1. ~ Begins(x, 2) /\ ~ Begins(x, 3) /\ ~ Begins(x, 5)
    BY <1>2, <1>5
  <2>2. PICK T \in Traffic, K \in {KeyLabel, IvLabel}, m \in {AeadKeyLen, IvLen} :
          KeyField(f1, T, K) /\ x = KeyByte(p, s, g, T, K, m)
    BY <2>1, FirstByteLevel, Zenon DEF FirstByte
  <2>3. PICK U \in Traffic, L \in {KeyLabel, IvLabel}, n \in {AeadKeyLen, IvLen} :
          KeyField(f2, U, L) /\ x = KeyByte(q, t, h, U, L, n)
    BY <2>1, FirstByteLevel, Zenon DEF FirstByte
  <2>4. p = q /\ s = t /\ g = h /\ T = U /\ K = L
    <3>1. KeyByte(p, s, g, T, K, m) = KeyByte(q, t, h, U, L, n)
            => p = q /\ s = t /\ g = h /\ T = U /\ K = L
      BY <1>1, KeyTells
    <3> QED
      BY <2>2, <2>3, <3>1
  <2>5. f1 = f2 /\ f1 \in Field
    BY <2>2, <2>3, <2>4, FieldTells DEF KeyField, Field
  <2> QED
    BY <2>4, <2>5
<1>6. CASE Begins(x, 5)
  <2>1. ~ Begins(x, 2) /\ ~ Begins(x, 3) /\ ~ Begins(x, 4)
    BY <1>2, <1>6
  <2>2. PICK T \in Traffic : FinishedField(f1, T) /\ x = Hmac(FinishedKey(p, s, g, T), v)[1]
    BY <2>1, FirstByteLevel, Zenon DEF FirstByte
  <2>3. PICK U \in Traffic : FinishedField(f2, U) /\ x = Hmac(FinishedKey(q, t, h, U), w)[1]
    BY <2>1, FirstByteLevel, Zenon DEF FirstByte
  <2>4. p = q /\ s = t /\ g = h /\ T = U /\ v = w
    <3>1. Hmac(FinishedKey(p, s, g, T), v)[1] = Hmac(FinishedKey(q, t, h, U), w)[1]
            => p = q /\ s = t /\ g = h /\ T = U /\ v = w
      BY <1>1, FinishedTells
    <3> QED
      BY <2>2, <2>3, <3>1
  <2>5. f1 = f2
    BY <2>2, <2>3, <2>4, FieldTells
  <2> QED
    BY <2>4, <2>5
<1>7. Begins(x, 2) \/ Begins(x, 3) \/ Begins(x, 4) \/ Begins(x, 5)
  BY FirstByteLevel, Zenon DEF FirstByte
<1> QED
  BY <1>3, <1>4, <1>5, <1>6, <1>7

-----------------------------------------------------------------------------
(* What was derived, and from what                                         *)

\* Keys from the messages m, and the Finished of the two sides with these keys
\* over the messages n
KeysFrom(p, s, m) ==
  [prefix |-> p, shared |-> s, of |-> m, over |-> m, out |-> HandshakeKeys(p, s, Digest(m))]

ServerFinished(p, s, m, n) ==
  [prefix |-> p, shared |-> s, of |-> m, over |-> n,
   out |-> [server_finished |-> Hmac(FinishedKey(p, s, Digest(m), ServerLabel), Digest(n))]]

ClientFinished(p, s, m, n) ==
  [prefix |-> p, shared |-> s, of |-> m, over |-> n,
   out |-> [client_finished |-> Hmac(FinishedKey(p, s, Digest(m), ClientLabel), Digest(n))]]

Named(d, p, s, m, n) ==
  \/ m = n /\ d = KeysFrom(p, s, m)
  \/ m # n /\ d = ServerFinished(p, s, m, n)
  \/ m # n /\ d = ClientFinished(p, s, m, n)

\* The inductive invariant: every derivation is the key schedule over the
\* hashes of the messages it names.
DerivedAsNamed ==
  /\ snapshot # None => snapshot.of \in Seq(Octet)
  /\ derived # {} => snapshot # None
  /\ \A d \in derived :
       \E p \in Prefix, s \in Shared, m, n \in Seq(Octet) : Named(d, p, s, m, n)

\* nd_finished_compute with given keys, over the hash v
LEMMA FinishedValue ==
  ASSUME NEW p, NEW s, NEW m, NEW keys, keys = KeysFrom(p, s, m), NEW v
  PROVE  /\ FinishedVerifyData(keys.prefix, keys.out.server_secret, v)
              = Hmac(FinishedKey(p, s, Digest(m), ServerLabel), v)
         /\ FinishedVerifyData(keys.prefix, keys.out.client_secret, v)
              = Hmac(FinishedKey(p, s, Digest(m), ClientLabel), v)
<1> DEFINE h == Digest(m)
           k == HandshakeKeys(p, s, h)
<1>1. keys = [prefix |-> p, shared |-> s, of |-> m, over |-> m, out |-> k]
  BY Zenon DEF KeysFrom
<1>2. /\ k["server_secret"] = TrafficSecret(p, s, h, ServerLabel)
      /\ k["client_secret"] = TrafficSecret(p, s, h, ClientLabel)
  BY KeyFields
<1> HIDE DEF k
<1>3. keys.prefix = p /\ keys.out = k
  BY <1>1
<1> QED
  BY <1>2, <1>3, Zenon DEF FinishedVerifyData, FinishedKey

\* Every key that nd_derive_handshake_keys and every Finished that
\* nd_finished_compute ever gave out is the key schedule over the exact hash of
\* the messages it was derived from; a Finished has keys from fewer messages.
THEOREM Derivations == TranscriptSpec => []DerivedAsNamed
<1>1. TranscriptInit => DerivedAsNamed
  BY DEF TranscriptInit, DerivedAsNamed
<1>2. IInv /\ DerivedAsNamed /\ [TranscriptNext]_transcriptVars => DerivedAsNamed'
  <2> SUFFICES ASSUME IInv, DerivedAsNamed, [TranscriptNext]_transcriptVars PROVE DerivedAsNamed'
    OBVIOUS
  <2>1. ASSUME NEW m \in Message, TranscriptAdd(m) PROVE DerivedAsNamed'
    BY <2>1 DEF TranscriptAdd, DerivedAsNamed
  <2>2. CASE TranscriptSnapshot
    <3>1. snapshot'.of = added /\ derived' = derived
      BY <2>2 DEF TranscriptSnapshot
    <3>2. added \in Seq(Octet)
      BY DEF IInv, ContextHasAdded, Taken
    <3>3. snapshot' # None
      <4>1. snapshot' = [of |-> added, hash |-> Sha256Final(ctx)]
        BY <2>2 DEF TranscriptSnapshot
      <4>2. DOMAIN snapshot' = {"of", "hash"} /\ DOMAIN None = {"none"}
        BY <4>1 DEF None
      <4> QED
        BY <4>2
    <3> QED
      BY <3>1, <3>2, <3>3 DEF DerivedAsNamed
  <2>3. ASSUME NEW new, snapshot # None, derived' = derived \cup {new}, snapshot' = snapshot,
               \E q \in Prefix, t \in Shared, m, n \in Seq(Octet) : Named(new, q, t, m, n)
        PROVE  DerivedAsNamed'
    <3>1. \A d \in derived' :
            \E q \in Prefix, t \in Shared, m, n \in Seq(Octet) : Named(d, q, t, m, n)
      BY <2>3 DEF DerivedAsNamed
    <3> QED
      BY <2>3, <3>1 DEF DerivedAsNamed
  <2>4. snapshot # None => snapshot.of \in Seq(Octet) /\ snapshot.hash = Digest(snapshot.of)
    BY DEF DerivedAsNamed, IInv, SnapshotExact
  <2>5. ASSUME NEW p \in {Dtls13, Tls13}, NEW s \in Shared, Derive(p, s) PROVE DerivedAsNamed'
    <3> DEFINE m == snapshot.of
               new == [prefix |-> p, shared |-> s, of |-> snapshot.of, over |-> snapshot.of,
                       out |-> HandshakeKeys(p, s, snapshot.hash)]
    <3>1. snapshot # None /\ derived' = derived \cup {new} /\ snapshot' = snapshot
      BY <2>5 DEF Derive
    <3>2. m \in Seq(Octet) /\ snapshot.hash = Digest(m)
      BY <2>4, <3>1
    <3>3. new = KeysFrom(p, s, m) /\ p \in Prefix
      BY <3>2, Zenon DEF KeysFrom, Prefix
    <3> HIDE DEF new, m
    <3>4. \E q \in Prefix, t \in Shared, k, n \in Seq(Octet) : Named(new, q, t, k, n)
      BY <3>2, <3>3 DEF Named
    <3> QED
      BY <2>3, <3>1, <3>4
  <2>6. ASSUME NEW keys \in Keys, FinishServer(keys) \/ FinishClient(keys) PROVE DerivedAsNamed'
    <3>1. keys \in derived /\ keys.over = keys.of /\ snapshot # None
      BY <2>6 DEF Keys, DerivedAsNamed
    <3>2. PICK p \in Prefix, s \in Shared, m \in Seq(Octet), l \in Seq(Octet) : Named(keys, p, s, m, l)
      BY <3>1 DEF DerivedAsNamed
    <3>3. keys.of = m /\ keys.over = l
      BY <3>2 DEF Named, KeysFrom, ServerFinished, ClientFinished
    <3>4. keys = KeysFrom(p, s, m)
      BY <3>1, <3>2, <3>3 DEF Named
    <3> DEFINE n == snapshot.of
    <3>5. n \in Seq(Octet) /\ snapshot.hash = Digest(n)
      BY <2>4, <3>1
    <3>6. ASSUME NEW out, Finish(keys, out)
          PROVE  /\ derived' = derived \cup
                      {[prefix |-> p, shared |-> s, of |-> m, over |-> n, out |-> out]}
                 /\ snapshot' = snapshot /\ m # n
      <4> DEFINE k == HandshakeKeys(p, s, Digest(m))
      <4>1. keys = [prefix |-> p, shared |-> s, of |-> m, over |-> m, out |-> k]
        BY <3>4, Zenon DEF KeysFrom
      <4> HIDE DEF k, n
      <4>2. [keys EXCEPT !.over = n, !.out = out]
              = [prefix |-> p, shared |-> s, of |-> m, over |-> n, out |-> out]
        <5> DEFINE one == [keys EXCEPT !.over = n]
        <5>1. one = [prefix |-> p, shared |-> s, of |-> m, over |-> n, out |-> k]
          BY <4>1
        <5> HIDE DEF one
        <5>2. [one EXCEPT !.out = out]
                = [prefix |-> p, shared |-> s, of |-> m, over |-> n, out |-> out]
          BY <5>1
        <5> QED
          BY <5>2 DEF one
      <4>3. /\ derived' = derived \cup {[keys EXCEPT !.over = n, !.out = out]}
            /\ snapshot' = snapshot /\ n # keys.of
        BY <3>6, Zenon DEF Finish, n
      <4> QED
        BY <3>3, <4>2, <4>3, Zenon
    <3>7. \A d : Named(d, p, s, m, n) =>
            \E q \in Prefix, t \in Shared, j, k \in Seq(Octet) : Named(d, q, t, j, k)
      BY <3>5, Zenon
    <3>8. CASE FinishServer(keys)
      <4> DEFINE x == Hmac(FinishedKey(p, s, Digest(m), ServerLabel), Digest(n))
                 y == FinishedVerifyData(keys.prefix, keys.out.server_secret, snapshot.hash)
                 out == [server_finished |-> y]
                 new == [prefix |-> p, shared |-> s, of |-> m, over |-> n, out |-> out]
      <4>1. derived' = derived \cup {new} /\ snapshot' = snapshot /\ m # n
        <5>1. Finish(keys, out)
          BY <3>8, Zenon DEF FinishServer
        <5> HIDE DEF out, n
        <5> QED
          BY <3>6, <5>1, Zenon
      <4>2. y = x
        <5> DEFINE v == snapshot.hash
        <5>1. v = Digest(n)
          BY <3>5
        <5> HIDE DEF v
        <5>2. FinishedVerifyData(keys.prefix, keys.out.server_secret, v)
                = Hmac(FinishedKey(p, s, Digest(m), ServerLabel), v)
          BY <3>4, FinishedValue
        <5>3. y = FinishedVerifyData(keys.prefix, keys.out.server_secret, v)
          BY Zenon DEF v
        <5> HIDE DEF y, n
        <5> QED
          BY <5>1, <5>2, <5>3, Zenon
      <4>3. ServerFinished(p, s, m, n)
              = [prefix |-> p, shared |-> s, of |-> m, over |-> n, out |-> [server_finished |-> x]]
        BY Zenon DEF ServerFinished
      <4> HIDE DEF x, y, n
      <4>4. Named(new, p, s, m, n)
        BY <4>1, <4>2, <4>3, Zenon DEF Named
      <4> QED
        BY <2>3, <3>1, <3>7, <4>1, <4>4
    <3>9. CASE FinishClient(keys)
      <4> DEFINE x == Hmac(FinishedKey(p, s, Digest(m), ClientLabel), Digest(n))
                 y == FinishedVerifyData(keys.prefix, keys.out.client_secret, snapshot.hash)
                 out == [client_finished |-> y]
                 new == [prefix |-> p, shared |-> s, of |-> m, over |-> n, out |-> out]
      <4>1. derived' = derived \cup {new} /\ snapshot' = snapshot /\ m # n
        <5>1. Finish(keys, out)
          BY <3>9, Zenon DEF FinishClient
        <5> HIDE DEF out, n
        <5> QED
          BY <3>6, <5>1, Zenon
      <4>2. y = x
        <5> DEFINE v == snapshot.hash
        <5>1. v = Digest(n)
          BY <3>5
        <5> HIDE DEF v
        <5>2. FinishedVerifyData(keys.prefix, keys.out.client_secret, v)
                = Hmac(FinishedKey(p, s, Digest(m), ClientLabel), v)
          BY <3>4, FinishedValue
        <5>3. y = FinishedVerifyData(keys.prefix, keys.out.client_secret, v)
          BY Zenon DEF v
        <5> HIDE DEF y, n
        <5> QED
          BY <5>1, <5>2, <5>3, Zenon
      <4>3. ClientFinished(p, s, m, n)
              = [prefix |-> p, shared |-> s, of |-> m, over |-> n, out |-> [client_finished |-> x]]
        BY Zenon DEF ClientFinished
      <4> HIDE DEF x, y, n
      <4>4. Named(new, p, s, m, n)
        BY <4>1, <4>2, <4>3, Zenon DEF Named
      <4> QED
        BY <2>3, <3>1, <3>7, <4>1, <4>4
    <3> QED
      BY <2>6, <3>8, <3>9
  <2>7. CASE UNCHANGED transcriptVars
    BY <2>7 DEF transcriptVars, DerivedAsNamed
  <2> QED
    BY <2>1, <2>2, <2>5, <2>6, <2>7 DEF TranscriptNext
<1> QED
  BY Invariance, <1>1, <1>2, PTL DEF TranscriptSpec

\* Whatever a derivation put out begins as it should, and its fields tell the
\* keys, the server's Finished and the client's from each other.
LEMMA NamedFirst ==
  ASSUME NEW p \in Prefix, NEW s \in Shared, NEW m \in Seq(Octet), NEW n \in Seq(Octet),
         NEW d, Named(d, p, s, m, n), NEW f \in DOMAIN d.out
  PROVE  /\ d.prefix = p /\ d.shared = s
         /\ Given(p, s, Digest(m)) /\ Secret(Digest(n))
         /\ FirstByte(Head(d.out[f]), f, p, s, Digest(m), Digest(n))
         /\ \/ f \in Field /\ m = n /\ d = KeysFrom(p, s, m)
            \/ f = "server_finished" /\ d = ServerFinished(p, s, m, n)
            \/ f = "client_finished" /\ d = ClientFinished(p, s, m, n)
<1> DEFINE h == Digest(m)
           v == Digest(n)
<1>1. Given(p, s, h) /\ Secret(v)
  <2>1. IsSeq(s) /\ IsSeq(m) /\ IsSeq(n)
    BY TranscriptAssumption DEF IsSeq
  <2> QED
    BY <2>1, DigestBytes DEF Given, Secret
<1>2. d.prefix = p /\ d.shared = s
  BY DEF Named, KeysFrom, ServerFinished, ClientFinished
<1>3. ClientLabel \in Traffic /\ ServerLabel \in Traffic
  BY DEF Traffic
<1>4. CASE m = n /\ d = KeysFrom(p, s, m)
  <2>1. d.out = HandshakeKeys(p, s, h)
    BY <1>4 DEF KeysFrom
  <2>2. f \in Field
    BY <2>1, KeyFields
  <2>3. FirstByte(Head(d.out[f]), f, p, s, h, v)
    BY <1>1, <2>1, <2>2, KeysFirst
  <2> QED
    BY <1>1, <1>2, <1>4, <2>2, <2>3
<1>5. CASE d = ServerFinished(p, s, m, n)
  <2> DEFINE x == Hmac(FinishedKey(p, s, h, ServerLabel), v)
  <2>1. d.out = [server_finished |-> x]
    BY <1>5 DEF ServerFinished
  <2> HIDE DEF x
  <2>2. f = "server_finished" /\ d.out[f] = x
    BY <2>1
  <2>3. FinishedField(f, ServerLabel)
    BY <2>2 DEF FinishedField
  <2>4. FirstByte(Head(x), f, p, s, h, v)
    BY <1>1, <1>3, <2>3, FinishedFirst DEF x
  <2> QED
    BY <1>1, <1>2, <1>5, <2>2, <2>4
<1>6. CASE d = ClientFinished(p, s, m, n)
  <2> DEFINE x == Hmac(FinishedKey(p, s, h, ClientLabel), v)
  <2>1. d.out = [client_finished |-> x]
    BY <1>6 DEF ClientFinished
  <2> HIDE DEF x
  <2>2. f = "client_finished" /\ d.out[f] = x
    BY <2>1
  <2>3. FinishedField(f, ClientLabel)
    BY <2>2 DEF FinishedField
  <2>4. FirstByte(Head(x), f, p, s, h, v)
    BY <1>1, <1>3, <2>3, FinishedFirst DEF x
  <2> QED
    BY <1>1, <1>2, <1>6, <2>2, <2>4
<1> QED
  BY <1>4, <1>5, <1>6 DEF Named

\* No two secrets of the key schedule coincide, not even in their first byte
\* (nd_derive_handshake_keys, nd_finished_compute): whatever is shared, however
\* long the messages, the hash and the keys are, each output tells which one
\* it is, the protocol, the shared secret and, but for the handshake secret,
\* the transcript; a Finished also the later messages it is over.  The
\* compression function is ideal; that HMAC, HKDF and the labels lose nothing
\* of what goes into it is what is proved.
THEOREM Separation == TranscriptSpec => []KeysSeparated
<1>1. DerivedAsNamed => KeysSeparated
  <2> SUFFICES ASSUME DerivedAsNamed,
                      NEW d \in derived, NEW e \in derived,
                      NEW f1 \in DOMAIN d.out, NEW f2 \in DOMAIN e.out,
                      Head(d.out[f1]) = Head(e.out[f2])
               PROVE  /\ f1 = f2
                      /\ d = e \/ (f1 = "handshake_secret" /\ d.shared = e.shared
                                                           /\ d.prefix = e.prefix)
    BY DEF KeysSeparated
  <2>1. PICK p \in Prefix, s \in Shared, m \in Seq(Octet), k \in Seq(Octet) : Named(d, p, s, m, k)
    BY DEF DerivedAsNamed
  <2>2. PICK q \in Prefix, t \in Shared, n \in Seq(Octet), l \in Seq(Octet) : Named(e, q, t, n, l)
    BY DEF DerivedAsNamed
  <2> DEFINE g == Digest(m)
             h == Digest(n)
             v == Digest(k)
             w == Digest(l)
             x == Head(d.out[f1])
  <2>3. /\ d.prefix = p /\ d.shared = s /\ Given(p, s, g) /\ Secret(v)
        /\ FirstByte(x, f1, p, s, g, v)
    BY <2>1, NamedFirst
  <2>4. /\ e.prefix = q /\ e.shared = t /\ Given(q, t, h) /\ Secret(w)
        /\ FirstByte(x, f2, q, t, h, w)
    BY <2>2, NamedFirst
  <2>5. /\ f1 = f2 /\ p = q /\ s = t /\ (f1 # "handshake_secret" => g = h)
        /\ f1 \notin Field => v = w
    <3> HIDE DEF x, g, h, v, w
    <3> QED
      BY <2>3, <2>4, FirstByteTells
  <2>6. (g = h => m = n) /\ (v = w => k = l)
    <3>1. IsSeq(m) /\ IsSeq(n) /\ IsSeq(k) /\ IsSeq(l)
      BY DEF IsSeq
    <3> QED
      BY <3>1, DigestInjective
  <2>7. \/ f1 \in Field /\ m = k /\ d = KeysFrom(p, s, m)
        \/ f1 = "server_finished" /\ d = ServerFinished(p, s, m, k)
        \/ f1 = "client_finished" /\ d = ClientFinished(p, s, m, k)
    BY <2>1, NamedFirst
  <2>8. \/ f2 \in Field /\ n = l /\ e = KeysFrom(q, t, n)
        \/ f2 = "server_finished" /\ e = ServerFinished(q, t, n, l)
        \/ f2 = "client_finished" /\ e = ClientFinished(q, t, n, l)
    BY <2>2, NamedFirst
  <2>9. /\ "server_finished" \notin Field /\ "client_finished" \notin Field
        /\ "server_finished" # "client_finished"
        /\ "server_finished" # "handshake_secret" /\ "client_finished" # "handshake_secret"
    BY DEF Field
  <2> HIDE DEF g, h, v, w
  <2>10. f1 # "handshake_secret" => d = e
    BY <2>5, <2>6, <2>7, <2>8, <2>9
  <2> QED
    BY <2>3, <2>4, <2>5, <2>10
<1> QED
  BY Derivations, <1>1, PTL
=============================================================================
