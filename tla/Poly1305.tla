------------------------------ MODULE Poly1305 ------------------------------
(***************************************************************************)
(* src/crypto/poly1305.c: a message authentication code modulo             *)
(* 2^130 - 5, in five limbs of 26 bits kept in 32-bit words.  Here a limb  *)
(* has LimbSize bits and every other size follows the code's: a block of   *)
(* 5 * LimbSize - 2 bits in four words, a register LimbSize + 6 bits wide. *)
(* A "byte" is a whole word of the block, so a block has four of them.     *)
(***************************************************************************)
EXTENDS Integers, Sequences, Bitwise

CONSTANTS
  LimbSize,     \* bits of a limb (26)
  WordSize,     \* bits of one of the block's four words (32)
  ClampMask,    \* clamp_r: the bits of r that may be set, word by word
  MacKey,       \* keys: pairs of r and pad, four words each
  Chunk,        \* what a call of nd_poly1305_update may be given
  MaxMessage    \* bound: words of message under one key

ASSUME PolyAssumption ==
  /\ {LimbSize, WordSize, MaxMessage} \subseteq Nat
  /\ 4 * WordSize = 5 * LimbSize - 2
  /\ DOMAIN ClampMask = 1 .. 4

BlockWords == 4
LimbMod == 2 ^ LimbSize
WordMod == 2 ^ WordSize
Reg32 == 2 ^ (LimbSize + 6)          \* uint32_t
Reg64 == 2 ^ (2 * LimbSize + 12)     \* uint64_t

VARIABLES
  mac,    \* nd_poly1305_ctx: r, s, h, pad and the buffer
  key,    \* the key given to nd_poly1305_init
  said    \* the words given to nd_poly1305_update so far

polyVars == <<mac, key, said>>

\* What a word is wider than a limb
Gap == WordSize - LimbSize

\* bytes_to_limbs: limb i takes what limb i - 1 left of word i, shifted down,
\* and above it the low bits of word i + 1, masked; the last limb takes all of
\* the word after the block.
ToLimbs(words) ==
  LET left(i) == IF i = 0 THEN 0 ELSE words[i] \div 2 ^ (LimbSize - Gap * (i - 1))
      low(i)  == IF i = 4 THEN words[5] ELSE words[i + 1] & (2 ^ (LimbSize - Gap * i) - 1)
  IN  [i \in 0 .. 4 |-> (left(i) | (low(i) * 2 ^ (Gap * i))) % Reg32]

\* What poly1305_mulmod does with the carry out of the fifth limb: five times
\* it goes into the first, and what that carries into the second.
TopCarry(h, carry) ==
  LET h0 == (h[0] + ((carry * 5) % Reg32)) % Reg32
  IN  [h EXCEPT ![0] = h0 % LimbMod, ![1] = (@ + h0 \div LimbMod) % Reg32]

\* poly1305_mulmod
MulMod(h, r, s) ==
  LET d == <<h[0] * r[0] + h[1] * s[3] + h[2] * s[2] + h[3] * s[1] + h[4] * s[0],
             h[0] * r[1] + h[1] * r[0] + h[2] * s[3] + h[3] * s[2] + h[4] * s[1],
             h[0] * r[2] + h[1] * r[1] + h[2] * r[0] + h[3] * s[3] + h[4] * s[2],
             h[0] * r[3] + h[1] * r[2] + h[2] * r[1] + h[3] * r[0] + h[4] * s[3],
             h[0] * r[4] + h[1] * r[3] + h[2] * r[2] + h[3] * r[1] + h[4] * r[0]>>
      e0 == d[1] % Reg64
      e1 == (d[2] + e0 \div LimbMod) % Reg64
      e2 == (d[3] + e1 \div LimbMod) % Reg64
      e3 == (d[4] + e2 \div LimbMod) % Reg64
      e4 == (d[5] + e3 \div LimbMod) % Reg64
      e  == <<e0, e1, e2, e3, e4>>
  IN  TopCarry([i \in 0 .. 4 |-> e[i + 1] % LimbMod], e4 \div LimbMod)

\* A block is added to the accumulator with a one bit after its last byte.
AddBlock(c, block) ==
  LET t == ToLimbs([i \in 1 .. 5 |-> IF i <= Len(block) THEN block[i]
                                     ELSE IF i = Len(block) + 1 THEN 1 ELSE 0])
  IN  [c EXCEPT !.h = MulMod([i \in 0 .. 4 |-> (@[i] + t[i]) % Reg32], c.r, c.s)]

\* nd_poly1305_init
PolyStart(k) ==
  LET r == ToLimbs([i \in 1 .. 5 |-> IF i = 5 THEN 0 ELSE k[1][i] & ClampMask[i]])
  IN  [r |-> r, s |-> [i \in 0 .. 3 |-> (5 * r[i + 1]) % Reg32],
       h |-> [i \in 0 .. 4 |-> 0], pad |-> k[2], buf |-> <<>>]

\* nd_poly1305_update: fill the buffer, then take whole blocks from the data,
\* then keep the rest
Update(c, data) ==
  LET room   == BlockWords - Len(c.buf)
      take   == IF c.buf = <<>> THEN 0 ELSE IF room > Len(data) THEN Len(data) ELSE room
      filled == c.buf \o SubSeq(data, 1, take)
      first  == IF Len(filled) = BlockWords THEN [AddBlock(c, filled) EXCEPT !.buf = <<>>]
                ELSE [c EXCEPT !.buf = filled]
      rest   == SubSeq(data, take + 1, Len(data))
      whole  == Len(rest) \div BlockWords
      after[n \in 0 .. whole] ==
        IF n = 0 THEN first
        ELSE AddBlock(after[n - 1], SubSeq(rest, (n - 1) * BlockWords + 1, n * BlockWords))
      tail   == SubSeq(rest, whole * BlockWords + 1, Len(rest))
  IN  IF tail = <<>> THEN after[whole] ELSE [after[whole] EXCEPT !.buf = tail]

\* One carry from limb i to the next; from the last to the first it counts
\* five times.
Carry(h, i) ==
  LET c == h[i] \div LimbMod
      g == [h EXCEPT ![i] = @ % LimbMod]
  IN  IF i < 4 THEN [g EXCEPT ![i + 1] = (@ + c) % Reg32] ELSE [g EXCEPT ![0] = (@ + c * 5) % Reg32]

\* The carry pass of nd_poly1305_final
FullCarry(h) == Carry(Carry(Carry(Carry(Carry(Carry(h, 1), 2), 3), 4), 0), 1)

\* One trial subtraction of 2^130 - 5.  The faulty form leaves it out.
NotSubtracted(h) == h

SubtractP(h) ==
  LET sub[i \in 0 .. 5] ==
        IF i = 0 THEN <<h, 0>>
        ELSE LET prev == sub[i - 1]
                 d == h[i - 1] - (IF i = 1 THEN LimbMod - 5 ELSE LimbMod - 1) - prev[2]
             IN  <<[prev[1] EXCEPT ![i - 1] = IF d < 0 THEN d + LimbMod ELSE d],
                   IF d < 0 THEN 1 ELSE 0>>
      last == sub[5]
  IN  IF last[2] = 0 THEN last[1] ELSE h

\* nd_poly1305_final: the limbs packed into four words, plus the pad
Final(c) ==
  LET done == IF c.buf = <<>> THEN c ELSE AddBlock(c, c.buf)
      r == SubtractP(FullCarry(done.h))
      w(i) == ((r[i] \div 2 ^ (Gap * i)) | (r[i + 1] * 2 ^ (LimbSize - Gap * i))) % WordMod
      f[i \in 0 .. 4] ==     \* the sum of word i and what it carries on
        IF i = 0 THEN 0 ELSE w(i - 1) + c.pad[i] + f[i - 1] \div WordMod
  IN  [i \in 1 .. 4 |-> f[i] % WordMod]

-----------------------------------------------------------------------------
PolyInit ==
  /\ key \in MacKey
  /\ mac = PolyStart(key)
  /\ said = <<>>

PolyUpdate(data) ==
  /\ Len(said) + Len(data) <= MaxMessage
  /\ mac' = Update(mac, data)
  /\ said' = said \o data
  /\ UNCHANGED key

PolyNext == \E data \in Chunk : PolyUpdate(data)

-----------------------------------------------------------------------------
\* The tag by its definition (RFC 8439, section 2.5), on whole numbers.

PolyPrime == 2 ^ (5 * LimbSize) - 5

\* a * b modulo the prime, by doubling: the product itself is too large.
TimesMod(a, b) ==
  LET acc[i \in 0 .. 5 * LimbSize] ==
        IF i = 0 THEN 0
        ELSE LET twice == (2 * acc[i - 1]) % PolyPrime
             IN  IF (b \div 2 ^ (5 * LimbSize - i)) % 2 = 1 THEN (twice + a) % PolyPrime ELSE twice
  IN  acc[5 * LimbSize]

Number(words) ==
  LET sum[i \in 0 .. Len(words)] ==
        IF i = 0 THEN 0 ELSE sum[i - 1] + words[i] * WordMod ^ (i - 1)
  IN  sum[Len(words)]

ReferenceTag(k, m) ==
  LET r == Number([i \in 1 .. 4 |-> k[1][i] & ClampMask[i]])
      blocks == (Len(m) + BlockWords - 1) \div BlockWords
      acc[n \in 0 .. blocks] ==
        IF n = 0 THEN 0
        ELSE LET b == SubSeq(m, (n - 1) * BlockWords + 1,
                             IF n = blocks THEN Len(m) ELSE n * BlockWords)
             IN  TimesMod((acc[n - 1] + Number(Append(b, 1))) % PolyPrime, r)
      tag == (acc[blocks] + Number(k[2])) % WordMod ^ 4
  IN  [i \in 1 .. 4 |-> (tag \div WordMod ^ (i - 1)) % WordMod]

(***************************************************************************)
(* However the message is cut into calls of nd_poly1305_update, and        *)
(* wherever the accumulator lies (just below, at and just above 2^130 - 5  *)
(* too), the tag nd_poly1305_final would give is the one of the message so *)
(* far.  Carries lost in poly1305_mulmod, a register that overflows or a   *)
(* final reduction that is not complete show as a wrong tag for a few      *)
(* messages only.                                                          *)
(***************************************************************************)
TagExact == Final(mac) = ReferenceTag(key, said)
=============================================================================
