------------------------------- MODULE Sha256 -------------------------------
(***************************************************************************)
(* SHA-256 and HMAC (src/crypto/sha256.c, hmac_sha256.c) around an ideal   *)
(* compression function: the chaining value is the sequence of the blocks  *)
(* compressed so far.  A byte is <<"lit", n>>, a byte of a digest,         *)
(* or such a byte under one of HMAC's two pads.                            *)
(***************************************************************************)
EXTENDS Integers, SequencesExt

CONSTANTS
  BlockLen,   \* ND_SHA256_BLOCK_LEN (64)
  HashLen,    \* ND_SHA256_DIGEST_LEN (32)
  CountLen    \* bytes of the length that ends the last block (8)

ASSUME ShaAssumption ==
  /\ {BlockLen, HashLen, CountLen} \subseteq Nat \ {0}
  /\ CountLen < BlockLen /\ HashLen <= BlockLen

Lit(n) == <<"lit", n>>
Zeros(n) == [i \in 1 .. n |-> Lit(0)]
BigEndian(n, v) == [i \in 1 .. n |-> Lit((v \div 256 ^ (n - i)) % 256)]

\* nd_sha256_init
Sha256Init == [h |-> <<>>, total |-> 0, buf |-> <<>>]

\* One byte goes into the buffer, a full buffer into the chaining value.
Absorb(ctx, x) ==
  LET buf == Append(ctx.buf, x)
  IN  IF Len(buf) = BlockLen THEN [ctx EXCEPT !.h = Append(@, buf), !.buf = <<>>]
                             ELSE [ctx EXCEPT !.buf = buf]

\* nd_sha256_update
Sha256Update(ctx, data) ==
  LET after[i \in 0 .. Len(data)] ==
        IF i = 0 THEN [ctx EXCEPT !.total = @ + Len(data)] ELSE Absorb(after[i - 1], data[i])
  IN  after[Len(data)]

\* How many zero bytes the loop of nd_sha256_final adds until buf_len is 56.
\* The faulty form adds none when the length no longer fits in the block.
ZeroCountShort(buf_len) ==
  IF buf_len <= BlockLen - CountLen THEN BlockLen - CountLen - buf_len ELSE 0

ZeroCount(buf_len) == (2 * BlockLen - CountLen - buf_len) % BlockLen

\* nd_sha256_final: a one bit, zeros, the length
FillBlock(ctx) == Sha256Update(ctx, Zeros(ZeroCount(Len(ctx.buf))))

Sha256Final(ctx) ==
  LET filled == FillBlock(Sha256Update(ctx, <<Lit(128)>>))
      last   == Sha256Update(filled, BigEndian(CountLen, ctx.total * 8))
  IN  [i \in 1 .. HashLen |-> <<"sha", last.h, i>>]

\* nd_sha256
Sha256(data) == Sha256Final(Sha256Update(Sha256Init, data))

-----------------------------------------------------------------------------
\* A key is filled up with zeros to a block, or hashed first when longer.
ZeroFilled(k) == k \o Zeros(BlockLen - Len(k))

KeyBlock(key) == ZeroFilled(IF Len(key) > BlockLen THEN Sha256(key) ELSE key)

Ipad(block) == [i \in 1 .. BlockLen |-> <<"ipad", block[i]>>]
Opad(block) == [i \in 1 .. BlockLen |-> <<"opad", block[i]>>]

\* nd_hmac_sha256
KeyedHash(block, data) == Sha256Final(Sha256Update(Sha256Update(Sha256Init, block), data))

HmacWith(block, data) == KeyedHash(Opad(block), KeyedHash(Ipad(block), data))

Hmac(key, data) == HmacWith(KeyBlock(key), data)

-----------------------------------------------------------------------------
\* The digest by its definition (FIPS 180-4, section 5.1.1): the message, a
\* one bit, the fewest zeros, and the length, in blocks.
Padded(m) ==
  LET k == CHOOSE k \in 0 .. BlockLen - 1 : (Len(m) + 1 + k + CountLen) % BlockLen = 0
  IN  m \o <<Lit(128)>> \o Zeros(k) \o BigEndian(CountLen, 8 * Len(m))

Digest(m) ==
  LET p == Padded(m)
      blocks == [i \in 1 .. Len(p) \div BlockLen |->
                   SubSeq(p, (i - 1) * BlockLen + 1, i * BlockLen)]
  IN  [i \in 1 .. HashLen |-> <<"sha", blocks, i>>]
=============================================================================
