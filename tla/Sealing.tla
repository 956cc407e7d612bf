------------------------------ MODULE Sealing ------------------------------
(***************************************************************************)
(* Records sealed with AEAD_CHACHA20_POLY1305 (src/record_protect.c over   *)
(* src/crypto/aead_chacha20poly1305.c): which nonces and keystream blocks  *)
(* they take, and what opens.  Cipher and MAC are ideal.                   *)
(***************************************************************************)
EXTENDS Aead, FiniteSets

CONSTANTS
  WriteKey,     \* AEAD keys in use
  Iv,           \* Iv[k]: the IV that goes with key k
  Aad, Plain,   \* record headers and contents
  MaxSealed     \* bound on the records sealed under a key

\* A byte of a header or of the contents
TextByte == {"text", "zero"} \X Nat

\* Sequence numbers fit in the nonce (64 bits in 8 bytes), and a record does
\* not wrap the block counter (ND_RECORD_PROTECT_MAX_INNER is far below).
ASSUME SealAssumption ==
  /\ MaxSealed \in Nat /\ \A seq \in 0 .. MaxSealed - 1 : Shifted(seq)[SeqLen] = 0
  /\ Iv \in [WriteKey -> [1 .. NonceLen -> Byte]]
  /\ Aad \subseteq Seq(TextByte) /\ Plain \subseteq Seq(TextByte)
  /\ \A plain \in Plain : Len(plain) <= StreamLen * (CounterMod - 1)

VARIABLE sealed   \* the records sealed so far

Under(key) == {rec \in sealed : rec.key = key}

\* nd_record_protect from the nonce on: the sequence number of a key counts up
\* from zero.  That the contents with their type byte and the record fit, and
\* the header, come before (Protect in RecordLayer, "record" in Wire).
Seal(key, aad, plain) ==
  LET seq == Cardinality(Under(key))
      nonce == Nonce(Iv[key], seq)
      out == Encrypt(key, nonce, aad, plain)
  IN  /\ seq < MaxSealed
      /\ sealed' = sealed \cup {[key |-> key, seq |-> seq, nonce |-> nonce, aad |-> aad,
                                 plain |-> plain, ct |-> out.ct, tag |-> out.tag]}

SealInit == sealed = {}

SealNext == \E key \in WriteKey, aad \in Aad, plain \in Plain : Seal(key, aad, plain)

SealSpec == SealInit /\ [][SealNext]_sealed

-----------------------------------------------------------------------------
\* nd_aead_chacha20poly1305_decrypt opens what was sealed and nothing else:
\* not under another key or nonce, not with another header, not a part of a
\* ciphertext, not with bytes moved between header and ciphertext.
OpensOnlySealed ==
  \A a, b \in sealed :
    \A aad \in Aad \cup {a.ct}, ct \in {a.ct, b.ct, b.aad, SubSeq(b.ct, 1, Len(b.ct) - 1)} :
      LET opened == Decrypt(a.key, a.nonce, aad, ct, b.tag)
      IN  IF a = b /\ aad = a.aad /\ ct = a.ct
          THEN opened = [ok |-> TRUE, plaintext |-> a.plain]
          ELSE opened.ok => <<a.key, a.nonce, aad, ct>> = <<b.key, b.nonce, b.aad, b.ct>>

\* The keystream blocks that a record is encrypted with
Blocks(rec) == {<<rec.key, rec.nonce, Counter(i)>> : i \in 1 .. Len(rec.plain)}

\* No keystream block is used for two records, and none that encrypts is the
\* one that keys Poly1305.
KeystreamFresh ==
  /\ \A a, b \in sealed : a # b => Blocks(a) \cap Blocks(b) = {}
  /\ \A a, b \in sealed : OneTimeKey(a.key, a.nonce) \notin Blocks(b)
=============================================================================
