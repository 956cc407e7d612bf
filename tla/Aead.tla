-------------------------------- MODULE Aead --------------------------------
(***************************************************************************)
(* AEAD_CHACHA20_POLY1305 and the nonces of the record layer               *)
(* (src/crypto/aead_chacha20poly1305.c, chacha20.c, src/record_protect.c). *)
(* The ChaCha20 block function is ideal: the bytes of the block for (key,  *)
(* nonce, counter) are distinct symbols.  Poly1305 is an ideal MAC of the  *)
(* blocks it is given under its one-time key; its arithmetic is in         *)
(* Poly1305.tla.                                                           *)
(***************************************************************************)
EXTENDS Integers, SequencesExt

CONSTANTS
  StreamLen,    \* ND_CHACHA20_BLOCK_LEN (64)
  MacLen,       \* the block of Poly1305 (16)
  CounterMod,   \* 2^32, the range of the block counter
  NonceLen,     \* ND_AEAD_NONCE_LEN (12)
  SeqLen,       \* bytes of the sequence number in the nonce (8)
  ByteMod,      \* 256, the range of a byte of the nonce
  ByteXor(_, _) \* exclusive or of two bytes

ASSUME AeadAssumption ==
  /\ {StreamLen, MacLen, CounterMod, NonceLen, SeqLen, ByteMod} \subseteq Nat \ {0}
  /\ SeqLen <= NonceLen

Byte == 0 .. ByteMod - 1

\* What is needed of exclusive or: done twice, it is undone.
ASSUME XorAssumption == \A p, q \in Byte : ByteXor(p, q) \in Byte /\ ByteXor(p, ByteXor(p, q)) = q

\* A number shifted to the right by 0, 1, ... bytes
Shifted(seq) ==
  LET shift[i \in 0 .. SeqLen] == IF i = 0 THEN seq ELSE shift[i - 1] \div ByteMod
  IN  shift

\* build_nonce: the sequence number, right-aligned, over the IV
Nonce(iv, seq) ==
  [i \in 1 .. NonceLen |->
     IF i <= NonceLen - SeqLen THEN iv[i]
     ELSE ByteXor(iv[i], Shifted(seq)[NonceLen - i] % ByteMod)]

\* Exclusive or with a keystream byte takes it away again.
Mask(x, k) == IF x[1] = "xor" /\ x[3] = k THEN x[2] ELSE <<"xor", x, k>>

\* The counter of the keystream block for the byte at position i (from 1).
\* In the faulty form the blocks of a message begin at the one-time key's.
CounterFromZero(i) == ((i - 1) \div StreamLen) % CounterMod

Counter(i) == (1 + (i - 1) \div StreamLen) % CounterMod

\* nd_chacha20_xor from block 1
ChachaXor(key, nonce, data) ==
  [i \in 1 .. Len(data) |->
     Mask(data[i], <<key, nonce, Counter(i), (i - 1) % StreamLen>>)]

\* derive_otk: the first bytes of block 0
OneTimeKey(key, nonce) == <<key, nonce, 0>>

Pad(s) == s \o [i \in 1 .. (MacLen - (Len(s) % MacLen)) % MacLen |-> <<"zero", 0>>]

\* mac_aad_and_ciphertext; the faulty form leaves out the block of lengths.
MacInputNoLengths(aad, ct) == Pad(aad) \o Pad(ct)

MacInput(aad, ct) == Pad(aad) \o Pad(ct) \o <<<<"len", Len(aad)>>, <<"len", Len(ct)>>>>

Tag(key, nonce, aad, ct) == <<OneTimeKey(key, nonce), MacInput(aad, ct)>>

\* nd_aead_chacha20poly1305_encrypt
Encrypt(key, nonce, aad, plaintext) ==
  LET ct == ChachaXor(key, nonce, plaintext)
  IN  [ct |-> ct, tag |-> Tag(key, nonce, aad, ct)]

\* nd_aead_chacha20poly1305_decrypt: no plaintext before the tag is checked
Decrypt(key, nonce, aad, ct, tag) ==
  IF tag # Tag(key, nonce, aad, ct) THEN [ok |-> FALSE]
  ELSE [ok |-> TRUE, plaintext |-> ChachaXor(key, nonce, ct)]
=============================================================================
