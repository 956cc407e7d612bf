------------------------------ MODULE MCCrypto ------------------------------
(***************************************************************************)
(* The cryptographic primitives and the secrets built from them, for TLC:  *)
(* transcript and key schedule, sealing of records, Poly1305, X25519 and   *)
(* ECDSA.  They share no state: a behaviour exercises one of them while    *)
(* the others rest.                                                        *)
(***************************************************************************)
EXTENDS Transcript, Sealing, Poly1305, X25519, Ecdsa, Bitwise

a == Lit(1)
b == Lit(2)

\* Messages shorter and longer than a block
MCMessage == {<<>>, <<a>>, <<b, a, a, b, a>>}
MCShared == {<<Lit(7)>>, <<Lit(8)>>}

\* Two keys, one of them with an IV that the sequence number can turn into
\* the other
MCIv == [k \in WriteKey |-> IF k = 1 THEN <<1, 0, 3>> ELSE <<1, 0, 2>>]

MCXor(p, q) == p ^^ q

x == <<"text", 1>>
y == <<"text", 2>>
z == <<"zero", 0>>     \* a zero byte in the data looks like padding
MCAad == {<<>>, <<x>>}
MCPlain == {<<>>, <<x>>, <<x, z>>, <<z, y, x>>}

\* Keys: the product by one and by two, that by the largest r, and one
\* without a pattern
MCClampMask == <<63, 62, 62, 62>>
MCMacKey ==
  {<<r, pad>> : r \in {<<1, 0, 0, 0>>, <<2, 0, 0, 0>>, <<127, 127, 127, 127>>,
                       <<0, 0, 0, 127>>, <<101, 37, 90, 11>>},
                pad \in {<<0, 0, 0, 0>>, <<127, 127, 127, 127>>}}

\* Two full blocks of the second kind add up to 2^30 - 10 .. 2^30 - 2, on both
\* sides of the prime.
MCChunk ==
  {<<0>>, <<127>>}
    \cup {<<i, 127, 127, 127>> : i \in {0} \cup 122 .. 127}
    \cup {<<127, 0, 127, 0, 0>>, <<127, 0, 127, 0, 1>>, <<0, 0, 0, 127, 127>>}

\* Scalars with every bit of the middle set, clear and mixed; coordinates
\* around 0, the prime, the topmost bit and a limb
MCScalar == {0, 8, 12345, 16383, 21845, 32767, 40000, 65535}
MCCoordinate ==
  (0 .. 12) \cup {254, 255, 256, 7777, 32512, 32740} \cup (32746 .. 32752) \cup {32767, 32768, 32777, 40000, 65535}

\* The generator, its opposite, some multiples, and pairs that are no point:
\* off the curve, and the generator with a coordinate not reduced
MCPublicKey ==
  {Multiples[d] : d \in {1, 2, 27, 52}} \cup {<<1, 26>>, <<0, 0>>, <<1 + P, GY>>}

-----------------------------------------------------------------------------
TranscriptRests == TranscriptInit
SealingRests == SealInit
MacRests == PolyInit /\ key = <<<<1, 0, 0, 0>>, <<0, 0, 0, 0>>>>
X25519Rests == X25519Init
EcdsaRests == EcdsaInit

\* The last derivation ends the exploration.
TranscriptStep ==
  /\ SealingRests /\ MacRests /\ X25519Rests /\ EcdsaRests
  /\ Cardinality(derived) < MaxDerived
  /\ TranscriptNext
  /\ UNCHANGED <<sealed, polyVars, mult, ecdsaVars>>

SealStep ==
  /\ TranscriptRests /\ MacRests /\ X25519Rests /\ EcdsaRests
  /\ SealNext
  /\ UNCHANGED <<transcriptVars, polyVars, mult, ecdsaVars>>

MacStep ==
  /\ TranscriptRests /\ SealingRests /\ X25519Rests /\ EcdsaRests
  /\ PolyNext
  /\ UNCHANGED <<transcriptVars, sealed, mult, ecdsaVars>>

X25519Step ==
  /\ TranscriptRests /\ SealingRests /\ MacRests /\ EcdsaRests
  /\ X25519Next
  /\ UNCHANGED <<transcriptVars, sealed, polyVars, ecdsaVars>>

EcdsaStep ==
  /\ TranscriptRests /\ SealingRests /\ MacRests /\ X25519Rests
  /\ heard = <<>> /\ limbs = <<>>
  /\ EcdsaNext
  /\ UNCHANGED <<transcriptVars, sealed, polyVars, mult>>

MCInit == TranscriptInit /\ SealInit /\ PolyInit /\ X25519Init /\ EcdsaInit

MCSpec ==
  /\ MCInit
  /\ [][TranscriptStep \/ SealStep \/ MacStep \/ X25519Step \/ EcdsaStep]_<<
         transcriptVars, sealed, polyVars, mult, ecdsaVars>>
=============================================================================
