-------------------------------- MODULE Ecdsa --------------------------------
(***************************************************************************)
(* Calls of nd_demo_p256_ecdsa_sign (tools/p256_sign_demo.c), which draws  *)
(* random numbers until one gives a signature, of nd_p256_ecdsa_verify     *)
(* (src/crypto/p256.c) with whatever a peer sends, and of the modular      *)
(* arithmetic that both are made of.                                       *)
(***************************************************************************)
EXTENDS P256

CONSTANTS
  PrivateKey,    \* private keys, in 1 .. N - 1
  Hash,          \* hashes, as 256-bit numbers
  Draws,         \* what nd_random_bytes may deliver, as 256-bit numbers
  MaxAttempts,   \* draws before the signer gives up (64)
  PublicKey,     \* pairs of coordinates a certificate may carry
  SignatureInt   \* the numbers r and s of a signature that is received

ASSUME EcdsaAssumption ==
  /\ PrivateKey \subseteq 1 .. N - 1
  /\ Hash \cup Draws \cup SignatureInt \subseteq Bn
  /\ PublicKey \subseteq Bn \X Bn
  /\ MaxAttempts \in Nat \ {0}

VARIABLES
  signer,    \* the call of the signer: its stage, d, hash, attempt and signature
  heard,     \* the last call of nd_p256_ecdsa_verify and its verdict
  limbs      \* the last call of the modular arithmetic by itself

ecdsaVars == <<signer, heard, limbs>>

EcdsaInit ==
  /\ signer = [stage |-> "idle", d |-> 0, hash |-> 0, attempt |-> 0, sig |-> <<>>]
  /\ heard = <<>> /\ limbs = <<>>

SignCall(d, hash) ==
  /\ signer.stage = "idle"
  /\ signer' = [stage |-> "draws", d |-> d, hash |-> hash, attempt |-> 0, sig |-> <<>>]
  /\ UNCHANGED <<heard, limbs>>

\* nd_random_bytes fails: ND_ERR_BAD_ARG
RandomFails ==
  /\ signer.stage = "draws"
  /\ signer' = [signer EXCEPT !.stage = "failed"]
  /\ UNCHANGED <<heard, limbs>>

\* One round of the loop; after the last the signer returns ND_ERR_BAD_ARG.
AfterDraw(sig) ==
  [signer EXCEPT !.sig = sig,
                 !.attempt = @ + 1,
                 !.stage = IF sig # <<>> THEN "signed"
                           ELSE IF signer.attempt + 1 = MaxAttempts THEN "failed" ELSE "draws"]

Draw(k) ==
  /\ signer.stage = "draws"
  /\ signer' = AfterDraw(SignAttempt(signer.d, signer.hash, k))
  /\ UNCHANGED <<heard, limbs>>

VerifyCall(q, hash, r, s) ==
  /\ signer.stage = "idle"
  /\ heard' = [q |-> q, hash |-> hash, r |-> r, s |-> s,
               ok |-> EcdsaVerify(q[1], q[2], hash, r, s)]
  /\ UNCHANGED <<signer, limbs>>

\* A call of the modular arithmetic on the limbs; mod_inv and
\* mod_reduce_once have one operand.
LimbCall(op, a, b, m) ==
  /\ signer.stage = "idle"
  /\ limbs' = [op |-> op, a |-> a, b |-> b, m |-> m, out |-> OnLimbs(op, a, b, m)]
  /\ UNCHANGED <<signer, heard>>

EcdsaNext ==
  \/ \E d \in PrivateKey, hash \in Hash : SignCall(d, hash)
  \/ RandomFails
  \/ \E k \in Draws : Draw(k)
  \/ \E q \in PublicKey, hash \in Hash, r, s \in SignatureInt : VerifyCall(q, hash, r, s)
  \/ \E m \in {P, N} :
       \/ \E op \in {"add", "sub", "mul"}, a, b \in 0 .. m - 1 : LimbCall(op, a, b, m)
       \/ \E a \in 0 .. m - 1 : LimbCall("inv", a, 0, m)
       \/ \E a \in Bn : LimbCall("reduce", a, 0, m)

(***************************************************************************)
(* On numbers that are reduced, which is what point_add, point_double, the *)
(* verifier and the signer pass on, mod_add, mod_sub, mod_mul and mod_inv  *)
(* compute the arithmetic of the field, with every carry and borrow out of *)
(* the highest limb; mod_reduce_once reduces any 256-bit number.           *)
(***************************************************************************)
LimbsExact ==
  limbs # <<>> => limbs.out = InField(limbs.op, limbs.a, limbs.b, limbs.m)

(***************************************************************************)
(* nd_p256_ecdsa_verify accepts a signature exactly when the equation of   *)
(* ECDSA holds for it in the group of the curve: also where the two points *)
(* it adds are equal, opposite or at infinity, where the sum's coordinate  *)
(* exceeds the order, and never for coordinates off the curve, not reduced *)
(* or for r and s out of range.                                            *)
(***************************************************************************)
VerifyExact ==
  heard # <<>> => heard.ok = Signs(heard.q[1], heard.q[2], heard.hash, heard.r, heard.s)

(***************************************************************************)
(* What nd_demo_p256_ecdsa_sign returns is a signature of the hash under   *)
(* the key's public point, however many draws the loop rejected and for    *)
(* every draw it kept: nd_p256_ecdsa_verify accepts it.                    *)
(***************************************************************************)
SignedVerifies ==
  signer.stage = "signed" =>
    LET q == Multiples[signer.d]
    IN  EcdsaVerify(q[1], q[2], signer.hash, signer.sig[1], signer.sig[2])
=============================================================================
