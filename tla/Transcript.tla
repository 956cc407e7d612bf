----------------------------- MODULE Transcript -----------------------------
(***************************************************************************)
(* The transcript (src/handshake/transcript.c): handshake messages go into *)
(* it, its hash is taken in between, and keys are derived from that hash.  *)
(* The compression function is ideal; what is checked is the use that the  *)
(* code makes of it.                                                       *)
(***************************************************************************)
EXTENDS Hkdf, FiniteSets

CONSTANTS
  Message,      \* handshake messages, as sequences of bytes
  Shared,       \* X25519 results
  MaxAdded,     \* bound on the bytes of the transcript
  MaxKeys,      \* bound on the key derivations
  MaxDerived    \* bound on the key derivations and the Finished together

ASSUME TranscriptAssumption == Message \cup Shared \subseteq Seq({Lit(n) : n \in 0 .. 255})

VARIABLES
  ctx,       \* nd_transcript
  added,     \* history: all bytes added to it
  snapshot,  \* the last nd_transcript_snapshot, and what it was taken of
  derived    \* what was derived so far: keys from the messages `of', a Finished with
             \* these keys over the messages `over'

transcriptVars == <<ctx, added, snapshot, derived>>

None == [none |-> TRUE]

TranscriptInit ==
  ctx = Sha256Init /\ added = <<>> /\ snapshot = None /\ derived = {}

\* nd_transcript_add
TranscriptAdd(m) ==
  /\ Len(added) + Len(m) <= MaxAdded
  /\ ctx' = Sha256Update(ctx, m)
  /\ added' = added \o m
  /\ UNCHANGED <<snapshot, derived>>

\* nd_transcript_snapshot finalizes a copy of the context.
TranscriptSnapshot ==
  /\ snapshot' = [of |-> added, hash |-> Sha256Final(ctx)]
  /\ UNCHANGED <<ctx, added, derived>>

Keys == {d \in derived : d.over = d.of}

\* nd_derive_handshake_keys, from a snapshot: in a handshake, that of the hellos
Derive(prefix, shared) ==
  /\ snapshot # None
  /\ Cardinality(Keys) < MaxKeys /\ Cardinality(derived) < MaxDerived
  /\ derived' = derived \cup {[prefix |-> prefix, shared |-> shared,
                               of |-> snapshot.of, over |-> snapshot.of,
                               out |-> HandshakeKeys(prefix, shared, snapshot.hash)]}
  /\ UNCHANGED <<ctx, added, snapshot>>

\* nd_finished_compute with the keys that were derived before, over a snapshot
\* that has more messages by now
Finish(keys, out) ==
  /\ snapshot.of # keys.of /\ Cardinality(derived) < MaxDerived
  /\ derived' = derived \cup {[keys EXCEPT !.over = snapshot.of, !.out = out]}
  /\ UNCHANGED <<ctx, added, snapshot>>

FinishServer(keys) ==
  Finish(keys, [server_finished |->
                  FinishedVerifyData(keys.prefix, keys.out.server_secret, snapshot.hash)])

FinishClient(keys) ==
  Finish(keys, [client_finished |->
                  FinishedVerifyData(keys.prefix, keys.out.client_secret, snapshot.hash)])

TranscriptNext ==
  \/ \E m \in Message : TranscriptAdd(m)
  \/ TranscriptSnapshot
  \/ \E prefix \in {Dtls13, Tls13}, shared \in Shared : Derive(prefix, shared)
  \/ \E keys \in Keys : FinishServer(keys) \/ FinishClient(keys)

TranscriptSpec == TranscriptInit /\ [][TranscriptNext]_transcriptVars

-----------------------------------------------------------------------------
\* A snapshot is the SHA-256 of the concatenation of the messages added until
\* then, however they were cut up, wherever they end in a block, and whatever
\* snapshots were taken before (nd_transcript_snapshot "without disturbing t",
\* transcript.h).
SnapshotExact == snapshot # None => snapshot.hash = Digest(snapshot.of)

\* No two secrets coincide, not even in their first byte: not the two
\* directions, not a key and an IV or a Finished, not the keys of two
\* handshakes that differ in the shared secret, in a message or in the
\* protocol (the prefix of hkdf.h), not two Finished that differ in a message
\* after the hellos.  Only the handshake secret does not depend on messages.
KeysSeparated ==
  \A d1, d2 \in derived : \A f1 \in DOMAIN d1.out, f2 \in DOMAIN d2.out :
    Head(d1.out[f1]) = Head(d2.out[f2]) =>
      /\ f1 = f2
      /\ d1 = d2 \/ (f1 = "handshake_secret" /\ d1.shared = d2.shared
                                             /\ d1.prefix = d2.prefix)
=============================================================================
