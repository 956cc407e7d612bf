----------------------------- MODULE RecordLayer -----------------------------
(***************************************************************************)
(* Record protection (src/record_protect.c) between a sender and a         *)
(* receiver over a network that loses, repeats and reorders: the sequence  *)
(* number travels modulo Window and the epoch modulo 4, and the receiver   *)
(* takes the candidate nearest to what it knows (src/record.c).  The AEAD  *)
(* is ideal: a record opens only under its own key and its own number.     *)
(***************************************************************************)
EXTENDS Integers

CONSTANTS
  Window,    \* 2^wire_bits: 2^16 as sent, 2^8 as also understood
  MaxSeq,    \* the 48-bit ceiling of sequence numbers
  MaxEpoch,  \* the 16-bit ceiling of epochs
  Epochs,    \* epochs that keys exist for
  MaxSent    \* bound on the records sent; the code has none

ASSUME RecordAssumption ==
  /\ Window \in Nat \ {0} /\ MaxSeq \in Nat /\ (MaxSeq + 1) % Window = 0
  /\ MaxEpoch \in Nat /\ (MaxEpoch + 1) % 4 = 0
  /\ MaxSent \in Nat
  /\ Epochs \subseteq 0 .. MaxEpoch

VARIABLES
  epoch,      \* of both contexts
  next_send,  \* nd_record_protection.next_send_sequence
  highest,    \* nd_record_unprotection.highest_seen_sequence
  sent,       \* the records sent: [epoch, n]
  opened      \* history: the numbers of the records opened

vars == <<epoch, next_send, highest, sent, opened>>

\* Fresh contexts; records of other epochs are still about, under other keys.
Init ==
  /\ epoch \in Epochs
  /\ next_send = 0
  /\ highest = 0
  /\ sent = [epoch : Epochs \ {epoch}, n : {0, 1}]
  /\ opened = {}

-----------------------------------------------------------------------------
(* Reconstruction of the full numbers.                                     *)

Distance(a, b) == IF a > b THEN a - b ELSE b - a

\* A candidate as near as the best one takes its place.
NearerOrEqual(known, ceiling, best, candidate) ==
  IF /\ candidate \in 0 .. ceiling
     /\ best = -1 \/ Distance(candidate, known) <= Distance(best, known)
  THEN candidate ELSE best

\* A candidate replaces the best one so far if it is in range and nearer.
Nearer(known, ceiling, best, candidate) ==
  IF /\ candidate \in 0 .. ceiling
     /\ best = -1 \/ Distance(candidate, known) < Distance(best, known)
  THEN candidate ELSE best

\* nd_reconstruct_epoch: the window below, the same one, the one above.
ReconstructEpoch(known, low2) ==
  LET base == known - (known % 4)
      below == Nearer(known, MaxEpoch, -1, base - 4 + low2)
      same == Nearer(known, MaxEpoch, below, base + low2)
  IN  Nearer(known, MaxEpoch, same, base + 4 + low2)

\* Only the same and the next window are tried.
ReconstructForward(known, wire) ==
  LET base == known - (known % Window)
  IN  Nearer(known, MaxSeq, base + wire, base + Window + wire)

\* The 48-bit ceiling is not enforced.
ReconstructNoCeiling(known, wire) ==
  LET base == known - (known % Window)
      below == Nearer(known, MaxSeq, base + wire, base - Window + wire)
  IN  Nearer(known, MaxSeq + Window, below, base + Window + wire)

\* nd_reconstruct_sequence_number: the same window first.
ReconstructSequence(known, wire) ==
  LET base == known - (known % Window)
      below == Nearer(known, MaxSeq, base + wire, base - Window + wire)
  IN  Nearer(known, MaxSeq, below, base + Window + wire)

-----------------------------------------------------------------------------
\* nd_record_protect, where it succeeds (too long a plaintext or too small a
\* buffer changes nothing).  Nothing keeps the sender below the ceiling.
Protect ==
  /\ next_send < MaxSent
  /\ sent' = sent \cup {[epoch |-> epoch, n |-> next_send]}
  /\ next_send' = next_send + 1
  /\ UNCHANGED <<epoch, highest, opened>>

\* The number nd_record_unprotect tries, and whether the AEAD opens.
Tried(d) == ReconstructSequence(highest, d.n % Window)
Authentic(d) ==
  /\ ReconstructEpoch(epoch, d.epoch % 4) = epoch
  /\ d.epoch = epoch
  /\ Tried(d) = d.n

\* highest_seen_sequence is updated before the tag is checked.
RejectsButAdvances(d) ==
  /\ ~Authentic(d)
  /\ highest' = IF Tried(d) > highest THEN Tried(d) ELSE highest
  /\ UNCHANGED <<epoch, next_send, sent, opened>>

\* The epoch is another one, or the AEAD does not open.
UnprotectRejects(d) ==
  /\ ~Authentic(d)
  /\ UNCHANGED vars

\* The record is authentic but all padding, or too long for plaintext_out.
UnprotectUnusable(d) ==
  /\ Authentic(d)
  /\ UNCHANGED vars

\* highest_seen_sequence follows every record, not only newer ones.
OpensBackwards(d) ==
  /\ Authentic(d)
  /\ opened' = opened \cup {d.n}
  /\ highest' = Tried(d)
  /\ UNCHANGED <<epoch, next_send, sent>>

Opens(d) ==
  /\ Authentic(d)
  /\ opened' = opened \cup {d.n}
  /\ highest' = IF Tried(d) > highest THEN Tried(d) ELSE highest
  /\ UNCHANGED <<epoch, next_send, sent>>

Unprotect(d) == UnprotectRejects(d) \/ UnprotectUnusable(d) \/ Opens(d)

Next ==
  \/ Protect
  \/ \E d \in sent : Unprotect(d)

Spec == Init /\ [][Next]_vars

-----------------------------------------------------------------------------
\* No record above the 48-bit ceiling ever opens.
TypeOK ==
  /\ epoch \in Epochs
  /\ next_send \in 0 .. MaxSent
  /\ highest \in 0 .. MaxSeq
  /\ opened \subseteq 0 .. MaxSeq

\* Whatever the sender has sent opens when it arrives, early or late, as long
\* as it is less than half a window away from the newest number opened and
\* below the 48-bit ceiling.
HalfWindowOpens ==
  \A d \in sent :
    d.epoch = epoch /\ d.n <= MaxSeq /\ 2 * Distance(d.n, highest) < Window
      => Authentic(d)

\* protect.h: "an unauthenticated record must not perturb replay-window
\* state"; the reference number is the newest record really opened.
HighestIsNewest ==
  /\ \A n \in opened : n <= highest
  /\ highest \in opened \cup {0}

\* record.h: the epoch is "the candidate closest to highest_known_epoch (ties
\* broken toward the lower value)", for every record that may arrive.
EpochIsNearest ==
  \A low2 \in 0 .. 3 :
    LET e == ReconstructEpoch(epoch, low2)
    IN  /\ e \in 0 .. MaxEpoch /\ e % 4 = low2
        /\ \A other \in 0 .. MaxEpoch :
             other % 4 = low2 =>
               \/ Distance(e, epoch) < Distance(other, epoch)
               \/ Distance(e, epoch) = Distance(other, epoch) /\ e <= other
=============================================================================
