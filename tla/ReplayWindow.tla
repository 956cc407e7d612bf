---------------------------- MODULE ReplayWindow ----------------------------
(***************************************************************************)
(* The anti-replay sliding window of src/replay.c, used the way            *)
(* include/nanodtls/replay.h prescribes: check a record's number, verify   *)
(* its AEAD tag, and only then accept the number.                          *)
(*                                                                         *)
(* The 64-bit word `bitmap' is the set of positions of its one bits; bit i *)
(* stands for the number highest_seen - i.                                 *)
(***************************************************************************)
EXTENDS Integers

CONSTANTS
  SeqNum,   \* the sequence numbers that arriving records carry
  Window    \* the number of bits of the bitmap (64 in the code)

ASSUME SeqNumAssumption == SeqNum \subseteq Nat
ASSUME WindowAssumption == Window \in Nat \ {0}

VARIABLES
  highest_seen,      \* nd_replay_window.highest_seen
  bitmap,            \* nd_replay_window.bitmap
  has_received_any,  \* nd_replay_window.has_received_any
  pending,           \* a number that passed the check and awaits its AEAD result
  delivered,         \* history: every number accepted so far
  count              \* history: how many times a number was accepted

window == <<highest_seen, bitmap, has_received_any>>
history == <<delivered, count>>
vars == <<window, pending, history>>

NoRecord == -1
Bits == 0 .. Window - 1

-----------------------------------------------------------------------------
\* nd_replay_window_init
Init ==
  /\ highest_seen = 0
  /\ bitmap = {}
  /\ has_received_any = FALSE
  /\ pending = NoRecord
  /\ delivered = {}
  /\ count = 0

\* A window one bit wider than the bitmap: the edge is taken with <= .
CheckTooWide(seq) ==
  \/ ~has_received_any
  \/ seq > highest_seen
  \/ highest_seen - seq <= Window /\ highest_seen - seq \notin bitmap

\* A window one bit narrower than the bitmap.
CheckTooNarrow(seq) ==
  \/ ~has_received_any
  \/ seq > highest_seen
  \/ highest_seen - seq < Window - 1 /\ highest_seen - seq \notin bitmap

\* nd_replay_window_check: 1 (fresh) for a new high-water mark or for a
\* number inside the trailing window whose bit is clear.
Fresh(seq) ==
  \/ ~has_received_any
  \/ seq > highest_seen
  \/ highest_seen - seq < Window /\ highest_seen - seq \notin bitmap

\* The bits pushed past the top of the word are kept.
ShiftLeftUnbounded(bits, shift) == {b + shift : b \in bits}

\* bitmap << shift: bits pushed past the top of the word are lost, so a
\* shift of Window or more leaves none.
ShiftLeft(bits, shift) == {b \in Bits : b - shift \in bits}

\* The new high-water mark's own bit is not set after the shift.
AcceptForgetsNewest(seq) ==
  /\ has_received_any' = TRUE
  /\ highest_seen' = IF seq > highest_seen THEN seq ELSE highest_seen
  /\ bitmap' = IF seq > highest_seen THEN ShiftLeft(bitmap, seq - highest_seen)
               ELSE bitmap \cup {highest_seen - seq}

\* nd_replay_window_accept
Accept(seq) ==
  \/ /\ ~has_received_any
     /\ highest_seen' = seq
     /\ bitmap' = {0}
     /\ has_received_any' = TRUE
  \/ /\ has_received_any
     /\ seq > highest_seen
     /\ bitmap' = ShiftLeft(bitmap, seq - highest_seen) \cup {0}
     /\ highest_seen' = seq
     /\ UNCHANGED has_received_any
  \/ /\ has_received_any
     /\ seq <= highest_seen
     /\ bitmap' = bitmap \cup ({highest_seen - seq} \cap Bits)
     /\ UNCHANGED <<highest_seen, has_received_any>>

-----------------------------------------------------------------------------
(* The caller's protocol (replay.h, "two-phase by design").                *)

\* A record that fails the pre-filter is dropped without a trace.
DropRecord(seq) ==
  /\ pending = NoRecord
  /\ ~Fresh(seq)
  /\ UNCHANGED vars

\* Phase 1, before the AEAD runs: the pre-filter.
CheckRecord(seq) ==
  /\ pending = NoRecord
  /\ Fresh(seq)
  /\ pending' = seq
  /\ UNCHANGED <<window, history>>

\* The tag does not verify: the window must not be touched.
AuthFails ==
  /\ pending # NoRecord
  /\ pending' = NoRecord
  /\ UNCHANGED <<window, history>>

\* Phase 2, after the tag has verified.
AcceptRecord ==
  /\ pending # NoRecord
  /\ Accept(pending)
  /\ delivered' = delivered \cup {pending}
  /\ count' = count + 1
  /\ pending' = NoRecord

Next ==
  \/ \E seq \in SeqNum : CheckRecord(seq) \/ DropRecord(seq)
  \/ AuthFails
  \/ AcceptRecord

Spec == Init /\ [][Next]_vars

-----------------------------------------------------------------------------
TypeOK ==
  /\ highest_seen \in Nat
  /\ bitmap \in SUBSET Bits
  /\ has_received_any \in BOOLEAN
  /\ pending \in SeqNum \cup {NoRecord}
  /\ delivered \in SUBSET SeqNum
  /\ count \in Nat

\* The comment on nd_replay_window.bitmap: "bit i set <=> sequence
\* (highest_seen - i) has been accepted", through every slide of the window,
\* and no accepted number lies above the high-water mark.
WindowExact ==
  /\ ~has_received_any => delivered = {} /\ bitmap = {}
  /\ has_received_any =>
       /\ highest_seen \in delivered
       /\ \A seq \in delivered : seq <= highest_seen
       /\ \A i \in Bits : i \in bitmap <=> highest_seen - i \in delivered

\* No replay: a number that passes nd_replay_window_check was never accepted
\* before, also when the window has slid past it in the meantime.
NoReplay == \A seq \in SeqNum : Fresh(seq) => seq \notin delivered

\* No false alarm: what the check refuses was accepted before, or lies Window
\* or more below the high-water mark (replay.h: "a duplicate or falls outside
\* the window").
NoFalseReject ==
  \A seq \in SeqNum : ~Fresh(seq) => seq \in delivered \/ seq + Window <= highest_seen

\* The window implements the at-most-once promise: every acceptance, however
\* far the window has slid, is of a number never accepted before.
AR == INSTANCE AntiReplay
AtMostOnce == AR!Spec
=============================================================================
