----------------------------- MODULE Reassembly -----------------------------
(***************************************************************************)
(* nd_reassembly (src/reassembly.c): one handshake message put together    *)
(* from fragments that arrive in any order, overlap and repeat.  A message *)
(* is named by its (msg_type, message_seq); its byte at position p is the  *)
(* pair <<msg, p>>, so that a byte out of place shows.                     *)
(***************************************************************************)
EXTENDS Integers

CONSTANTS
  Msg,      \* the messages, as <<msg_type, message_seq>>
  MaxLen,   \* ND_REASSEMBLY_MAX_LEN
  Header    \* the headers that arrive: [msg, length, offset, flen]

None == <<>>   \* no message

ASSUME ReassemblyAssumption ==
  /\ MaxLen \in Nat
  /\ Header \subseteq [msg : Msg, length : Nat, offset : Nat, flen : Nat]
  /\ None \notin Msg

VARIABLES
  in_progress,  \* the message being reassembled, or None
  total_len,    \* its length
  received,     \* the positions marked in the received[] array
  buf,          \* the buffer
  accepted      \* history: the fragments taken since the context was reset

vars == <<in_progress, total_len, received, buf, accepted>>

Positions == 0 .. MaxLen - 1
Stale == <<None, 0>>

\* The positions a fragment covers.
Span(hdr) == hdr.offset .. hdr.offset + hdr.flen - 1

\* nd_reassembly_init: the buffer itself is not cleared.
ReassemblyInit ==
  /\ in_progress' = None
  /\ total_len' = 0
  /\ received' = {}
  /\ accepted' = {}
  /\ UNCHANGED buf

Init ==
  /\ in_progress = None
  /\ total_len = 0
  /\ received = {}
  /\ buf = [p \in Positions |-> Stale]
  /\ accepted = {}

-----------------------------------------------------------------------------
\* The range is not checked against the message.
FitsBufferOnly(hdr) == hdr.length <= MaxLen

\* The length checks, before the context is looked at.
Fits(hdr) ==
  /\ hdr.length <= MaxLen
  /\ hdr.offset + hdr.flen <= hdr.length

\* A fragment of another message, or one that disagrees on the length, does
\* not belong to the message in progress.
Belongs(hdr) == hdr.msg = in_progress /\ hdr.length = total_len

\* The fragment is copied one byte too far to the left.
CopyMisplaced(hdr, marked) ==
  /\ buf' = [p \in Positions |-> IF p + 1 \in Span(hdr) THEN <<hdr.msg, p + 1>> ELSE buf[p]]
  /\ received' = marked \cup Span(hdr)
  /\ accepted' = accepted \cup {hdr}

\* One mark more than bytes copied.
CopyMarksTooMany(hdr, marked) ==
  /\ buf' = [p \in Positions |-> IF p \in Span(hdr) THEN <<hdr.msg, p>> ELSE buf[p]]
  /\ received' = marked \cup (hdr.offset .. hdr.offset + hdr.flen)
  /\ accepted' = accepted \cup {hdr}

\* memcpy and memset of the fragment's range
Copy(hdr, marked) ==
  /\ buf' = [p \in Positions |-> IF p \in Span(hdr) THEN <<hdr.msg, p>> ELSE buf[p]]
  /\ received' = marked \cup Span(hdr)
  /\ accepted' = accepted \cup {hdr}

\* The first fragment names the message and clears its part of received[].
StartMessage(hdr) ==
  /\ in_progress = None
  /\ Fits(hdr)
  /\ in_progress' = hdr.msg
  /\ total_len' = hdr.length
  /\ Copy(hdr, {p \in received : p >= hdr.length})

\* The marks start anew with every fragment.
ContinueForgets(hdr) ==
  /\ in_progress # None
  /\ Fits(hdr) /\ Belongs(hdr)
  /\ Copy(hdr, {})
  /\ UNCHANGED <<in_progress, total_len>>

ContinueMessage(hdr) ==
  /\ in_progress # None
  /\ Fits(hdr) /\ Belongs(hdr)
  /\ Copy(hdr, received)
  /\ UNCHANGED <<in_progress, total_len>>

\* ND_ERR_BAD_LENGTH or ND_ERR_UNSUPPORTED: nothing changes.
RejectFragment(hdr) ==
  /\ ~Fits(hdr) \/ (in_progress # None /\ ~Belongs(hdr))
  /\ UNCHANGED vars

AddFragment(hdr) == StartMessage(hdr) \/ ContinueMessage(hdr) \/ RejectFragment(hdr)

\* nd_reassembly_is_complete
IsComplete == in_progress # None /\ 0 .. total_len - 1 \subseteq received

Next ==
  \/ ReassemblyInit
  \/ \E hdr \in Header : AddFragment(hdr)

Spec == Init /\ [][Next]_vars

-----------------------------------------------------------------------------
\* Nothing is marked or written past the message, nor past the buffer.
TypeOK ==
  /\ in_progress \in Msg \cup {None}
  /\ total_len \in 0 .. MaxLen
  /\ received \subseteq 0 .. total_len - 1
  /\ buf \in [Positions -> (Msg \cup {None}) \X Nat]

\* A complete message is the message: whatever the order, the overlaps, the
\* repetitions and the remains of an earlier message in the buffer, every
\* byte is the byte that its sender put there.
CompleteIsExact ==
  IsComplete => \A p \in 0 .. total_len - 1 : buf[p] = <<in_progress, p>>

\* nd_reassembly_is_complete answers yes exactly when the accepted fragments
\* cover the message between them.
CompleteWhenCovered ==
  in_progress # None =>
    (IsComplete <=> \A p \in 0 .. total_len - 1 : \E hdr \in accepted : p \in Span(hdr))

\* A late or repeated fragment never undoes a message, nor changes which one
\* is in progress; only nd_reassembly_init does.
NeverUndone ==
  [][in_progress # None =>
       \/ /\ in_progress' = in_progress /\ total_len' = total_len
          /\ received \subseteq received'
       \/ in_progress' = None /\ received' = {}]_vars
=============================================================================
