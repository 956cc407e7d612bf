------------------------- MODULE ReplayWindow_proofs -------------------------
(***************************************************************************)
(* Proofs about the anti-replay window, for every window width and every   *)
(* set of arriving numbers.  The induction needs WindowExact, which ties   *)
(* the bitmap to the history through every slide, and PendingFresh: the    *)
(* window does not move between a record's check and its acceptance.       *)
(***************************************************************************)
EXTENDS ReplayWindow, TLAPS

\* A number between its check and its accept is still one the check passes.
PendingFresh == pending # NoRecord => Fresh(pending)

IInv == TypeOK /\ WindowExact /\ PendingFresh

\* The window contents determine what the check may pass and must refuse.
LEMMA ExactChecks == TypeOK /\ WindowExact => NoReplay /\ NoFalseReject
<1> SUFFICES ASSUME TypeOK, WindowExact, NEW seq \in SeqNum
             PROVE  /\ Fresh(seq) => seq \notin delivered
                    /\ ~Fresh(seq) => seq \in delivered \/ seq + Window <= highest_seen
  BY DEF NoReplay, NoFalseReject
<1>1. seq \in Nat /\ highest_seen \in Nat /\ Window \in Nat \ {0}
  BY SeqNumAssumption, WindowAssumption DEF TypeOK
<1>2. CASE ~has_received_any
  BY <1>2 DEF WindowExact, Fresh
<1>3. CASE has_received_any /\ seq > highest_seen
  BY <1>1, <1>3 DEF WindowExact, Fresh
<1>4. CASE has_received_any /\ seq <= highest_seen
  <2>1. highest_seen - (highest_seen - seq) = seq
    BY <1>1
  <2>2. highest_seen - seq < Window =>
          (highest_seen - seq \in bitmap <=> seq \in delivered)
    BY <1>1, <1>4, <2>1 DEF WindowExact, Bits
  <2>3. highest_seen - seq >= Window => seq + Window <= highest_seen
    BY <1>1
  <2>4. Fresh(seq) => seq \notin delivered
    BY <1>1, <1>4, <2>2 DEF Fresh
  <2>5. ~Fresh(seq) => seq \in delivered \/ seq + Window <= highest_seen
    BY <1>1, <1>4, <2>2, <2>3 DEF Fresh
  <2> QED
    BY <2>4, <2>5
<1> QED
  BY <1>1, <1>2, <1>3, <1>4 DEF TypeOK

LEMMA InitIInv == Init => IInv
<1> SUFFICES ASSUME Init PROVE IInv
  OBVIOUS
<1> QED
  BY DEF Init, IInv, TypeOK, WindowExact, PendingFresh, Bits

\* Accepting a number keeps the bitmap equal to the history, whichever of the
\* three branches of nd_replay_window_accept it takes.
LEMMA AcceptExact ==
  ASSUME TypeOK, WindowExact, pending # NoRecord, Accept(pending),
         delivered' = delivered \cup {pending}
  PROVE  /\ WindowExact'
         /\ highest_seen' \in Nat /\ bitmap' \in SUBSET Bits /\ has_received_any' \in BOOLEAN
<1>1. pending \in SeqNum /\ pending \in Nat /\ highest_seen \in Nat /\ Window \in Nat \ {0}
  BY SeqNumAssumption, WindowAssumption DEF TypeOK, NoRecord
<1>2. delivered \subseteq Nat
  BY SeqNumAssumption DEF TypeOK
<1>3. CASE ~has_received_any
  <2>1. highest_seen' = pending /\ bitmap' = {0} /\ has_received_any' = TRUE
    BY <1>3 DEF Accept
  <2>2. delivered' = {pending}
    BY <1>3 DEF WindowExact
  <2>3. \A i \in Bits : i \in bitmap' <=> highest_seen' - i \in delivered'
    BY <1>1, <2>1, <2>2 DEF Bits
  <2>4. 0 \in Bits
    BY <1>1 DEF Bits
  <2> QED
    BY <1>1, <2>1, <2>2, <2>3, <2>4 DEF WindowExact
<1>4. CASE has_received_any /\ pending > highest_seen
  <2>1. /\ highest_seen' = pending
        /\ bitmap' = ShiftLeft(bitmap, pending - highest_seen) \cup {0}
        /\ has_received_any' = TRUE
    <3>1. ~(pending <= highest_seen)
      BY <1>1, <1>4
    <3> QED
      BY <1>4, <3>1, Zenon DEF Accept, TypeOK
  <2>2. \A seq \in delivered : seq <= highest_seen
    BY <1>4 DEF WindowExact
  <2>3. ASSUME NEW i \in Bits
        PROVE  i \in bitmap' <=> highest_seen' - i \in delivered'
    <3>1. i \in Int /\ 0 <= i /\ i < Window
      BY <1>1 DEF Bits
    <3>2. CASE i = 0
      BY <1>1, <2>1, <3>2
    <3>3. CASE i # 0 /\ i - (pending - highest_seen) \in Bits
      <4> DEFINE j == i - (pending - highest_seen)
      <4>1. highest_seen - j = pending - i
        BY <1>1, <3>1
      <4>2. i \in bitmap' <=> j \in bitmap
        BY <2>1, <3>3 DEF ShiftLeft
      <4>3. j \in bitmap <=> pending - i \in delivered
        BY <1>4, <3>3, <4>1 DEF WindowExact
      <4>4. pending - i # pending
        BY <1>1, <3>1, <3>3
      <4> QED
        BY <2>1, <4>2, <4>3, <4>4
    <3>4. CASE i # 0 /\ i - (pending - highest_seen) \notin Bits
      <4>1. i - (pending - highest_seen) < 0
        BY <1>1, <1>4, <3>1, <3>4 DEF Bits
      <4>2. pending - i > highest_seen /\ pending - i # pending
        BY <1>1, <3>1, <3>4, <4>1
      <4>3. pending - i \notin delivered
        BY <1>1, <1>2, <2>2, <3>1, <4>2
      <4>4. i \notin bitmap'
        BY <2>1, <3>4 DEF ShiftLeft, TypeOK
      <4> QED
        BY <2>1, <4>2, <4>3, <4>4
    <3> QED
      BY <3>2, <3>3, <3>4
  <2>4. \A seq \in delivered' : seq <= highest_seen'
    BY <1>1, <1>2, <1>4, <2>1, <2>2
  <2>5. bitmap' \in SUBSET Bits
    BY <1>1, <2>1 DEF ShiftLeft, Bits
  <2> QED
    BY <1>1, <2>1, <2>3, <2>4, <2>5 DEF WindowExact
<1>5. CASE has_received_any /\ pending <= highest_seen
  <2>1. /\ highest_seen' = highest_seen
        /\ bitmap' = bitmap \cup ({highest_seen - pending} \cap Bits)
        /\ has_received_any' = TRUE
    <3>1. ~(pending > highest_seen)
      BY <1>1, <1>5
    <3> QED
      BY <1>5, <3>1, Zenon DEF Accept, TypeOK
  <2>2. ASSUME NEW i \in Bits
        PROVE  i \in bitmap' <=> highest_seen' - i \in delivered'
    <3>1. i = highest_seen - pending <=> highest_seen - i = pending
      BY <1>1 DEF Bits
    <3>2. i \in bitmap <=> highest_seen - i \in delivered
      BY <1>5 DEF WindowExact
    <3> QED
      BY <2>1, <3>1, <3>2
  <2>3. highest_seen' \in delivered' /\ \A seq \in delivered' : seq <= highest_seen'
    BY <1>1, <1>5, <2>1 DEF WindowExact
  <2>4. bitmap' \in SUBSET Bits
    BY <2>1 DEF TypeOK
  <2> QED
    BY <1>1, <2>1, <2>2, <2>3, <2>4 DEF WindowExact
<1> QED
  BY <1>1, <1>3, <1>4, <1>5 DEF TypeOK

LEMMA NextIInv == IInv /\ [Next]_vars => IInv'
<1> SUFFICES ASSUME IInv, [Next]_vars PROVE IInv'
  OBVIOUS
<1> USE DEF IInv
<1>1. ASSUME NEW seq \in SeqNum, CheckRecord(seq) PROVE IInv'
  <2>1. /\ UNCHANGED <<highest_seen, bitmap, has_received_any, delivered, count>>
        /\ pending' = seq
    BY <1>1 DEF CheckRecord, window, history
  <2>2. TypeOK' /\ WindowExact'
    BY <2>1 DEF TypeOK, WindowExact
  <2>3. PendingFresh'
    BY <1>1, <2>1 DEF PendingFresh, Fresh, CheckRecord
  <2> QED
    BY <2>2, <2>3
<1>2. ASSUME NEW seq \in SeqNum, DropRecord(seq) PROVE IInv'
  BY <1>2 DEF DropRecord, vars, window, history, TypeOK, WindowExact, PendingFresh, Fresh
<1>3. CASE AuthFails
  BY <1>3 DEF AuthFails, window, history, TypeOK, WindowExact, PendingFresh
<1>4. CASE AcceptRecord
  <2>1. /\ pending # NoRecord /\ Accept(pending)
        /\ delivered' = delivered \cup {pending} /\ pending' = NoRecord
        /\ count' = count + 1
    BY <1>4 DEF AcceptRecord
  <2>2. WindowExact' /\ highest_seen' \in Nat /\ bitmap' \in SUBSET Bits /\ has_received_any' \in BOOLEAN
    BY <2>1, AcceptExact
  <2>3. TypeOK'
    BY <2>1, <2>2 DEF TypeOK
  <2>4. PendingFresh'
    BY <2>1 DEF PendingFresh
  <2> QED
    BY <2>2, <2>3, <2>4
<1>5. CASE UNCHANGED vars
  BY <1>5 DEF vars, window, history, TypeOK, WindowExact, PendingFresh, Fresh
<1> QED
  BY <1>1, <1>2, <1>3, <1>4, <1>5 DEF Next

\* Every reachable window state has its types, an exact bitmap and a pending
\* number that is still fresh.
THEOREM Invariance == Spec => []IInv
  BY InitIInv, NextIInv, PTL DEF Spec

\* The bitmap equals the last Window numbers of the acceptance history, for
\* every width and every order of arrival (src/replay.c, both functions).
THEOREM BitmapExact == Spec => []WindowExact
<1>1. IInv => WindowExact
  BY DEF IInv
<1> QED
  BY Invariance, <1>1, PTL

\* The window keeps to its width: no bit beyond it, and no number pending
\* that is not one of the record layer's.
THEOREM Typing == Spec => []TypeOK
<1>1. IInv => TypeOK
  BY DEF IInv
<1> QED
  BY Invariance, <1>1, PTL

\* nd_replay_window_check never passes a number accepted before.
THEOREM CheckSound == Spec => []NoReplay
<1>1. IInv => NoReplay
  BY ExactChecks DEF IInv
<1> QED
  BY Invariance, <1>1, PTL

\* nd_replay_window_check refuses only duplicates and numbers that fell out
\* of the window: no record is lost to a wrong answer.
THEOREM CheckComplete == Spec => []NoFalseReject
<1>1. IInv => NoFalseReject
  BY ExactChecks DEF IInv
<1> QED
  BY Invariance, <1>1, PTL

\* The window implements at-most-once delivery.
THEOREM Refinement == Spec => AtMostOnce
<1>1. Init => AR!Init
  BY DEF Init, AR!Init
<1>2. IInv /\ [Next]_vars => [AR!Deliver]_<<delivered, count>>
  <2> SUFFICES ASSUME IInv, Next, ~UNCHANGED <<delivered, count>> PROVE AR!Deliver
    BY DEF vars, history
  <2>1. AcceptRecord
    BY DEF Next, CheckRecord, DropRecord, AuthFails, vars, history
  <2>2. /\ pending \in SeqNum /\ Fresh(pending)
        /\ delivered' = delivered \cup {pending} /\ count' = count + 1
    BY <2>1 DEF AcceptRecord, IInv, TypeOK, PendingFresh
  <2>3. pending \notin delivered
    BY <2>2, ExactChecks DEF IInv, NoReplay
  <2> QED
    BY <2>2, <2>3 DEF AR!Deliver
<1> QED
  BY Invariance, <1>1, <1>2, PTL DEF Spec, AtMostOnce, AR!Spec
=============================================================================
