-------------------------- MODULE UdpSocket_proofs --------------------------
(***************************************************************************)
(* What the socket of src/transport/udp.c keeps to, for every set of       *)
(* peers, every set of timeouts and every queue length: which datagrams    *)
(* reach a server that has taken its peer, and the SO_RCVTIMEO that a      *)
(* blocking call waits with.                                               *)
(***************************************************************************)
EXTENDS UdpSocket, SequenceTheorems, TLAPS

\* nd_udp_server_accept_peer works on a bound socket for as long as it blocks.
AcceptIsBound == call = "accept" => sock = "bound"

\* A call with a positive timeout_ms waits with exactly that timeout: none
\* that an earlier call left, and never the zero that waits for ever.
TimeoutArmed == call # "none" /\ arg > 0 => rcvtimeo = 1000 * arg

\* ScopedToPeer is not inductive alone: accepting changes the peer under the
\* queue, which is harmless only because a bound socket has no late datagram.
IInv == TypeOK /\ AcceptIsBound /\ TimeoutArmed /\ ScopedToPeer

-----------------------------------------------------------------------------
\* tv_sec and tv_usec together are timeout_ms milliseconds.
LEMMA TimevalExact == ASSUME NEW t \in Int, t >= 0 PROVE Timeval(t) = 1000 * t
  BY DEF Timeval

\* What remains of a queue, element by element.
LEMMA TailElements ==
  ASSUME NEW S, NEW q \in Seq(S), q # << >>
  PROVE  /\ Tail(q) \in Seq(S) /\ Head(q) \in S
         /\ Len(Tail(q)) = Len(q) - 1 /\ Len(q) \in Nat
         /\ \A i \in 1 .. Len(Tail(q)) : i + 1 \in 1 .. Len(q) /\ Tail(q)[i] = q[i + 1]
<1>1. Len(q) \in Nat /\ Len(q) # 0
  BY EmptySeq, LenProperties
<1> QED
  BY <1>1, HeadTailProperties

\* Before a peer is taken, no datagram in the queue counts as late.
LEMMA NoneLate ==
  ASSUME TypeOK, ScopedToPeer, peer = NoPeer, NEW j \in 1 .. Len(queue)
  PROVE  ~queue[j].late
<1>1. queue[j] \in [from : Peer, late : BOOLEAN]
  BY ElementOfSeq DEF TypeOK
<1>2. queue[j].from # peer
  BY <1>1, UdpAssumption
<1> QED
  BY <1>2 DEF ScopedToPeer

LEMMA InitIInv == Init => IInv
  BY UdpAssumption, EmptySeq
  DEF Init, IInv, TypeOK, AcceptIsBound, TimeoutArmed, ScopedToPeer

\* A datagram that is taken from the queue leaves the others as they were.
LEMMA TakesKeeps ==
  ASSUME IInv, Takes
  PROVE  /\ queue' \in Seq([from : Peer, late : BOOLEAN]) /\ Len(queue') <= QueueCap
         /\ \A i \in 1 .. Len(queue') : \E j \in 1 .. Len(queue) : queue'[i] = queue[j]
         /\ Head(queue) \in [from : Peer, late : BOOLEAN]
<1>1. /\ queue \in Seq([from : Peer, late : BOOLEAN]) /\ Len(queue) <= QueueCap
      /\ queue # << >> /\ queue' = Tail(queue) /\ QueueCap \in Nat
  BY UdpAssumption DEF IInv, TypeOK, Takes
<1>2. /\ Tail(queue) \in Seq([from : Peer, late : BOOLEAN])
      /\ Head(queue) \in [from : Peer, late : BOOLEAN]
      /\ Len(Tail(queue)) = Len(queue) - 1 /\ Len(queue) \in Nat
      /\ \A i \in 1 .. Len(Tail(queue)) : i + 1 \in 1 .. Len(queue) /\ Tail(queue)[i] = queue[i + 1]
  BY <1>1, TailElements
<1> QED
  BY <1>1, <1>2

LEMMA NextIInv == IInv /\ [Next]_vars => IInv'
<1> SUFFICES ASSUME IInv, [Next]_vars PROVE IInv'
  OBVIOUS
<1> USE DEF IInv
<1>a. TimeoutMs \subseteq Int /\ QueueCap \in Nat /\ NoPeer \notin Peer
  BY UdpAssumption
<1>1. CASE ServerBind
  BY <1>1 DEF ServerBind, TypeOK, AcceptIsBound, TimeoutArmed, ScopedToPeer
<1>2. ASSUME NEW p \in Peer, ClientConnect(p) PROVE IInv'
  <2>1. TypeOK' /\ AcceptIsBound' /\ TimeoutArmed'
    BY <1>2, <1>a DEF ClientConnect, TypeOK, AcceptIsBound, TimeoutArmed
  <2>2. ScopedToPeer'
    <3>1. peer = NoPeer /\ queue' = queue
      BY <1>2 DEF ClientConnect, TypeOK
    <3> QED
      BY <3>1, NoneLate DEF ScopedToPeer
  <2> QED
    BY <2>1, <2>2
<1>3. ASSUME NEW p \in Peer, Arrives(p) PROVE IInv'
  <2> DEFINE d == [from |-> p, late |-> peer # NoPeer]
  <2>1. /\ queue \in Seq([from : Peer, late : BOOLEAN]) /\ d \in [from : Peer, late : BOOLEAN]
        /\ Len(queue) < QueueCap /\ Len(queue) \in Nat
        /\ queue' = Append(queue, d)
        /\ UNCHANGED <<sock, peer, rcvtimeo, call, arg, result, from>>
    BY <1>3, LenProperties DEF Arrives, TypeOK
  <2>2. /\ queue' \in Seq([from : Peer, late : BOOLEAN]) /\ Len(queue') = Len(queue) + 1
        /\ \A i \in 1 .. Len(queue) : queue'[i] = queue[i]
        /\ queue'[Len(queue) + 1] = d
    BY <2>1, AppendProperties
  <2>3. TypeOK' /\ AcceptIsBound' /\ TimeoutArmed'
    BY <2>1, <2>2, <1>a DEF TypeOK, AcceptIsBound, TimeoutArmed
  <2>4. d.late => d.from = peer
    BY <1>3 DEF Arrives, TypeOK
  <2>5. ScopedToPeer'
    <3> SUFFICES ASSUME NEW i \in 1 .. Len(queue) + 1, queue'[i].late PROVE queue'[i].from = peer
      BY <2>1, <2>2 DEF ScopedToPeer
    <3>1. CASE i = Len(queue) + 1
      BY <3>1, <2>2, <2>4
    <3>2. CASE i \in 1 .. Len(queue)
      BY <3>2, <2>2 DEF ScopedToPeer
    <3> QED
      BY <3>1, <3>2, <2>1
  <2> QED
    BY <2>3, <2>5
<1>4. CASE Close
  BY <1>4, EmptySeq, <1>a DEF Close, TypeOK, AcceptIsBound, TimeoutArmed, ScopedToPeer
<1>5. ASSUME NEW t \in TimeoutMs, AcceptPeer(t) \/ Recv(t) PROVE IInv'
  <2>1. /\ arg' = t /\ t \in Int
        /\ UNCHANGED <<sock, peer, queue>>
        /\ result' = "none" /\ from' = NoPeer
        /\ call' \in {"accept", "recv"} /\ (call' = "accept" => sock = "bound")
        /\ t >= 0 => rcvtimeo' = Timeval(t)
        /\ t < 0 => rcvtimeo' = rcvtimeo
    BY <1>5, <1>a DEF AcceptPeer, Recv, Blocks
  <2>2. t >= 0 => rcvtimeo' = 1000 * t
    BY <2>1, TimevalExact
  <2>3. rcvtimeo' \in {0} \cup {1000 * u : u \in TimeoutMs}
    BY <2>1, <2>2 DEF TypeOK
  <2> QED
    BY <2>1, <2>2, <2>3 DEF TypeOK, AcceptIsBound, TimeoutArmed, ScopedToPeer
<1>6. CASE AcceptReturns
  <2>1. /\ queue' \in Seq([from : Peer, late : BOOLEAN]) /\ Len(queue') <= QueueCap
        /\ \A i \in 1 .. Len(queue') : \E j \in 1 .. Len(queue) : queue'[i] = queue[j]
        /\ Head(queue) \in [from : Peer, late : BOOLEAN]
    BY <1>6, TakesKeeps DEF AcceptReturns
  <2>2. /\ sock' = "connected" /\ peer' = Head(queue).from /\ peer' \in Peer
        /\ call' = "none" /\ result' = "ok" /\ UNCHANGED <<rcvtimeo, arg>>
        /\ call = "accept"
    BY <1>6, <2>1 DEF AcceptReturns, Takes
  <2>3. peer = NoPeer
    BY <2>2 DEF AcceptIsBound, TypeOK
  <2>4. \A j \in 1 .. Len(queue) : ~queue[j].late
    BY <2>3, NoneLate
  <2>5. ScopedToPeer'
    BY <2>1, <2>4 DEF ScopedToPeer
  <2> QED
    BY <2>1, <2>2, <2>5, <1>a DEF TypeOK, AcceptIsBound, TimeoutArmed
<1>7. CASE AcceptConnectFails \/ RecvReturns
  <2>1. /\ queue' \in Seq([from : Peer, late : BOOLEAN]) /\ Len(queue') <= QueueCap
        /\ \A i \in 1 .. Len(queue') : \E j \in 1 .. Len(queue) : queue'[i] = queue[j]
    BY <1>7, TakesKeeps DEF AcceptConnectFails, RecvReturns
  <2>2. /\ UNCHANGED <<sock, peer, rcvtimeo, arg>>
        /\ call' = "none" /\ result' \in {"ok", "bad_arg"}
    BY <1>7 DEF AcceptConnectFails, RecvReturns, Takes
  <2>3. ScopedToPeer'
    BY <2>1, <2>2 DEF ScopedToPeer
  <2> QED
    BY <2>1, <2>2, <2>3 DEF TypeOK, AcceptIsBound, TimeoutArmed
<1>8. CASE TimesOut \/ RecvFails
  BY <1>8 DEF TimesOut, RecvFails, TypeOK, AcceptIsBound, TimeoutArmed, ScopedToPeer
<1>9. CASE UNCHANGED vars
  BY <1>9 DEF vars, TypeOK, AcceptIsBound, TimeoutArmed, ScopedToPeer
<1> QED
  BY <1>1, <1>2, <1>3, <1>4, <1>5, <1>6, <1>7, <1>8, <1>9 DEF Next, Returns

-----------------------------------------------------------------------------
\* Every reachable socket is consistent in its peer, its queue and its
\* timeout.
THEOREM Invariance == Spec => []IInv
  BY InitIInv, NextIInv, PTL DEF Spec

\* A socket has a peer exactly while it is connected, its queue stays within
\* its length, and SO_RCVTIMEO is one of the callers' timeouts, to the
\* millisecond.
THEOREM Typing == Spec => []TypeOK
<1>1. IInv => TypeOK
  BY DEF IInv
<1> QED
  BY Invariance, <1>1, PTL

\* What arrives after the peer was taken is from that peer, however many
\* datagrams of others were queued before and however often the socket is
\* closed and opened again.
THEOREM Scoping == Spec => []ScopedToPeer
<1>1. IInv => ScopedToPeer
  BY DEF IInv
<1> QED
  BY Invariance, <1>1, PTL

\* The safety half of BoundedWait: no call with a positive timeout_ms waits
\* with the timeout of another call or with none.
THEOREM Armed == Spec => []TimeoutArmed
<1>1. IInv => TimeoutArmed
  BY DEF IInv
<1> QED
  BY Invariance, <1>1, PTL
=============================================================================
