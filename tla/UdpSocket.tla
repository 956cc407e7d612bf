------------------------------ MODULE UdpSocket ------------------------------
(***************************************************************************)
(* nd_udp_socket (src/transport/udp.c): one blocking socket with its       *)
(* SO_RCVTIMEO option and its receive queue.  The operating system's side  *)
(* is external: a zero SO_RCVTIMEO waits for ever, a connected socket      *)
(* admits only its peer's datagrams, and connect() leaves the queue alone. *)
(***************************************************************************)
EXTENDS Integers, Sequences

CONSTANTS
  Peer,       \* the addresses datagrams come from
  TimeoutMs,  \* the timeout_ms arguments callers use
  QueueCap    \* bound on the receive queue

NoPeer == "none"

ASSUME UdpAssumption ==
  TimeoutMs \subseteq Int /\ QueueCap \in Nat \ {0} /\ NoPeer \notin Peer

VARIABLES
  sock,      \* "closed", "bound" (nd_udp_server_bind) or "connected"
  peer,      \* the address the caller chose, or accepted a datagram from
  rcvtimeo,  \* SO_RCVTIMEO in microseconds, 0 for none
  queue,     \* unread datagrams: [from, late], late if a peer was chosen before
  call,      \* the blocking call under way: "none", "accept" or "recv"
  arg,       \* its timeout_ms
  result,    \* how the last call ended
  from       \* whose datagram it returned, if any

vars == <<sock, peer, rcvtimeo, queue, call, arg, result, from>>

Init ==
  /\ sock = "closed" /\ peer = NoPeer /\ rcvtimeo = 0 /\ queue = << >>
  /\ call = "none" /\ arg = 0 /\ result = "none" /\ from = NoPeer

-----------------------------------------------------------------------------
\* nd_udp_server_bind and nd_udp_client_connect open a fresh socket.
ServerBind ==
  /\ sock = "closed"
  /\ sock' = "bound"
  /\ UNCHANGED <<peer, rcvtimeo, queue, call, arg, result, from>>

ClientConnect(p) ==
  /\ sock = "closed"
  /\ sock' = "connected"
  /\ peer' = p
  /\ UNCHANGED <<rcvtimeo, queue, call, arg, result, from>>

\* The process is single-threaded: it closes no socket it is blocked on.
Close ==
  /\ sock # "closed" /\ call = "none"
  /\ sock' = "closed" /\ peer' = NoPeer /\ rcvtimeo' = 0 /\ queue' = << >>
  /\ result' = "none" /\ from' = NoPeer
  /\ UNCHANGED <<call, arg>>

Arrives(p) ==
  /\ sock = "bound" \/ (sock = "connected" /\ p = peer)
  /\ Len(queue) < QueueCap
  /\ queue' = Append(queue, [from |-> p, late |-> peer # NoPeer])
  /\ UNCHANGED <<sock, peer, rcvtimeo, call, arg, result, from>>

\* The sub-second part of the timeout is forgotten.
TimevalSecondsOnly(timeout_ms) == (timeout_ms \div 1000) * 1000000

\* The struct timeval for timeout_ms, in microseconds.
Timeval(timeout_ms) == (timeout_ms \div 1000) * 1000000 + (timeout_ms % 1000) * 1000

\* Both receiving calls set the option first, unless timeout_ms is negative.
Blocks(kind, timeout_ms) ==
  /\ call = "none"
  /\ call' = kind
  /\ arg' = timeout_ms
  /\ \/ timeout_ms >= 0 /\ rcvtimeo' = Timeval(timeout_ms)
     \/ timeout_ms < 0 /\ UNCHANGED rcvtimeo
  /\ result' = "none" /\ from' = NoPeer
  /\ UNCHANGED <<sock, peer, queue>>

AcceptPeer(timeout_ms) == sock = "bound" /\ Blocks("accept", timeout_ms)
Recv(timeout_ms) == sock # "closed" /\ Blocks("recv", timeout_ms)

\* recvfrom and recv give the oldest datagram.
Takes ==
  /\ queue # << >>
  /\ call' = "none"
  /\ queue' = Tail(queue)
  /\ UNCHANGED <<rcvtimeo, arg>>

\* connect() is left out.
AcceptWithoutConnect ==
  /\ call = "accept"
  /\ Takes
  /\ result' = "ok" /\ from' = Head(queue).from
  /\ peer' = Head(queue).from
  /\ UNCHANGED sock

AcceptReturns ==
  /\ call = "accept"
  /\ Takes
  /\ result' = "ok" /\ from' = Head(queue).from
  /\ sock' = "connected" /\ peer' = Head(queue).from

\* connect() fails: the datagram is gone, the socket still bound.
AcceptConnectFails ==
  /\ call = "accept"
  /\ Takes
  /\ result' = "bad_arg"
  /\ UNCHANGED <<sock, peer, from>>

RecvReturns ==
  /\ call = "recv"
  /\ Takes
  /\ result' = "ok" /\ from' = Head(queue).from
  /\ UNCHANGED <<sock, peer>>

\* SO_RCVTIMEO passes with nothing in the queue.
TimesOut ==
  /\ call # "none" /\ queue = << >>
  /\ rcvtimeo > 0
  /\ call' = "none" /\ result' = "timeout"
  /\ UNCHANGED <<sock, peer, rcvtimeo, queue, arg, from>>

\* An ICMP error of an earlier send ends the receive.
RecvFails ==
  /\ call = "recv"
  /\ call' = "none" /\ result' = "error"
  /\ UNCHANGED <<sock, peer, rcvtimeo, queue, arg, from>>

Returns == AcceptReturns \/ AcceptConnectFails \/ RecvReturns \/ TimesOut

Next ==
  \/ ServerBind
  \/ \E p \in Peer : ClientConnect(p) \/ Arrives(p)
  \/ Close
  \/ \E t \in TimeoutMs : AcceptPeer(t) \/ Recv(t)
  \/ Returns
  \/ RecvFails

\* The operating system wakes a call when its timeout has passed or a
\* datagram is there.
Spec == Init /\ [][Next]_vars /\ WF_vars(Returns)

-----------------------------------------------------------------------------
TypeOK ==
  /\ sock \in {"closed", "bound", "connected"}
  /\ peer \in Peer \cup {NoPeer} /\ (sock = "connected" <=> peer # NoPeer)
  /\ rcvtimeo \in {0} \cup {1000 * t : t \in TimeoutMs}
  /\ queue \in Seq([from : Peer, late : BOOLEAN]) /\ Len(queue) <= QueueCap
  /\ call \in {"none", "accept", "recv"}
  /\ arg \in TimeoutMs \cup {0}
  /\ result \in {"none", "ok", "bad_arg", "timeout", "error"}

\* A receive with a positive timeout_ms returns, whatever timeout an earlier
\* call left on the socket and even if no datagram ever comes.
BoundedWait == call # "none" /\ arg > 0 ~> call = "none"

\* What arrives once the server has taken its peer is from that peer: the
\* sender of the datagram it accepted.
ScopedToPeer == \A i \in 1 .. Len(queue) : queue[i].late => queue[i].from = peer

\* udp.h: "0 polls (returns ND_ERR_TRUNCATED immediately if nothing is
\* pending)".
PollReturns == call # "none" /\ arg = 0 ~> call = "none"

\* udp.h: "timeout_ms < 0 blocks indefinitely".
NegativeNeverTimesOut == ~(result = "timeout" /\ arg < 0)

\* udp.h: after nd_udp_server_accept_peer "this socket behaves like a client
\* socket scoped to that one peer".
OnlyThePeerIsHeard == result = "ok" /\ sock = "connected" => from = peer
=============================================================================
