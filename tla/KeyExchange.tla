----------------------------- MODULE KeyExchange -----------------------------
(***************************************************************************)
(* What the handshake promises, without messages: each call ends with a    *)
(* peer or without one.  A client call takes a server call for itself      *)
(* alone; a server call succeeds only with the client call that has        *)
(* already succeeded with it.  The reverse is not promised: a client may   *)
(* succeed while its server gives up waiting for the last message.         *)
(***************************************************************************)
CONSTANTS Client, Server

VARIABLES
  cpeer,   \* the server call a client call succeeded with, or None, or Failed
  speer    \* the client call a server call succeeded with, or None, or Failed

None == "none"
Failed == "failed"

Init ==
  /\ cpeer = [c \in Client |-> None]
  /\ speer = [s \in Server |-> None]

ClientSucceeds(c, s) ==
  /\ cpeer[c] = None
  /\ \A other \in Client : cpeer[other] # s
  /\ cpeer' = [cpeer EXCEPT ![c] = s]
  /\ UNCHANGED speer

ClientFailsCall(c) ==
  /\ cpeer[c] = None
  /\ cpeer' = [cpeer EXCEPT ![c] = Failed]
  /\ UNCHANGED speer

ServerSucceeds(s, c) ==
  /\ speer[s] = None
  /\ cpeer[c] = s
  /\ speer' = [speer EXCEPT ![s] = c]
  /\ UNCHANGED cpeer

ServerFailsCall(s) ==
  /\ speer[s] = None
  /\ speer' = [speer EXCEPT ![s] = Failed]
  /\ UNCHANGED cpeer

Next ==
  \/ \E c \in Client, s \in Server : ClientSucceeds(c, s) \/ ServerSucceeds(s, c)
  \/ \E c \in Client : ClientFailsCall(c)
  \/ \E s \in Server : ServerFailsCall(s)

Spec == Init /\ [][Next]_<<cpeer, speer>>
=============================================================================
