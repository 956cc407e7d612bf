-------------------------- MODULE HandshakeSockets --------------------------
(***************************************************************************)
(* One client and one server call over two UDP sockets: receive queues in  *)
(* order of arrival, a server port that may not be bound yet, the ICMP     *)
(* Port Unreachable that a connected socket reports on its next call, and  *)
(* receive timeouts.  Handshake shows what the calls never do over any     *)
(* network; this module shows what they do in the end over a real one.     *)
(***************************************************************************)
EXTENDS ClientHandshake, ServerHandshake

CONSTANTS
  c, s,      \* the one call of each side
  Losses     \* how many datagrams the network may lose

ASSUME SocketAssumption == Client = {c} /\ Server = {s} /\ Losses \in Nat

VARIABLES
  prompt,    \* nothing is lost, a wait ends without a datagram only when none
             \* will come, and no local call fails; if not, all of that may
             \* happen at any time
  bound,     \* nd_udp_server_bind has been called
  toServer,  \* the server socket's receive queue
  toClient,  \* the client socket's receive queue
  icmp,      \* Port Unreachable: "none", "coming" or "pending" at the client
  lost,      \* datagrams lost so far
  waited     \* attempts of the retry loop that lasted a whole recv_timeout_ms

netVars == <<prompt, bound, toServer, toClient, icmp, lost, waited>>
vars == <<clientVars, serverVars, netVars>>

Init ==
  /\ ClientInit
  /\ ServerInit
  /\ prompt \in BOOLEAN
  /\ bound = FALSE
  /\ toServer = << >> /\ toClient = << >>
  /\ icmp = "none"
  /\ lost = 0
  /\ waited = 0

-----------------------------------------------------------------------------
(* The network.                                                            *)

\* Each side closes its socket when its call has returned.
Listening == bound /\ spc[s] # "done"

Lost == ~prompt /\ lost < Losses /\ lost' = lost + 1

\* A datagram to the server is queued, lost, or bounces off a closed port.
ToServer(d) ==
  /\ UNCHANGED <<prompt, bound, toClient, waited>>
  /\ \/ Listening /\ toServer' = Append(toServer, d) /\ UNCHANGED <<icmp, lost>>
     \/ Listening /\ Lost /\ UNCHANGED <<toServer, icmp>>
     \/ ~Listening /\ icmp' \in {"none", "pending"} /\ UNCHANGED <<toServer, lost>>
     \/ ~Listening /\ ~prompt /\ icmp' = "coming" /\ UNCHANGED <<toServer, lost>>

\* A datagram to the client is queued or lost; a closed socket drops it.
ToClient(d) ==
  /\ UNCHANGED <<prompt, bound, toServer, icmp, waited>>
  /\ \/ cpc[c] # "done" /\ toClient' = Append(toClient, d) /\ UNCHANGED lost
     \/ cpc[c] # "done" /\ Lost /\ UNCHANGED toClient
     \/ cpc[c] = "done" /\ UNCHANGED <<toClient, lost>>

IcmpArrives ==
  /\ icmp = "coming"
  /\ icmp' = "pending"
  /\ UNCHANGED <<clientVars, serverVars, prompt, bound, toServer, toClient, lost, waited>>

ServerBinds ==
  /\ ~bound
  /\ bound' = TRUE
  /\ UNCHANGED <<clientVars, serverVars, prompt, toServer, toClient, icmp, lost, waited>>

-----------------------------------------------------------------------------
(* The client.  A pending ICMP error fails its next socket call, whatever  *)
(* is in the queue, and is then gone.                                      *)

ClientSocketError ==
  /\ icmp = "pending"
  /\ icmp' = "none"
  /\ ClientSendFails(c) \/ ClientTimesOut(c)
  /\ UNCHANGED <<prompt, bound, toServer, toClient, lost, waited>>

\* recv_timeout_ms passes with an empty queue.
ClientTimeout ==
  /\ icmp # "pending" /\ toClient = << >>
  /\ \/ RecvHelloFails(c) /\ waited' = waited + 1
     \/ /\ prompt => spc[s] = "done"
        /\ RecvFlightFails(c)
        /\ UNCHANGED waited
  /\ UNCHANGED <<prompt, bound, toServer, toClient, icmp, lost>>

ClientTakes ==
  /\ icmp # "pending" /\ toClient # << >>
  /\ ClientReceives(c, Head(toClient))
  /\ toClient' = Tail(toClient)
  /\ UNCHANGED <<prompt, bound, toServer, icmp, lost, waited>>

ClientSends ==
  /\ icmp # "pending"
  /\ \/ SendClientHello(c) /\ ToServer(ClientHelloDatagram(c))
     \/ SendClientFinished(c) /\ ToServer(ClientFinishedDatagram(c))

ClientStep ==
  \/ ClientStart(c) /\ UNCHANGED netVars
  \/ ~prompt /\ ClientStartFails(c) /\ UNCHANGED netVars
  \/ ClientSocketError
  \/ ClientTimeout
  \/ ClientTakes
  \/ ClientSends

-----------------------------------------------------------------------------
(* The server, which is called once its socket is bound.                   *)

ServerTimeout ==
  /\ toServer = << >>
  /\ prompt => cpc[c] = "done"
  /\ ServerTimesOut(s)
  /\ UNCHANGED netVars

\* Its sends and receives fail once its peer has closed the port they go to.
ServerSocketError ==
  /\ cstatus[c] = ERR
  /\ ServerSendFails(s) \/ RecvClientFinishedFails(s)
  /\ UNCHANGED netVars

ServerTakes ==
  /\ toServer # << >>
  /\ ServerReceives(s, Head(toServer))
  /\ toServer' = Tail(toServer)
  /\ UNCHANGED <<prompt, bound, toClient, icmp, lost, waited>>

ServerSends ==
  \/ SendServerHello(s) /\ ToClient(ServerHelloDatagram(s))
  \/ SendProtected(s) /\ ToClient(FlightDatagram(s))

ServerFault ==
  /\ ~prompt
  /\ ServerHelloFails(s) \/ SignFails(s)
  /\ UNCHANGED netVars

ServerStep ==
  \/ bound /\ (\E conf \in Config : ServerStart(s, conf)) /\ UNCHANGED netVars
  \/ CertificateTooLong(s) /\ UNCHANGED netVars
  \/ ServerTimeout
  \/ ServerSocketError
  \/ ServerTakes
  \/ ServerSends
  \/ ServerFault

-----------------------------------------------------------------------------
Returned == cpc[c] = "done" /\ (spc[s] = "done" \/ ~bound)

Terminated ==
  /\ Returned
  /\ UNCHANGED vars

Next ==
  \/ ClientStep /\ UNCHANGED serverVars
  \/ ServerStep /\ UNCHANGED clientVars
  \/ IcmpArrives
  \/ ServerBinds
  \/ Terminated

\* Each call keeps running: its steps are those of a thread, and a receive
\* has a positive timeout.  Nobody has to bind the port.
Fairness ==
  /\ WF_vars(ClientStep /\ UNCHANGED serverVars)
  /\ WF_vars(ServerStep /\ UNCHANGED clientVars)

Spec == Init /\ [][Next]_vars
FairSpec == Spec /\ Fairness

-----------------------------------------------------------------------------
\* Whatever is lost, late or failing, the client call returns, and so does a
\* server call on a bound socket (server.c: "Bounded so a genuinely absent/
\* wrong client Finished still fails instead of looping forever").
CallsReturn ==
  /\ <>(cpc[c] = "done")
  /\ bound ~> spc[s] = "done"

\* Over a prompt network, a client that has the ServerHello of a server whose
\* chain fits a record ends with success on both sides, although up to MaxAttempts - 1 copies of its
\* ClientHello stand before its Finished in the server's queue.
HelloLeadsToSuccess ==
  prompt /\ cpc[c] = "recv_encrypted_extensions" /\ FitsRecord(config[s].chain)
    ~> cstatus[c] = OK /\ sstatus[s] = OK

\* client.h: ClientHello is "retransmitted ... up to
\* ND_CLIENT_HELLO_MAX_ATTEMPTS times, once per recv_timeout_ms with no reply,
\* before giving up": the retry loop runs out only after that many timeouts.
GivesUpAfterTimeouts ==
  [][/\ cpc[c] \in {"send_hello", "recv_hello"}
     /\ cpc'[c] = "done"
     /\ toClient' = toClient
     => waited' = MaxAttempts]_vars
=============================================================================
