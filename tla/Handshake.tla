------------------------------ MODULE Handshake ------------------------------
(***************************************************************************)
(* Client and server handshakes over UDP.  The network is the set of all   *)
(* datagrams ever sent: any of them may reach any waiting call, any number *)
(* of times, in any order, or never.  That covers loss, duplication,       *)
(* reordering, datagrams left in a socket's queue by an earlier call, and  *)
(* a server that was restarted between two copies of a ClientHello.        *)
(***************************************************************************)
EXTENDS ClientHandshake, ServerHandshake

VARIABLE sent   \* every datagram sent so far

vars == <<clientVars, serverVars, sent>>

Init ==
  /\ ClientInit
  /\ ServerInit
  /\ sent = {}

\* UDP: a send adds its datagram; what arrives was sent, or is noise.
Sends(d) == sent' = sent \cup {d}
Arriving == sent \cup Noise

ClientStep(c) ==
  \/ SendClientHello(c) /\ Sends(ClientHelloDatagram(c))
  \/ SendClientFinished(c) /\ Sends(ClientFinishedDatagram(c))
  \/ /\ \/ ClientLocal(c)
        \/ ClientSendFails(c)
        \/ ClientTimesOut(c)
        \/ \E d \in Arriving : ClientReceives(c, d)
     /\ UNCHANGED sent

ServerStep(s) ==
  \/ SendServerHello(s) /\ Sends(ServerHelloDatagram(s))
  \/ SendProtected(s) /\ Sends(FlightDatagram(s))
  \/ /\ \/ ServerLocal(s)
        \/ ServerSendFails(s)
        \/ ServerTimesOut(s)
        \/ \E d \in Arriving : ServerReceives(s, d)
     /\ UNCHANGED sent

\* Every call has returned.
Terminated ==
  /\ \A c \in Client : cpc[c] = "done"
  /\ \A s \in Server : spc[s] = "done"
  /\ UNCHANGED vars

Next ==
  \/ \E c \in Client : ClientStep(c) /\ UNCHANGED serverVars
  \/ \E s \in Server : ServerStep(s) /\ UNCHANGED clientVars
  \/ Terminated

Spec == Init /\ [][Next]_vars

-----------------------------------------------------------------------------
ClientPC == {"start", "send_hello", "recv_hello", "send_finished", "done"} \cup DOMAIN Awaited
ServerPC == {"idle", "accept", "send_hello", "recv_finished", "done"} \cup DOMAIN AfterFlight

TypeOK ==
  /\ cpc \in [Client -> ClientPC]
  /\ attempt \in [Client -> 0 .. MaxAttempts - 1]
  /\ cstatus \in [Client -> Status \cup {Running}]
  /\ cchain \in [Client -> (Parseable \cap Trusted) \cup {NoChain}]
  /\ spc \in [Server -> ServerPC]
  /\ config \in [Server -> Config \cup {NoConfig}]
  /\ sattempt \in [Server -> 0 .. FinishedAttempts]
  /\ sstatus \in [Server -> Status \cup {Running}]
  /\ next_send \in [Server -> 0 .. 4]

\* Once a client has opened a record of the server's flight, the transcript
\* it has hashed is a prefix of that server call's, message for message,
\* whatever was lost, duplicated, reordered or left over.
TranscriptAgreement ==
  \A c \in Client :
    cpc[c] # "done" /\ Len(ctranscript[c]) > 2 =>
      \E s \in Server :
        /\ skeys[s] = ckeys[c]
        /\ Len(ctranscript[c]) <= Len(stranscript[s])
        /\ \A i \in 1 .. Len(ctranscript[c]) : ctranscript[c][i] = stranscript[s][i]

\* The transcript of a client that has sent its Finished to server call s.
CompleteTranscript(c, s) ==
  Append(stranscript[s], Finished(1, FinishedCompute(ckeys[c], "client", stranscript[s])))

\* A client that returns ND_OK shares its keys and the whole transcript with
\* one server call, which has sent its complete flight, was configured with
\* the chain the client verified, and holds the leaf's private key
\* (client.h: "verifying the server's certificate chain and CertificateVerify
\* signature before trusting anything it sent").
ClientAuthenticatesServer ==
  \A c \in Client : cstatus[c] = OK =>
    \E s \in Server :
      /\ skeys[s] = ckeys[c]
      /\ spc[s] \in {"recv_finished", "done"}
      /\ ctranscript[c] = CompleteTranscript(c, s)
      /\ config[s].chain = cchain[c]
      /\ cchain[c] \in Parseable \cap Trusted
      /\ config[s].signer = LeafKey[cchain[c]]

\* A server that returns ND_OK was answered by a client call that has itself
\* returned ND_OK with the same keys and transcript; a datagram skipped while
\* waiting, or the last attempt running out, never counts as an answer.
ServerConfirmsClient ==
  \A s \in Server : sstatus[s] = OK =>
    \E c \in Client :
      /\ cstatus[c] = OK
      /\ ckeys[c] = skeys[s]
      /\ ctranscript[c] = CompleteTranscript(c, s)

\* protect.h: a (key, nonce) pair is never used for two different records.
\* Retransmitted ClientHellos, answered by one or by several server calls, do
\* not lead to records sealed twice under the same keys and number.
NonceUnique ==
  \A d, e \in sent :
    /\ d.layer = "protected" /\ e.layer = "protected"
    /\ d.keys = e.keys /\ d.role = e.role /\ d.n = e.n
    => d.msg = e.msg

-----------------------------------------------------------------------------
\* Each call's outcome, as KeyExchange sees it: the peer is the share in the
\* hello the keys were derived from.
ClientPeer ==
  [c \in Client |-> CASE cstatus[c] = Running -> "none"
                      [] cstatus[c] = OK -> ckeys[c].hello[2].share
                      [] OTHER -> "failed"]
ServerPeer ==
  [s \in Server |-> CASE sstatus[s] = Running -> "none"
                      [] sstatus[s] = OK -> skeys[s].hello[1].share
                      [] OTHER -> "failed"]

KE == INSTANCE KeyExchange WITH cpeer <- ClientPeer, speer <- ServerPeer

\* The two state machines over the network implement the key exchange: peers
\* are exclusive, and a server succeeds only after, and with, its client.
Agreement == KE!Spec
=============================================================================
