--------------------------- MODULE ClientHandshake ---------------------------
(***************************************************************************)
(* nd_client_handshake (src/handshake/client.c): one action for each       *)
(* blocking or sending step of the call, everything up to the next one     *)
(* included.  An action takes the datagram it receives as a parameter; the *)
(* module that composes the client with a network says where it comes from *)
(* and what becomes of the datagrams sent.                                 *)
(***************************************************************************)
EXTENDS HandshakeMessages

CONSTANT MaxAttempts   \* ND_CLIENT_HELLO_MAX_ATTEMPTS (5)

ASSUME MaxAttemptsAssumption == MaxAttempts \in Nat \ {0}

VARIABLES
  cpc,          \* where each call is
  attempt,      \* the retry loop's counter
  cstatus,      \* the value returned, or Running
  ctranscript,  \* the running transcript
  ckeys,        \* the handshake keys, once derived
  cchain        \* the chain the server presented, once verified

clientVars == <<cpc, attempt, cstatus, ctranscript, ckeys, cchain>>

NoChain == "none"

ClientInit ==
  /\ cpc = [c \in Client |-> "start"]
  /\ attempt = [c \in Client |-> 0]
  /\ cstatus = [c \in Client |-> Running]
  /\ ctranscript = [c \in Client |-> << >>]
  /\ ckeys = [c \in Client |-> NoKeys]
  /\ cchain = [c \in Client |-> NoChain]

-----------------------------------------------------------------------------
\* The call fails: out_result is not written and its locals are gone.
ClientFails(c) ==
  /\ cpc' = [cpc EXCEPT ![c] = "done"]
  /\ cstatus' = [cstatus EXCEPT ![c] = ERR]
  /\ attempt' = [attempt EXCEPT ![c] = 0]
  /\ ctranscript' = [ctranscript EXCEPT ![c] = << >>]
  /\ ckeys' = [ckeys EXCEPT ![c] = NoKeys]
  /\ cchain' = [cchain EXCEPT ![c] = NoChain]

\* nd_transcript_add of a received message, and on to the next step.
ClientAdds(c, msg, next) ==
  /\ ctranscript' = [ctranscript EXCEPT ![c] = Append(@, msg)]
  /\ cpc' = [cpc EXCEPT ![c] = next]

\* The random draws, nd_client_hello_serialize, wrap_and_add and
\* nd_plaintext_serialize, before anything is sent.
ClientStart(c) ==
  /\ cpc[c] = "start"
  /\ ClientAdds(c, ClientHello(c), "send_hello")
  /\ UNCHANGED <<attempt, cstatus, ckeys, cchain>>

\* nd_random_bytes or nd_x25519_base fails.
ClientStartFails(c) ==
  /\ cpc[c] = "start"
  /\ ClientFails(c)

-----------------------------------------------------------------------------
(* The ClientHello retry loop.                                             *)

\* One attempt more than the loop makes.
NextAttemptOffByOne(c) ==
  \/ /\ attempt[c] < MaxAttempts
     /\ attempt' = [attempt EXCEPT ![c] = @ + 1]
     /\ cpc' = [cpc EXCEPT ![c] = "send_hello"]
     /\ UNCHANGED <<cstatus, ctranscript, ckeys, cchain>>
  \/ /\ attempt[c] = MaxAttempts
     /\ ClientFails(c)

\* The counter is not advanced.
NextAttemptForever(c) ==
  /\ cpc' = [cpc EXCEPT ![c] = "send_hello"]
  /\ UNCHANGED <<attempt, cstatus, ctranscript, ckeys, cchain>>

\* An attempt that did not work, for whatever reason: the next one, or the
\* end of the loop and of the call.
NextAttempt(c) ==
  \/ /\ attempt[c] + 1 < MaxAttempts
     /\ attempt' = [attempt EXCEPT ![c] = @ + 1]
     /\ cpc' = [cpc EXCEPT ![c] = "send_hello"]
     /\ UNCHANGED <<cstatus, ctranscript, ckeys, cchain>>
  \/ /\ attempt[c] + 1 = MaxAttempts
     /\ ClientFails(c)

ClientHelloDatagram(c) == Plaintext(ClientHello(c))

\* nd_udp_send of the same bytes every time
SendClientHello(c) ==
  /\ cpc[c] = "send_hello"
  /\ cpc' = [cpc EXCEPT ![c] = "recv_hello"]
  /\ UNCHANGED <<attempt, cstatus, ctranscript, ckeys, cchain>>

\* The send fails: no receive in this attempt.
SendClientHelloFails(c) ==
  /\ cpc[c] = "send_hello"
  /\ NextAttempt(c)

\* nd_udp_recv times out or reports a socket error.
RecvHelloFails(c) ==
  /\ cpc[c] = "recv_hello"
  /\ NextAttempt(c)

\* A datagram arrives.  What recv_plaintext_handshake cannot parse costs an
\* attempt; anything it can parse ends the loop and must be a ServerHello.
RecvServerHello(c, d) ==
  /\ cpc[c] = "recv_hello"
  /\ \/ /\ d.layer # "plaintext"
        /\ NextAttempt(c)
     \/ /\ d.layer = "plaintext"
        /\ d.msg.type # "server_hello" \/ d = ForeignHello("server_hello")
        /\ ClientFails(c)
     \/ /\ d.layer = "plaintext"
        /\ d.msg.type = "server_hello"
        /\ d # ForeignHello("server_hello")
        /\ ClientAdds(c, d.msg, "recv_encrypted_extensions")
        /\ ckeys' = [ckeys EXCEPT ![c] =
             DeriveHandshakeKeys(X25519(c, d.msg.share), Append(ctranscript[c], d.msg))]
        /\ UNCHANGED <<attempt, cstatus, cchain>>

-----------------------------------------------------------------------------
(* The server's protected flight: each message is awaited once, and        *)
(* anything else that comes ends the call.                                 *)

Awaited ==
  [recv_encrypted_extensions |-> "encrypted_extensions",
   recv_certificate |-> "certificate",
   recv_certificate_verify |-> "certificate_verify",
   recv_finished |-> "finished"]

\* nd_udp_recv times out or reports a socket error.
RecvFlightFails(c) ==
  /\ cpc[c] \in DOMAIN Awaited
  /\ ClientFails(c)

ClientUnprotects(c, d) == Unprotects(ckeys[c], "server", d)

\* recv_protected_handshake fails, or yields a message of another type.
RecvFlightRejects(c, d) ==
  /\ cpc[c] \in DOMAIN Awaited
  /\ ClientUnprotects(c, d) => d.msg.type # Awaited[cpc[c]]
  /\ ClientFails(c)

\* recv_protected_handshake yields the message that state pc waits for.
Receives(c, pc, d) ==
  /\ cpc[c] = pc
  /\ ClientUnprotects(c, d)
  /\ d.msg.type = Awaited[pc]

\* EncryptedExtensions is left out of the transcript.
RecvEncryptedExtensionsUnhashed(c, d) ==
  /\ Receives(c, "recv_encrypted_extensions", d)
  /\ cpc' = [cpc EXCEPT ![c] = "recv_certificate"]
  /\ UNCHANGED <<attempt, cstatus, ctranscript, ckeys, cchain>>

RecvEncryptedExtensions(c, d) ==
  /\ Receives(c, "recv_encrypted_extensions", d)
  /\ ClientAdds(c, d.msg, "recv_certificate")
  /\ UNCHANGED <<attempt, cstatus, ckeys, cchain>>

\* nd_certificate_parse, nd_x509_parse of every entry, nd_x509_verify_chain
RecvCertificate(c, d) ==
  /\ Receives(c, "recv_certificate", d)
  /\ \/ /\ d.msg.chain \notin Parseable \cap Trusted
        /\ ClientFails(c)
     \/ /\ d.msg.chain \in Parseable \cap Trusted
        /\ ClientAdds(c, d.msg, "recv_certificate_verify")
        /\ cchain' = [cchain EXCEPT ![c] = d.msg.chain]
        /\ UNCHANGED <<attempt, cstatus, ckeys>>

\* The signature is verified under the key it names, not the leaf's.
CertificateVerifyAnyKey(msg, chain, hash) == msg.content = hash

\* nd_certificate_verify_check against the leaf of the verified chain
CertificateVerifyCheck(msg, chain, hash) ==
  /\ msg.signer = LeafKey[chain]
  /\ msg.content = hash

RecvCertificateVerify(c, d) ==
  /\ Receives(c, "recv_certificate_verify", d)
  /\ \/ /\ ~CertificateVerifyCheck(d.msg, cchain[c], ctranscript[c])
        /\ ClientFails(c)
     \/ /\ CertificateVerifyCheck(d.msg, cchain[c], ctranscript[c])
        /\ ClientAdds(c, d.msg, "recv_finished")
        /\ UNCHANGED <<attempt, cstatus, ckeys, cchain>>

\* The message type and the MAC are taken for granted once a record opens.
RecvServerFinishedUnchecked(c, d) ==
  /\ cpc[c] = "recv_finished"
  /\ ClientUnprotects(c, d)
  /\ ClientAdds(c, d.msg, "send_finished")
  /\ UNCHANGED <<attempt, cstatus, ckeys, cchain>>

\* nd_finished_verify under the server's traffic secret
RecvServerFinished(c, d) ==
  /\ Receives(c, "recv_finished", d)
  /\ \/ /\ d.msg.verify_data # FinishedCompute(ckeys[c], "server", ctranscript[c])
        /\ ClientFails(c)
     \/ /\ d.msg.verify_data = FinishedCompute(ckeys[c], "server", ctranscript[c])
        /\ ClientAdds(c, d.msg, "send_finished")
        /\ UNCHANGED <<attempt, cstatus, ckeys, cchain>>

-----------------------------------------------------------------------------
\* The client's Finished is its second message, and the first and only record
\* of its freshly initialised write context.
ClientFinished(c) == Finished(1, FinishedCompute(ckeys[c], "client", ctranscript[c]))
ClientFinishedDatagram(c) == Protected(ckeys[c], "client", 0, ClientFinished(c))

\* wrap_and_add, nd_record_protect, nd_udp_send; the call succeeds
SendClientFinished(c) ==
  /\ cpc[c] = "send_finished"
  /\ ctranscript' = [ctranscript EXCEPT ![c] = Append(@, ClientFinished(c))]
  /\ cpc' = [cpc EXCEPT ![c] = "done"]
  /\ cstatus' = [cstatus EXCEPT ![c] = OK]
  /\ UNCHANGED <<attempt, ckeys, cchain>>

SendClientFinishedFails(c) ==
  /\ cpc[c] = "send_finished"
  /\ ClientFails(c)

-----------------------------------------------------------------------------
\* A datagram d reaches call c while it waits for one.
ClientReceives(c, d) ==
  \/ RecvServerHello(c, d)
  \/ RecvFlightRejects(c, d)
  \/ RecvEncryptedExtensions(c, d)
  \/ RecvCertificate(c, d)
  \/ RecvCertificateVerify(c, d)
  \/ RecvServerFinished(c, d)

\* A wait of call c ends without a datagram.
ClientTimesOut(c) == RecvHelloFails(c) \/ RecvFlightFails(c)

\* A step of call c that neither sends nor receives.
ClientLocal(c) == ClientStart(c) \/ ClientStartFails(c)

\* A send that the operating system refuses.
ClientSendFails(c) == SendClientHelloFails(c) \/ SendClientFinishedFails(c)
=============================================================================
