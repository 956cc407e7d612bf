--------------------------- MODULE ServerHandshake ---------------------------
(***************************************************************************)
(* nd_server_handshake (src/handshake/server.c), in the style of           *)
(* ClientHandshake: one action for each blocking or sending step.  A       *)
(* server process makes one call after another on its port, so that a call *)
(* starts only when no other is under way; each draws fresh randomness.    *)
(***************************************************************************)
EXTENDS HandshakeMessages

CONSTANTS
  Config,           \* nd_server_config: records [chain, signer]
  FinishedAttempts  \* the bound of the wait for the client's Finished (8)

ASSUME ConfigAssumption == Config \subseteq [chain : Chain, signer : Key]
ASSUME FinishedAttemptsAssumption == FinishedAttempts \in Nat \ {0}

VARIABLES
  spc,          \* where each call is
  config,       \* the configuration it was called with
  sattempt,     \* datagrams consumed while waiting for the client's Finished
  sstatus,      \* the value returned, or Running
  stranscript,  \* the running transcript
  skeys,        \* the handshake keys, once derived
  next_send     \* nd_record_protection.next_send_sequence of server_write

serverVars == <<spc, config, sattempt, sstatus, stranscript, skeys, next_send>>

NoConfig == [chain |-> "none", signer |-> "none"]

ServerInit ==
  /\ spc = [s \in Server |-> "idle"]
  /\ config = [s \in Server |-> NoConfig]
  /\ sattempt = [s \in Server |-> 0]
  /\ sstatus = [s \in Server |-> Running]
  /\ stranscript = [s \in Server |-> << >>]
  /\ skeys = [s \in Server |-> NoKeys]
  /\ next_send = [s \in Server |-> 0]

-----------------------------------------------------------------------------
ServerReturns(s, st) ==
  /\ spc' = [spc EXCEPT ![s] = "done"]
  /\ sstatus' = [sstatus EXCEPT ![s] = st]

\* The call returns; its last state stays behind as history.
ServerEnds(s, st) ==
  /\ ServerReturns(s, st)
  /\ UNCHANGED <<config, sattempt, stranscript, skeys, next_send>>

\* The call begins with its argument checks: a chain of one to four.
ServerStart(s, conf) ==
  /\ spc[s] = "idle"
  /\ \A other \in Server : spc[other] \in {"idle", "done"}
  /\ config' = [config EXCEPT ![s] = conf]
  /\ \/ /\ CertCount[conf.chain] \in 1 .. MaxCerts
        /\ spc' = [spc EXCEPT ![s] = "accept"]
        /\ UNCHANGED sstatus
     \/ /\ CertCount[conf.chain] \notin 1 .. MaxCerts
        /\ ServerReturns(s, ERR)
  /\ UNCHANGED <<sattempt, stranscript, skeys, next_send>>

\* nd_udp_server_accept_peer times out, or its connect fails.
AcceptFails(s) ==
  /\ spc[s] = "accept"
  /\ ServerEnds(s, ERR)

\* The first datagram of the socket must be a ClientHello this build handles.
\* ServerHello is drawn, framed and hashed at once.
AcceptClientHello(s, d) ==
  /\ spc[s] = "accept"
  /\ \/ /\ d.layer # "plaintext"
        /\ ServerEnds(s, ERR)
     \/ /\ d.layer = "plaintext"
        /\ d.msg.type # "client_hello" \/ d = ForeignHello("client_hello")
        /\ ServerEnds(s, ERR)
     \/ /\ d.layer = "plaintext"
        /\ d.msg.type = "client_hello"
        /\ d # ForeignHello("client_hello")
        /\ stranscript' = [stranscript EXCEPT ![s] = <<d.msg, ServerHello(s)>>]
        /\ spc' = [spc EXCEPT ![s] = "send_hello"]
        /\ UNCHANGED <<config, sattempt, sstatus, skeys, next_send>>

\* The random draws of ServerHello fail.
ServerHelloFails(s) ==
  /\ spc[s] = "send_hello"
  /\ ServerEnds(s, ERR)

-----------------------------------------------------------------------------
(* The server's flight.                                                    *)

ServerHelloDatagram(s) == Plaintext(ServerHello(s))

\* nd_udp_send of ServerHello, then the shared secret, the keys and fresh
\* record protection contexts.
SendServerHello(s) ==
  /\ spc[s] = "send_hello"
  /\ skeys' = [skeys EXCEPT ![s] =
       DeriveHandshakeKeys(X25519(s, stranscript[s][1].share), stranscript[s])]
  /\ next_send' = [next_send EXCEPT ![s] = 0]
  /\ spc' = [spc EXCEPT ![s] = "send_encrypted_extensions"]
  /\ UNCHANGED <<config, sattempt, sstatus, stranscript>>

\* The message each flight state sends, with the snapshot of the transcript
\* that CertificateVerify signs and Finished authenticates.
FlightMessage(s) ==
  CASE spc[s] = "send_encrypted_extensions" -> EncryptedExtensions
    [] spc[s] = "send_certificate" -> Certificate(config[s].chain)
    [] spc[s] = "send_certificate_verify" ->
         CertificateVerify(config[s].signer, stranscript[s])
    [] spc[s] = "send_finished" ->
         Finished(4, FinishedCompute(skeys[s], "server", stranscript[s]))

AfterFlight ==
  [send_encrypted_extensions |-> "send_certificate",
   send_certificate |-> "send_certificate_verify",
   send_certificate_verify |-> "send_finished",
   send_finished |-> "recv_finished"]

FlightDatagram(s) == Protected(skeys[s], "server", next_send[s], FlightMessage(s))

\* The record's sequence number is not advanced.
SendProtectedSameNumber(s) ==
  /\ spc[s] \in DOMAIN AfterFlight
  /\ spc[s] = "send_certificate" => FitsRecord(config[s].chain)
  /\ stranscript' = [stranscript EXCEPT ![s] = Append(@, FlightMessage(s))]
  /\ spc' = [spc EXCEPT ![s] = AfterFlight[@]]
  /\ UNCHANGED <<config, sattempt, sstatus, skeys, next_send>>

\* send_protected: wrap_and_add, nd_record_protect, nd_udp_send
SendProtected(s) ==
  /\ spc[s] \in DOMAIN AfterFlight
  /\ spc[s] = "send_certificate" => FitsRecord(config[s].chain)
  /\ stranscript' = [stranscript EXCEPT ![s] = Append(@, FlightMessage(s))]
  /\ next_send' = [next_send EXCEPT ![s] = @ + 1]
  /\ spc' = [spc EXCEPT ![s] = AfterFlight[@]]
  /\ UNCHANGED <<config, sattempt, sstatus, skeys>>

\* A Certificate message larger than a record is found out only when its turn
\* comes, with half of the flight already sent.
CertificateTooLong(s) ==
  /\ spc[s] = "send_certificate"
  /\ ~FitsRecord(config[s].chain)
  /\ ServerEnds(s, ERR)

\* config->sign_fn reports an error.
SignFails(s) ==
  /\ spc[s] = "send_certificate_verify"
  /\ ServerEnds(s, ERR)

\* nd_udp_send fails, or something before it (the client's share gives the
\* zero secret, a message does not serialise): nothing is sent, the call ends.
ServerSendFails(s) ==
  /\ spc[s] \in {"send_hello"} \cup DOMAIN AfterFlight
  /\ ServerEnds(s, ERR)

-----------------------------------------------------------------------------
(* The wait for the client's Finished.                                     *)

\* nd_udp_recv times out or reports a socket error: the loop is left.
RecvClientFinishedFails(s) ==
  /\ spc[s] = "recv_finished"
  /\ ServerEnds(s, ERR)

ServerUnprotects(s, d) == Unprotects(skeys[s], "client", d)

\* The status of the last attempt is lost when the loop runs out.
SkipDatagramThenSucceed(s, d) ==
  /\ spc[s] = "recv_finished"
  /\ ~ServerUnprotects(s, d)
  /\ sattempt' = [sattempt EXCEPT ![s] = @ + 1]
  /\ \/ /\ sattempt[s] + 1 < FinishedAttempts
        /\ UNCHANGED <<spc, sstatus>>
     \/ /\ sattempt[s] + 1 = FinishedAttempts
        /\ ServerReturns(s, OK)
  /\ UNCHANGED <<config, stranscript, skeys, next_send>>

\* The first datagram that does not open ends the call.
SkipDatagramFatal(s, d) ==
  /\ spc[s] = "recv_finished"
  /\ ~ServerUnprotects(s, d)
  /\ ServerEnds(s, ERR)

\* A datagram that does not open (a stale ClientHello, most often) is skipped,
\* FinishedAttempts of them end the call.
SkipDatagram(s, d) ==
  /\ spc[s] = "recv_finished"
  /\ ~ServerUnprotects(s, d)
  /\ sattempt' = [sattempt EXCEPT ![s] = @ + 1]
  /\ \/ /\ sattempt[s] + 1 < FinishedAttempts
        /\ UNCHANGED <<spc, sstatus>>
     \/ /\ sattempt[s] + 1 = FinishedAttempts
        /\ ServerReturns(s, ERR)
  /\ UNCHANGED <<config, stranscript, skeys, next_send>>

\* nd_finished_verify under the client's traffic secret
IsClientFinished(s, msg) ==
  /\ msg.type = "finished"
  /\ msg.verify_data = FinishedCompute(skeys[s], "client", stranscript[s])

\* The first record that opens must be the client's Finished for the
\* transcript up to the server's own; it is not hashed any more.
RecvClientFinished(s, d) ==
  /\ spc[s] = "recv_finished"
  /\ ServerUnprotects(s, d)
  /\ \/ /\ ~IsClientFinished(s, d.msg)
        /\ ServerEnds(s, ERR)
     \/ /\ IsClientFinished(s, d.msg)
        /\ ServerEnds(s, OK)

-----------------------------------------------------------------------------
\* A datagram d reaches call s while it waits for one.
ServerReceives(s, d) ==
  \/ AcceptClientHello(s, d)
  \/ SkipDatagram(s, d)
  \/ RecvClientFinished(s, d)

\* A wait of call s ends without a datagram.
ServerTimesOut(s) == AcceptFails(s) \/ RecvClientFinishedFails(s)

\* A step of call s that neither sends nor receives.
ServerLocal(s) ==
  \/ \E conf \in Config : ServerStart(s, conf)
  \/ ServerHelloFails(s)
  \/ CertificateTooLong(s)
  \/ SignFails(s)
=============================================================================
