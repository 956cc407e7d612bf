---------------------------- MODULE HandshakeInv ----------------------------
(***************************************************************************)
(* The inductive invariant of Handshake: what each call knows of its peer  *)
(* in each of its states, and where every datagram in the network is from. *)
(* The transcript of a handshake between client c and server s is spelled  *)
(* out message by message, so that agreement is equality of tuples.        *)
(***************************************************************************)
EXTENDS Handshake

\* The transcript after two to six messages, and the keys.
T2(c, s) == <<ClientHello(c), ServerHello(s)>>
T3(c, s) == <<ClientHello(c), ServerHello(s), EncryptedExtensions>>
T4(c, s, conf) ==
  <<ClientHello(c), ServerHello(s), EncryptedExtensions, Certificate(conf.chain)>>
CV(c, s, conf) == CertificateVerify(conf.signer, T4(c, s, conf))
T5(c, s, conf) ==
  <<ClientHello(c), ServerHello(s), EncryptedExtensions, Certificate(conf.chain),
    CV(c, s, conf)>>
Keys(c, s) == DeriveHandshakeKeys(X25519(c, s), T2(c, s))
SF(c, s, conf) == Finished(4, FinishedCompute(Keys(c, s), "server", T5(c, s, conf)))
T6(c, s, conf) ==
  <<ClientHello(c), ServerHello(s), EncryptedExtensions, Certificate(conf.chain),
    CV(c, s, conf), SF(c, s, conf)>>
CF(c, s, conf) == Finished(1, FinishedCompute(Keys(c, s), "client", T6(c, s, conf)))
T7(c, s, conf) ==
  <<ClientHello(c), ServerHello(s), EncryptedExtensions, Certificate(conf.chain),
    CV(c, s, conf), SF(c, s, conf), CF(c, s, conf)>>

\* Server call s derived its keys with client c and has sent n messages of its
\* protected flight since.
Progress(c, s, n) ==
  /\ skeys[s] = Keys(c, s)
  /\ config[s] \in Config
  /\ next_send[s] = n
  /\ n = 0 => stranscript[s] = T2(c, s)
  /\ n = 1 => stranscript[s] = T3(c, s)
  /\ n = 2 => stranscript[s] = T4(c, s, config[s])
  /\ n = 3 => stranscript[s] = T5(c, s, config[s])
  /\ n = 4 => stranscript[s] = T6(c, s, config[s])

ServerState(s) ==
  /\ spc[s] \in {"idle", "accept", "send_hello"} => skeys[s] = NoKeys
  /\ spc[s] \in {"accept", "send_hello"} => config[s] \in Config
  /\ spc[s] = "send_hello" => \E c \in Client : stranscript[s] = T2(c, s)
  /\ spc[s] = "send_encrypted_extensions" => \E c \in Client : Progress(c, s, 0)
  /\ spc[s] = "send_certificate" => \E c \in Client : Progress(c, s, 1)
  /\ spc[s] = "send_certificate_verify" => \E c \in Client : Progress(c, s, 2)
  /\ spc[s] = "send_finished" => \E c \in Client : Progress(c, s, 3)
  /\ spc[s] = "recv_finished" => \E c \in Client : Progress(c, s, 4)
  /\ skeys[s] # NoKeys => \E c \in Client, n \in 0 .. 4 : Progress(c, s, n)
  /\ spc[s] # "done" => sstatus[s] = Running
  /\ sstatus[s] = OK =>
       \E c \in Client :
         /\ Progress(c, s, 4)
         /\ cstatus[c] = OK
         /\ ckeys[c] = Keys(c, s)

\* Client c and server s hold the same keys, and s has sent n messages of its
\* flight at least.
Bound(c, s, n) ==
  /\ ckeys[c] = Keys(c, s)
  /\ skeys[s] = Keys(c, s)
  /\ next_send[s] >= n

\* The client has verified the chain that s presented.
Presented(c, s) == cchain[c] = config[s].chain /\ cchain[c] \in Parseable \cap Trusted
Signed(c, s) == Presented(c, s) /\ config[s].signer = LeafKey[cchain[c]]

ClientState(c) ==
  /\ cpc[c] = "start" => ctranscript[c] = << >>
  /\ cpc[c] \in {"send_hello", "recv_hello"} => ctranscript[c] = <<ClientHello(c)>>
  /\ cpc[c] = "recv_encrypted_extensions" =>
       \E s \in Server : ckeys[c] = Keys(c, s) /\ ctranscript[c] = T2(c, s)
  /\ cpc[c] = "recv_certificate" =>
       \E s \in Server : Bound(c, s, 1) /\ ctranscript[c] = T3(c, s)
  /\ cpc[c] = "recv_certificate_verify" =>
       \E s \in Server : Bound(c, s, 2) /\ Presented(c, s)
                         /\ ctranscript[c] = T4(c, s, config[s])
  /\ cpc[c] = "recv_finished" =>
       \E s \in Server : Bound(c, s, 3) /\ Signed(c, s)
                         /\ ctranscript[c] = T5(c, s, config[s])
  /\ cpc[c] = "send_finished" =>
       \E s \in Server : Bound(c, s, 4) /\ Signed(c, s)
                         /\ ctranscript[c] = T6(c, s, config[s])
  /\ cpc[c] # "done" => cstatus[c] = Running
  /\ cpc[c] = "done" => cstatus[c] \in {OK, ERR}
  /\ cstatus[c] = OK =>
       \E s \in Server : Bound(c, s, 4) /\ Signed(c, s)
                         /\ ctranscript[c] = T7(c, s, config[s])

\* The record that carries the n-th message of the flight, counting from 0.
FlightRecord(c, s, n, d) ==
  \/ n = 0 /\ d = Protected(Keys(c, s), "server", 0, EncryptedExtensions)
  \/ n = 1 /\ d = Protected(Keys(c, s), "server", 1, Certificate(config[s].chain))
  \/ n = 2 /\ d = Protected(Keys(c, s), "server", 2, CV(c, s, config[s]))
  \/ n = 3 /\ d = Protected(Keys(c, s), "server", 3, SF(c, s, config[s]))

FromServer(c, s, n, d) ==
  /\ skeys[s] = Keys(c, s)
  /\ next_send[s] > n
  /\ FlightRecord(c, s, n, d)

FromClient(c, s, d) ==
  /\ cstatus[c] = OK
  /\ Bound(c, s, 4)
  /\ d = Protected(Keys(c, s), "client", 0, CF(c, s, config[s]))

Origin(d) ==
  \/ \E c \in Client : d = ClientHelloDatagram(c)
  \/ \E s \in Server : d = ServerHelloDatagram(s)
  \/ \E c \in Client, s \in Server, n \in 0 .. 3 : FromServer(c, s, n, d)
  \/ \E c \in Client, s \in Server : FromClient(c, s, d)

\* The variables that TypeOK says nothing of are functions on the calls.
Total ==
  /\ ctranscript = [c \in Client |-> ctranscript[c]]
  /\ ckeys = [c \in Client |-> ckeys[c]]
  /\ stranscript = [s \in Server |-> stranscript[s]]
  /\ skeys = [s \in Server |-> skeys[s]]

IInv ==
  /\ TypeOK
  /\ Total
  /\ \A s \in Server : ServerState(s)
  /\ \A c \in Client : ClientState(c)
  /\ \A d \in sent : Origin(d)
=============================================================================
