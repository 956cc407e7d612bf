-------------------------- MODULE Handshake_proofs --------------------------
(***************************************************************************)
(* IInv is an invariant of Handshake for any number of calls, any set of   *)
(* configurations and any retry bounds; agreement, authentication, nonce   *)
(* uniqueness and the refinement of KeyExchange follow from it.            *)
(***************************************************************************)
EXTENDS HandshakeInv, SequenceTheorems, TLAPS

-----------------------------------------------------------------------------
(* Facts about messages, keys and records.                                 *)

\* Keys determine the two calls they belong to.
LEMMA KeysInjective ==
  \A c, s, c2, s2 : Keys(c, s) = Keys(c2, s2) => c = c2 /\ s = s2
<1> SUFFICES ASSUME NEW c, NEW s, NEW c2, NEW s2, Keys(c, s) = Keys(c2, s2)
             PROVE  c = c2 /\ s = s2
  OBVIOUS
<1>1. T2(c, s) = T2(c2, s2)
  BY DEF Keys, DeriveHandshakeKeys
<1>2. ClientHello(c) = ClientHello(c2) /\ ServerHello(s) = ServerHello(s2)
  BY <1>1 DEF T2
<1> QED
  BY <1>2 DEF ClientHello, ServerHello

LEMMA KeysDerived == \A c, s : Keys(c, s) # NoKeys
<1> SUFFICES ASSUME NEW c, NEW s, Keys(c, s) = NoKeys PROVE FALSE
  OBVIOUS
<1>1. T2(c, s) = << >>
  BY DEF Keys, NoKeys, DeriveHandshakeKeys
<1> QED
  BY <1>1 DEF T2

\* The five message types.
LEMMA MessageTypes ==
  ASSUME NEW c, NEW s, NEW conf
  PROVE  /\ ClientHello(c).type = "client_hello"
         /\ ServerHello(s).type = "server_hello"
         /\ EncryptedExtensions.type = "encrypted_extensions"
         /\ Certificate(conf.chain).type = "certificate"
         /\ CV(c, s, conf).type = "certificate_verify"
         /\ SF(c, s, conf).type = "finished"
         /\ CF(c, s, conf).type = "finished"
  BY DEF ClientHello, ServerHello, EncryptedExtensions, Certificate, CV, SF, CF,
         CertificateVerify, Finished

\* The fields of a protected record, and the layers of the other datagrams.
LEMMA RecordFields ==
  ASSUME NEW k, NEW r, NEW n, NEW m
  PROVE  /\ Protected(k, r, n, m).layer = "protected"
         /\ Protected(k, r, n, m).keys = k
         /\ Protected(k, r, n, m).role = r
         /\ Protected(k, r, n, m).n = n
         /\ Protected(k, r, n, m).msg = m
         /\ Plaintext(m).layer = "plaintext"
         /\ Plaintext(m).msg = m
  BY DEF Protected, Plaintext

LEMMA NoiseFields ==
  ASSUME NEW d \in Noise
  PROVE  /\ d.layer # "protected"
         /\ d.layer = "plaintext" =>
              \/ d = ForeignHello("client_hello") /\ d.msg.type = "client_hello"
              \/ d = ForeignHello("server_hello") /\ d.msg.type = "server_hello"
  BY DEF Noise, Garbage, ForeignHello, Plaintext

\* A ServerHello that a client takes up is one that a server call sent.
LEMMA TakesServerHello ==
  ASSUME IInv, NEW d \in Arriving, d.layer = "plaintext", d.msg.type = "server_hello",
         d # ForeignHello("server_hello")
  PROVE  \E s \in Server : d.msg = ServerHello(s)
<1>1. d \in sent
  BY NoiseFields, Zenon DEF Arriving
<1>2. Origin(d)
  BY <1>1 DEF IInv
<1>3. CASE \E c \in Client : d = ClientHelloDatagram(c)
  BY <1>3, MessageTypes, RecordFields DEF ClientHelloDatagram
<1>4. CASE \E s \in Server : d = ServerHelloDatagram(s)
  BY <1>4, RecordFields DEF ServerHelloDatagram
<1>5. CASE \E c \in Client, s \in Server, n \in 0 .. 3 : FromServer(c, s, n, d)
  BY <1>5, RecordFields DEF FromServer, FlightRecord
<1>6. CASE \E c \in Client, s \in Server : FromClient(c, s, d)
  BY <1>6, RecordFields DEF FromClient
<1> QED
  BY <1>2, <1>3, <1>4, <1>5, <1>6 DEF Origin

\* A ClientHello that a server takes up is one that a client call sent.
LEMMA TakesClientHello ==
  ASSUME IInv, NEW d \in Arriving, d.layer = "plaintext", d.msg.type = "client_hello",
         d # ForeignHello("client_hello")
  PROVE  \E c \in Client : d.msg = ClientHello(c)
<1>1. d \in sent
  BY NoiseFields, Zenon DEF Arriving
<1>2. Origin(d)
  BY <1>1 DEF IInv
<1>3. CASE \E c \in Client : d = ClientHelloDatagram(c)
  BY <1>3, RecordFields DEF ClientHelloDatagram
<1>4. CASE \E s \in Server : d = ServerHelloDatagram(s)
  BY <1>4, MessageTypes, RecordFields DEF ServerHelloDatagram
<1>5. CASE \E c \in Client, s \in Server, n \in 0 .. 3 : FromServer(c, s, n, d)
  BY <1>5, RecordFields DEF FromServer, FlightRecord
<1>6. CASE \E c \in Client, s \in Server : FromClient(c, s, d)
  BY <1>6, RecordFields DEF FromClient
<1> QED
  BY <1>2, <1>3, <1>4, <1>5, <1>6 DEF Origin

\* A record that a client opens is the n-th of the flight of the one server
\* call that has its keys.
LEMMA OpensServerRecord ==
  ASSUME IInv, NEW c \in Client, NEW s \in Server, ckeys[c] = Keys(c, s),
         NEW d \in Arriving, ClientUnprotects(c, d)
  PROVE  \E n \in 0 .. 3 : FromServer(c, s, n, d)
<1>1. d.layer = "protected" /\ d.keys = Keys(c, s) /\ d.role = "server"
  BY DEF ClientUnprotects, Unprotects
<1>2. d \in sent
  BY <1>1, NoiseFields DEF Arriving
<1>3. Origin(d)
  BY <1>2 DEF IInv
<1>4. CASE \E c2 \in Client : d = ClientHelloDatagram(c2)
  BY <1>1, <1>4, RecordFields DEF ClientHelloDatagram
<1>5. CASE \E s2 \in Server : d = ServerHelloDatagram(s2)
  BY <1>1, <1>5, RecordFields DEF ServerHelloDatagram
<1>6. CASE \E c2 \in Client, s2 \in Server, n \in 0 .. 3 : FromServer(c2, s2, n, d)
  <2>1. PICK c2 \in Client, s2 \in Server, n \in 0 .. 3 : FromServer(c2, s2, n, d)
    BY <1>6
  <2>2. d.keys = Keys(c2, s2)
    BY <2>1, RecordFields DEF FromServer, FlightRecord
  <2>3. Keys(c2, s2) = Keys(c, s)
    BY <1>1, <2>2
  <2>4. c2 = c /\ s2 = s
    BY <2>3, KeysInjective
  <2> QED
    BY <2>1, <2>4
<1>7. CASE \E c2 \in Client, s2 \in Server : FromClient(c2, s2, d)
  BY <1>1, <1>7, RecordFields DEF FromClient
<1> QED
  BY <1>3, <1>4, <1>5, <1>6, <1>7 DEF Origin

\* A record that a server opens is the Finished of the one client call that
\* has its keys, and that call has succeeded.
LEMMA OpensClientRecord ==
  ASSUME IInv, NEW c \in Client, NEW s \in Server, skeys[s] = Keys(c, s),
         NEW d \in Arriving, ServerUnprotects(s, d)
  PROVE  FromClient(c, s, d)
<1>1. d.layer = "protected" /\ d.keys = Keys(c, s) /\ d.role = "client"
  BY DEF ServerUnprotects, Unprotects
<1>2. d \in sent
  BY <1>1, NoiseFields DEF Arriving
<1>3. Origin(d)
  BY <1>2 DEF IInv
<1>4. CASE \E c2 \in Client : d = ClientHelloDatagram(c2)
  BY <1>1, <1>4, RecordFields DEF ClientHelloDatagram
<1>5. CASE \E s2 \in Server : d = ServerHelloDatagram(s2)
  BY <1>1, <1>5, RecordFields DEF ServerHelloDatagram
<1>6. CASE \E c2 \in Client, s2 \in Server, n \in 0 .. 3 : FromServer(c2, s2, n, d)
  BY <1>1, <1>6, RecordFields DEF FromServer, FlightRecord
<1>7. CASE \E c2 \in Client, s2 \in Server : FromClient(c2, s2, d)
  <2>1. PICK c2 \in Client, s2 \in Server : FromClient(c2, s2, d)
    BY <1>7
  <2>2. d.keys = Keys(c2, s2)
    BY <2>1, RecordFields DEF FromClient
  <2>3. Keys(c2, s2) = Keys(c, s)
    BY <1>1, <2>2
  <2>4. c2 = c /\ s2 = s
    BY <2>3, KeysInjective
  <2> QED
    BY <2>1, <2>4
<1> QED
  BY <1>3, <1>4, <1>5, <1>6, <1>7 DEF Origin

-----------------------------------------------------------------------------
(* Appending to a tuple.                                                   *)

\* A sequence is Append(t, e) if it agrees with t and ends in e.
LEMMA AppendIs ==
  ASSUME NEW S, NEW t \in Seq(S), NEW e \in S, NEW u \in Seq(S),
         Len(u) = Len(t) + 1, u[Len(u)] = e, \A i \in 1 .. Len(t) : u[i] = t[i]
  PROVE  Append(t, e) = u
<1>1. Append(t, e) \in Seq(S) /\ Len(Append(t, e)) = Len(u)
  BY AppendProperties
<1>2. \A i \in 1 .. Len(Append(t, e)) : Append(t, e)[i] = u[i]
  <2>1. Len(t) \in Nat
    OBVIOUS
  <2> QED
    BY <1>1, <2>1
<1> QED
  BY <1>1, <1>2, SeqEqual

LEMMA Append0 == ASSUME NEW a PROVE Append(<< >>, a) = <<a>>
  OBVIOUS

LEMMA Append1 ==
  ASSUME NEW a, NEW b
  PROVE  Append(<<a>>, b) = <<a, b>>
<1> DEFINE S == {a, b}
           t == <<a>>
           u == <<a, b>>
<1>1. t \in Seq(S) /\ b \in S /\ u \in Seq(S)
  OBVIOUS
<1>2. Len(u) = Len(t) + 1 /\ u[Len(u)] = b /\ \A i \in 1 .. Len(t) : u[i] = t[i]
  OBVIOUS
<1>3. Append(t, b) = u
  <2> HIDE DEF S, t, u
  <2> QED
    BY <1>1, <1>2, AppendIs
<1> QED
  BY <1>3

LEMMA Append2 ==
  ASSUME NEW a, NEW b, NEW c
  PROVE  Append(<<a, b>>, c) = <<a, b, c>>
<1> DEFINE S == {a, b, c}
           t == <<a, b>>
           u == <<a, b, c>>
<1>1. t \in Seq(S) /\ c \in S /\ u \in Seq(S)
  OBVIOUS
<1>2. Len(u) = Len(t) + 1 /\ u[Len(u)] = c /\ \A i \in 1 .. Len(t) : u[i] = t[i]
  OBVIOUS
<1>3. Append(t, c) = u
  <2> HIDE DEF S, t, u
  <2> QED
    BY <1>1, <1>2, AppendIs
<1> QED
  BY <1>3

LEMMA Append3 ==
  ASSUME NEW a, NEW b, NEW c, NEW d
  PROVE  Append(<<a, b, c>>, d) = <<a, b, c, d>>
<1> DEFINE S == {a, b, c, d}
           t == <<a, b, c>>
           u == <<a, b, c, d>>
<1>1. t \in Seq(S) /\ d \in S /\ u \in Seq(S)
  OBVIOUS
<1>2. Len(u) = Len(t) + 1 /\ u[Len(u)] = d /\ \A i \in 1 .. Len(t) : u[i] = t[i]
  OBVIOUS
<1>3. Append(t, d) = u
  <2> HIDE DEF S, t, u
  <2> QED
    BY <1>1, <1>2, AppendIs
<1> QED
  BY <1>3

LEMMA Append4 ==
  ASSUME NEW a, NEW b, NEW c, NEW d, NEW e
  PROVE  Append(<<a, b, c, d>>, e) = <<a, b, c, d, e>>
<1> DEFINE S == {a, b, c, d, e}
           t == <<a, b, c, d>>
           u == <<a, b, c, d, e>>
<1>1. t \in Seq(S) /\ e \in S /\ u \in Seq(S)
  OBVIOUS
<1>2. Len(u) = Len(t) + 1 /\ u[Len(u)] = e /\ \A i \in 1 .. Len(t) : u[i] = t[i]
  OBVIOUS
<1>3. Append(t, e) = u
  <2> HIDE DEF S, t, u
  <2> QED
    BY <1>1, <1>2, AppendIs
<1> QED
  BY <1>3

LEMMA Append5 ==
  ASSUME NEW a, NEW b, NEW c, NEW d, NEW e, NEW f
  PROVE  Append(<<a, b, c, d, e>>, f) = <<a, b, c, d, e, f>>
<1> DEFINE S == {a, b, c, d, e, f}
           t == <<a, b, c, d, e>>
           u == <<a, b, c, d, e, f>>
<1>1. t \in Seq(S) /\ f \in S /\ u \in Seq(S)
  OBVIOUS
<1>2. Len(u) = Len(t) + 1 /\ u[Len(u)] = f /\ \A i \in 1 .. Len(t) : u[i] = t[i]
  OBVIOUS
<1>3. Append(t, f) = u
  <2> HIDE DEF S, t, u
  <2> QED
    BY <1>1, <1>2, AppendIs
<1> QED
  BY <1>3

LEMMA Append6 ==
  ASSUME NEW a, NEW b, NEW c, NEW d, NEW e, NEW f, NEW g
  PROVE  Append(<<a, b, c, d, e, f>>, g) = <<a, b, c, d, e, f, g>>
<1> DEFINE S == {a, b, c, d, e, f, g}
           t == <<a, b, c, d, e, f>>
           u == <<a, b, c, d, e, f, g>>
<1>1. t \in Seq(S) /\ g \in S /\ u \in Seq(S)
  OBVIOUS
<1>2. Len(u) = Len(t) + 1 /\ u[Len(u)] = g /\ \A i \in 1 .. Len(t) : u[i] = t[i]
  OBVIOUS
<1>3. Append(t, g) = u
  <2> HIDE DEF S, t, u
  <2> QED
    BY <1>1, <1>2, AppendIs
<1> QED
  BY <1>3

\* The transcripts of a handshake, each the one before and one message more.
LEMMA TranscriptSteps ==
  ASSUME NEW c, NEW s, NEW conf
  PROVE  /\ Append(<<ClientHello(c)>>, ServerHello(s)) = T2(c, s)
         /\ Append(T2(c, s), EncryptedExtensions) = T3(c, s)
         /\ Append(T3(c, s), Certificate(conf.chain)) = T4(c, s, conf)
         /\ Append(T4(c, s, conf), CV(c, s, conf)) = T5(c, s, conf)
         /\ Append(T5(c, s, conf), SF(c, s, conf)) = T6(c, s, conf)
         /\ Append(T6(c, s, conf), CF(c, s, conf)) = T7(c, s, conf)
<1>1. Append(<<ClientHello(c)>>, ServerHello(s)) = T2(c, s)
  BY Append1 DEF T2
<1>2. Append(T2(c, s), EncryptedExtensions) = T3(c, s)
  BY Append2 DEF T2, T3
<1>3. Append(T3(c, s), Certificate(conf.chain)) = T4(c, s, conf)
  BY Append3 DEF T3, T4
<1>4. Append(T4(c, s, conf), CV(c, s, conf)) = T5(c, s, conf)
  BY Append4 DEF T4, T5
<1>5. Append(T5(c, s, conf), SF(c, s, conf)) = T6(c, s, conf)
  BY Append5 DEF T5, T6
<1>6. Append(T6(c, s, conf), CF(c, s, conf)) = T7(c, s, conf)
  BY Append6 DEF T6, T7
<1> QED
  BY <1>1, <1>2, <1>3, <1>4, <1>5, <1>6

-----------------------------------------------------------------------------
(* What a step of one side leaves true of the other.                       *)

\* A server call that has its keys keeps them, its configuration and the
\* records it has sent; a client call that succeeded stays so.
ServerGrows ==
  \A s \in Server : skeys[s] # NoKeys =>
    skeys'[s] = skeys[s] /\ config'[s] = config[s] /\ next_send'[s] >= next_send[s]
ClientGrows ==
  \A c \in Client : cstatus[c] = OK => cstatus'[c] = OK /\ ckeys'[c] = ckeys[c]

LEMMA BoundGrows ==
  ASSUME TypeOK, TypeOK', ServerGrows, NEW c \in Client, NEW s \in Server, NEW n \in 0 .. 4,
         Bound(c, s, n), ckeys'[c] = ckeys[c]
  PROVE  Bound(c, s, n)' /\ config'[s] = config[s]
<1>1. skeys[s] # NoKeys
  BY KeysDerived DEF Bound
<1>2. skeys'[s] = skeys[s] /\ config'[s] = config[s] /\ next_send'[s] >= next_send[s]
  BY <1>1 DEF ServerGrows
<1>3. next_send[s] \in Nat /\ next_send'[s] \in Nat
  BY DEF TypeOK
<1>4. next_send'[s] >= n
  BY <1>2, <1>3 DEF Bound
<1> QED
  BY <1>2, <1>4 DEF Bound

LEMMA OriginGrows ==
  ASSUME TypeOK, TypeOK', ServerGrows, ClientGrows, NEW d, Origin(d)
  PROVE  Origin(d)'
<1>1. CASE \E c \in Client : d = ClientHelloDatagram(c)
  BY <1>1 DEF Origin, ClientHelloDatagram
<1>2. CASE \E s \in Server : d = ServerHelloDatagram(s)
  BY <1>2 DEF Origin, ServerHelloDatagram
<1>3. CASE \E c \in Client, s \in Server, n \in 0 .. 3 : FromServer(c, s, n, d)
  <2>1. PICK c \in Client, s \in Server, n \in 0 .. 3 : FromServer(c, s, n, d)
    BY <1>3
  <2>2. skeys[s] # NoKeys
    BY <2>1, KeysDerived DEF FromServer
  <2>3. skeys'[s] = skeys[s] /\ config'[s] = config[s] /\ next_send'[s] >= next_send[s]
    BY <2>2 DEF ServerGrows
  <2>4. next_send'[s] > n
    BY <2>1, <2>3 DEF FromServer, TypeOK
  <2>5. FlightRecord(c, s, n, d)'
    BY <2>1, <2>3 DEF FromServer, FlightRecord
  <2>6. FromServer(c, s, n, d)'
    BY <2>1, <2>3, <2>4, <2>5 DEF FromServer
  <2> QED
    BY <2>6 DEF Origin
<1>4. CASE \E c \in Client, s \in Server : FromClient(c, s, d)
  <2>1. PICK c \in Client, s \in Server : FromClient(c, s, d)
    BY <1>4
  <2>2. cstatus'[c] = OK /\ ckeys'[c] = ckeys[c]
    BY <2>1 DEF FromClient, ClientGrows
  <2>3. Bound(c, s, 4)' /\ config'[s] = config[s]
    BY <2>1, <2>2, BoundGrows DEF FromClient
  <2>4. FromClient(c, s, d)'
    BY <2>1, <2>2, <2>3 DEF FromClient
  <2> QED
    BY <2>4 DEF Origin
<1> QED
  BY <1>1, <1>2, <1>3, <1>4 DEF Origin

\* A client call whose own state does not change still knows its server.
LEMMA ClientStateGrows ==
  ASSUME TypeOK, TypeOK', ServerGrows, NEW c \in Client, ClientState(c),
         cpc'[c] = cpc[c], cstatus'[c] = cstatus[c], ctranscript'[c] = ctranscript[c],
         ckeys'[c] = ckeys[c], cchain'[c] = cchain[c]
  PROVE  ClientState(c)'
<1>1. ASSUME NEW s \in Server, NEW n \in 0 .. 4, Bound(c, s, n)
      PROVE  /\ Bound(c, s, n)' /\ config'[s] = config[s]
             /\ Presented(c, s) => Presented(c, s)'
             /\ Signed(c, s) => Signed(c, s)'
  <2>1. Bound(c, s, n)' /\ config'[s] = config[s]
    BY <1>1, BoundGrows
  <2> QED
    BY <2>1 DEF Presented, Signed
<1>2. (cpc[c] = "recv_certificate" =>
        \E s \in Server : Bound(c, s, 1) /\ ctranscript[c] = T3(c, s))'
  BY <1>1 DEF ClientState
<1>3. (cpc[c] = "recv_certificate_verify" =>
        \E s \in Server : Bound(c, s, 2) /\ Presented(c, s)
                          /\ ctranscript[c] = T4(c, s, config[s]))'
  BY <1>1 DEF ClientState
<1>4. (cpc[c] = "recv_finished" =>
        \E s \in Server : Bound(c, s, 3) /\ Signed(c, s)
                          /\ ctranscript[c] = T5(c, s, config[s]))'
  BY <1>1 DEF ClientState
<1>5. (cpc[c] = "send_finished" =>
        \E s \in Server : Bound(c, s, 4) /\ Signed(c, s)
                          /\ ctranscript[c] = T6(c, s, config[s]))'
  BY <1>1 DEF ClientState
<1>6. (cstatus[c] = OK =>
        \E s \in Server : Bound(c, s, 4) /\ Signed(c, s)
                          /\ ctranscript[c] = T7(c, s, config[s]))'
  BY <1>1 DEF ClientState
<1> QED
  BY <1>2, <1>3, <1>4, <1>5, <1>6 DEF ClientState

\* A server call whose own state does not change still knows its client.
LEMMA ServerStateGrows ==
  ASSUME ClientGrows, NEW s \in Server, ServerState(s),
         spc'[s] = spc[s], config'[s] = config[s], sstatus'[s] = sstatus[s],
         stranscript'[s] = stranscript[s], skeys'[s] = skeys[s], next_send'[s] = next_send[s]
  PROVE  ServerState(s)'
<1>1. ASSUME NEW c \in Client, NEW n \in 0 .. 4, Progress(c, s, n)
      PROVE  Progress(c, s, n)'
  BY <1>1 DEF Progress
<1>2. (sstatus[s] = OK =>
        \E c \in Client : Progress(c, s, 4) /\ cstatus[c] = OK /\ ckeys[c] = Keys(c, s))'
  BY <1>1 DEF ServerState, ClientGrows
<1> QED
  BY <1>1, <1>2 DEF ServerState

-----------------------------------------------------------------------------
(* The steps of a client call.                                             *)

\* What every step of client call c achieves.
ClientKeeps(c) ==
  /\ TypeOK'
  /\ Total'
  /\ ClientState(c)'
  /\ cstatus[c] # OK
  /\ \A c2 \in Client \ {c} :
       /\ cpc'[c2] = cpc[c2] /\ cstatus'[c2] = cstatus[c2] /\ cchain'[c2] = cchain[c2]
       /\ ctranscript'[c2] = ctranscript[c2] /\ ckeys'[c2] = ckeys[c2]

LEMMA ClientFailsKeeps ==
  ASSUME IInv, NEW c \in Client, UNCHANGED serverVars, cpc[c] # "done", ClientFails(c)
  PROVE  ClientKeeps(c)
<1>1. TypeOK /\ Total /\ ClientState(c)
  BY DEF IInv
<1>2. TypeOK'
  BY <1>1, MaxAttemptsAssumption DEF TypeOK, ClientFails, serverVars, ClientPC, Status, Running, ERR
<1>3. Total'
  BY <1>1 DEF Total, ClientFails, serverVars
<1>4. cpc'[c] = "done" /\ cstatus'[c] = ERR
  BY <1>1 DEF TypeOK, ClientFails
<1>5. ClientState(c)'
  BY <1>4 DEF ClientState, OK, ERR
<1>6. cstatus[c] # OK
  BY <1>1 DEF ClientState, OK, Running
<1> QED
  BY <1>1, <1>2, <1>3, <1>5, <1>6 DEF ClientKeeps, ClientFails, TypeOK, Total

LEMMA NextAttemptKeeps ==
  ASSUME IInv, NEW c \in Client, UNCHANGED serverVars,
         cpc[c] \in {"send_hello", "recv_hello"}, NextAttempt(c)
  PROVE  ClientKeeps(c)
<1>1. TypeOK /\ Total /\ ClientState(c)
  BY DEF IInv
<1>2. CASE ClientFails(c)
  BY <1>2, ClientFailsKeeps
<1>3. CASE /\ attempt[c] + 1 < MaxAttempts
           /\ attempt' = [attempt EXCEPT ![c] = @ + 1]
           /\ cpc' = [cpc EXCEPT ![c] = "send_hello"]
           /\ UNCHANGED <<cstatus, ctranscript, ckeys, cchain>>
  <2>1. attempt'[c] \in 0 .. MaxAttempts - 1
    BY <1>1, <1>3, MaxAttemptsAssumption DEF TypeOK
  <2>2. TypeOK'
    BY <1>1, <1>3, <2>1 DEF TypeOK, serverVars, ClientPC
  <2>3. Total'
    BY <1>1, <1>3 DEF Total, serverVars
  <2>4. cpc'[c] = "send_hello" /\ cstatus'[c] = Running /\ cstatus[c] # OK
    BY <1>1, <1>3 DEF TypeOK, ClientState, OK, Running
  <2>5. ClientState(c)'
    BY <1>1, <1>3, <2>4 DEF ClientState, OK, Running
  <2> QED
    BY <1>1, <1>3, <2>2, <2>3, <2>4, <2>5 DEF ClientKeeps, TypeOK
<1> QED
  BY <1>2, <1>3 DEF NextAttempt

\* A step that hashes a message and moves on, in a call that has not returned.
Advances(c, msg, next) ==
  /\ TypeOK' /\ Total'
  /\ cpc'[c] = next
  /\ ctranscript'[c] = Append(ctranscript[c], msg)
  /\ cstatus[c] = Running /\ cstatus'[c] = Running
  /\ \A c2 \in Client \ {c} :
       /\ cpc'[c2] = cpc[c2] /\ cstatus'[c2] = cstatus[c2] /\ cchain'[c2] = cchain[c2]
       /\ ctranscript'[c2] = ctranscript[c2] /\ ckeys'[c2] = ckeys[c2]

LEMMA ClientAddsFrame ==
  ASSUME IInv, NEW c \in Client, UNCHANGED serverVars, NEW msg, NEW next \in ClientPC,
         cpc[c] # "done", ClientAdds(c, msg, next), UNCHANGED <<attempt, cstatus>>,
         cchain' \in [Client -> (Parseable \cap Trusted) \cup {NoChain}],
         ckeys' = [ckeys EXCEPT ![c] = ckeys'[c]],
         cchain' = [cchain EXCEPT ![c] = cchain'[c]]
  PROVE  Advances(c, msg, next)
<1>1. TypeOK /\ Total /\ ClientState(c)
  BY DEF IInv
<1>2. TypeOK'
  BY <1>1 DEF TypeOK, ClientAdds, serverVars
<1>3. Total'
  BY <1>1 DEF Total, ClientAdds, serverVars
<1>4. cpc'[c] = next /\ ctranscript'[c] = Append(ctranscript[c], msg)
  BY <1>1 DEF TypeOK, Total, ClientAdds
<1>5. cstatus[c] = Running /\ cstatus'[c] = Running
  BY <1>1 DEF ClientState
<1> QED
  BY <1>1, <1>2, <1>3, <1>4, <1>5 DEF Advances, ClientAdds, TypeOK, Total

LEMMA ClientStartKeeps ==
  ASSUME IInv, NEW c \in Client, UNCHANGED serverVars, ClientStart(c)
  PROVE  ClientKeeps(c)
<1>1. TypeOK /\ Total /\ ClientState(c)
  BY DEF IInv
<1>2. /\ cpc[c] = "start" /\ ClientAdds(c, ClientHello(c), "send_hello")
      /\ UNCHANGED <<attempt, cstatus, ckeys, cchain>>
  BY DEF ClientStart
<1>3. /\ ckeys' = [ckeys EXCEPT ![c] = ckeys'[c]]
      /\ cchain' = [cchain EXCEPT ![c] = cchain'[c]]
      /\ cchain' \in [Client -> (Parseable \cap Trusted) \cup {NoChain}]
  BY <1>1, <1>2 DEF Total, TypeOK
<1>4. Advances(c, ClientHello(c), "send_hello")
  BY <1>2, <1>3, ClientAddsFrame DEF ClientPC
<1>5. ctranscript'[c] = <<ClientHello(c)>>
  BY <1>1, <1>2, <1>4, Append0 DEF Advances, ClientState
<1>6. ClientState(c)'
  BY <1>4, <1>5 DEF Advances, ClientState, OK, Running
<1> QED
  BY <1>4, <1>6 DEF Advances, ClientKeeps, OK, Running

LEMMA SendClientHelloKeeps ==
  ASSUME IInv, NEW c \in Client, UNCHANGED serverVars, SendClientHello(c)
  PROVE  ClientKeeps(c)
<1>1. TypeOK /\ Total /\ ClientState(c)
  BY DEF IInv
<1>2. TypeOK' /\ Total'
  BY <1>1 DEF SendClientHello, TypeOK, Total, serverVars, ClientPC
<1>3. /\ cpc'[c] = "recv_hello" /\ ctranscript'[c] = <<ClientHello(c)>>
      /\ cstatus[c] = Running /\ cstatus'[c] = Running
  BY <1>1 DEF SendClientHello, TypeOK, ClientState
<1>4. ClientState(c)'
  BY <1>3 DEF ClientState, OK, Running
<1> QED
  BY <1>1, <1>2, <1>3, <1>4 DEF ClientKeeps, SendClientHello, TypeOK, OK, Running

LEMMA RecvServerHelloKeeps ==
  ASSUME IInv, NEW c \in Client, UNCHANGED serverVars, NEW d \in Arriving,
         RecvServerHello(c, d)
  PROVE  ClientKeeps(c)
<1>1. TypeOK /\ Total /\ ClientState(c)
  BY DEF IInv
<1>2. cpc[c] = "recv_hello"
  BY DEF RecvServerHello
<1>3. CASE NextAttempt(c)
  BY <1>2, <1>3, NextAttemptKeeps
<1>4. CASE ClientFails(c)
  BY <1>2, <1>4, ClientFailsKeeps
<1>5. CASE /\ d.layer = "plaintext" /\ d.msg.type = "server_hello"
           /\ d # ForeignHello("server_hello")
           /\ ClientAdds(c, d.msg, "recv_encrypted_extensions")
           /\ ckeys' = [ckeys EXCEPT ![c] =
                DeriveHandshakeKeys(X25519(c, d.msg.share), Append(ctranscript[c], d.msg))]
           /\ UNCHANGED <<attempt, cstatus, cchain>>
  <2>1. PICK s \in Server : d.msg = ServerHello(s)
    BY <1>5, TakesServerHello
  <2>2. /\ ckeys' = [ckeys EXCEPT ![c] = ckeys'[c]]
        /\ cchain' = [cchain EXCEPT ![c] = cchain'[c]]
        /\ cchain' \in [Client -> (Parseable \cap Trusted) \cup {NoChain}]
    BY <1>1, <1>5 DEF Total, TypeOK
  <2>3. Advances(c, d.msg, "recv_encrypted_extensions")
    BY <1>2, <1>5, <2>2, ClientAddsFrame DEF ClientPC, Awaited
  <2>4. Append(ctranscript[c], d.msg) = T2(c, s)
    BY <1>1, <1>2, <2>1, TranscriptSteps DEF ClientState
  <2>5. d.msg.share = s
    BY <2>1 DEF ServerHello
  <2>6. ckeys'[c] = Keys(c, s)
    BY <1>1, <1>5, <2>4, <2>5 DEF Keys, Total
  <2>7. ctranscript'[c] = T2(c, s)
    BY <2>3, <2>4 DEF Advances
  <2>8. ClientState(c)'
    BY <2>3, <2>6, <2>7 DEF Advances, ClientState, OK, Running
  <2> QED
    BY <2>3, <2>8 DEF Advances, ClientKeeps, OK, Running
<1> QED
  BY <1>3, <1>4, <1>5 DEF RecvServerHello

LEMMA RecvEncryptedExtensionsKeeps ==
  ASSUME IInv, NEW c \in Client, UNCHANGED serverVars, NEW d \in Arriving,
         RecvEncryptedExtensions(c, d)
  PROVE  ClientKeeps(c)
<1>1. TypeOK /\ Total /\ ClientState(c)
  BY DEF IInv
<1>2. /\ cpc[c] = "recv_encrypted_extensions" /\ ClientUnprotects(c, d)
      /\ d.msg.type = "encrypted_extensions"
      /\ ClientAdds(c, d.msg, "recv_certificate")
      /\ UNCHANGED <<attempt, cstatus, ckeys, cchain>>
  BY DEF RecvEncryptedExtensions, Receives, Awaited
<1>3. PICK s \in Server : ckeys[c] = Keys(c, s) /\ ctranscript[c] = T2(c, s)
  BY <1>1, <1>2 DEF ClientState
<1>4. PICK n \in 0 .. 3 : FromServer(c, s, n, d)
  BY <1>2, <1>3, OpensServerRecord
<1>5. d.msg = EncryptedExtensions
  BY <1>2, <1>4, MessageTypes, RecordFields DEF FromServer, FlightRecord
<1>6. Bound(c, s, 1)
  BY <1>1, <1>3, <1>4 DEF FromServer, Bound, TypeOK
<1>7. /\ ckeys' = [ckeys EXCEPT ![c] = ckeys'[c]]
      /\ cchain' = [cchain EXCEPT ![c] = cchain'[c]]
      /\ cchain' \in [Client -> (Parseable \cap Trusted) \cup {NoChain}]
  BY <1>1, <1>2 DEF Total, TypeOK
<1>8. Advances(c, d.msg, "recv_certificate")
  BY <1>2, <1>7, ClientAddsFrame DEF ClientPC, Awaited
<1>9. ctranscript'[c] = T3(c, s)
  BY <1>3, <1>5, <1>8, TranscriptSteps DEF Advances
<1>10. Bound(c, s, 1)'
  BY <1>2, <1>6 DEF Bound, serverVars
<1>11. ClientState(c)'
  BY <1>8, <1>9, <1>10 DEF Advances, ClientState, OK, Running
<1> QED
  BY <1>8, <1>11 DEF Advances, ClientKeeps, OK, Running

LEMMA RecvCertificateKeeps ==
  ASSUME IInv, NEW c \in Client, UNCHANGED serverVars, NEW d \in Arriving,
         RecvCertificate(c, d)
  PROVE  ClientKeeps(c)
<1>1. TypeOK /\ Total /\ ClientState(c)
  BY DEF IInv
<1>2. /\ cpc[c] = "recv_certificate" /\ ClientUnprotects(c, d)
      /\ d.msg.type = "certificate"
  BY DEF RecvCertificate, Receives, Awaited
<1>3. CASE ClientFails(c)
  BY <1>2, <1>3, ClientFailsKeeps
<1>4. CASE /\ d.msg.chain \in Parseable \cap Trusted
           /\ ClientAdds(c, d.msg, "recv_certificate_verify")
           /\ cchain' = [cchain EXCEPT ![c] = d.msg.chain]
           /\ UNCHANGED <<attempt, cstatus, ckeys>>
  <2>1. PICK s \in Server : Bound(c, s, 1) /\ ctranscript[c] = T3(c, s)
    BY <1>1, <1>2 DEF ClientState
  <2>2. PICK n \in 0 .. 3 : FromServer(c, s, n, d)
    BY <1>2, <2>1, OpensServerRecord DEF Bound
  <2>3. n = 1 /\ d.msg = Certificate(config[s].chain)
    BY <1>2, <2>2, MessageTypes, RecordFields DEF FromServer, FlightRecord
  <2>4. Bound(c, s, 2)
    BY <1>1, <2>1, <2>2, <2>3 DEF FromServer, Bound, TypeOK
  <2>5. /\ ckeys' = [ckeys EXCEPT ![c] = ckeys'[c]]
        /\ cchain' = [cchain EXCEPT ![c] = cchain'[c]]
        /\ cchain' \in [Client -> (Parseable \cap Trusted) \cup {NoChain}]
        /\ cchain'[c] = d.msg.chain
    BY <1>1, <1>4 DEF Total, TypeOK
  <2>6. Advances(c, d.msg, "recv_certificate_verify")
    BY <1>2, <1>4, <2>5, ClientAddsFrame DEF ClientPC, Awaited
  <2>7. ctranscript'[c] = T4(c, s, config[s])
    <3>1. Append(ctranscript[c], d.msg) = T4(c, s, config[s])
      BY <2>1, <2>3, TranscriptSteps
    <3> QED
      BY <3>1, <2>6 DEF Advances
  <2>8. d.msg.chain = config[s].chain
    BY <2>3 DEF Certificate
  <2>9. (Bound(c, s, 2) /\ Presented(c, s) /\ ctranscript[c] = T4(c, s, config[s]))'
    BY <1>4, <2>4, <2>5, <2>7, <2>8 DEF Bound, Presented, serverVars
  <2>10. ClientState(c)'
    BY <2>6, <2>9 DEF Advances, ClientState, OK, Running
  <2> QED
    BY <2>6, <2>10 DEF Advances, ClientKeeps, OK, Running
<1> QED
  BY <1>3, <1>4 DEF RecvCertificate

LEMMA RecvCertificateVerifyKeeps ==
  ASSUME IInv, NEW c \in Client, UNCHANGED serverVars, NEW d \in Arriving,
         RecvCertificateVerify(c, d)
  PROVE  ClientKeeps(c)
<1>1. TypeOK /\ Total /\ ClientState(c)
  BY DEF IInv
<1>2. /\ cpc[c] = "recv_certificate_verify" /\ ClientUnprotects(c, d)
      /\ d.msg.type = "certificate_verify"
  BY DEF RecvCertificateVerify, Receives, Awaited
<1>3. CASE ClientFails(c)
  BY <1>2, <1>3, ClientFailsKeeps
<1>4. CASE /\ CertificateVerifyCheck(d.msg, cchain[c], ctranscript[c])
           /\ ClientAdds(c, d.msg, "recv_finished")
           /\ UNCHANGED <<attempt, cstatus, ckeys, cchain>>
  <2>1. PICK s \in Server : /\ Bound(c, s, 2) /\ Presented(c, s)
                            /\ ctranscript[c] = T4(c, s, config[s])
    BY <1>1, <1>2 DEF ClientState
  <2>2. PICK n \in 0 .. 3 : FromServer(c, s, n, d)
    BY <1>2, <2>1, OpensServerRecord DEF Bound
  <2>3. n = 2 /\ d.msg = CV(c, s, config[s])
    BY <1>2, <2>2, MessageTypes, RecordFields DEF FromServer, FlightRecord
  <2>4. Bound(c, s, 3)
    BY <1>1, <2>1, <2>2, <2>3 DEF FromServer, Bound, TypeOK
  <2>5. d.msg.signer = config[s].signer
    BY <2>3 DEF CV, CertificateVerify
  <2>6. Signed(c, s)
    BY <1>4, <2>1, <2>5 DEF CertificateVerifyCheck, Signed
  <2>7. /\ ckeys' = [ckeys EXCEPT ![c] = ckeys'[c]]
        /\ cchain' = [cchain EXCEPT ![c] = cchain'[c]]
        /\ cchain' \in [Client -> (Parseable \cap Trusted) \cup {NoChain}]
    BY <1>1, <1>4 DEF Total, TypeOK
  <2>8. Advances(c, d.msg, "recv_finished")
    BY <1>2, <1>4, <2>7, ClientAddsFrame DEF ClientPC, Awaited
  <2>9. ctranscript'[c] = T5(c, s, config[s])
    <3>1. Append(ctranscript[c], d.msg) = T5(c, s, config[s])
      BY <2>1, <2>3, TranscriptSteps
    <3> QED
      BY <3>1, <2>8 DEF Advances
  <2>10. (Bound(c, s, 3) /\ Signed(c, s) /\ ctranscript[c] = T5(c, s, config[s]))'
    BY <1>4, <2>4, <2>6, <2>9 DEF Bound, Signed, Presented, serverVars
  <2>11. ClientState(c)'
    BY <2>8, <2>10 DEF Advances, ClientState, OK, Running
  <2> QED
    BY <2>8, <2>11 DEF Advances, ClientKeeps, OK, Running
<1> QED
  BY <1>3, <1>4 DEF RecvCertificateVerify

LEMMA RecvServerFinishedKeeps ==
  ASSUME IInv, NEW c \in Client, UNCHANGED serverVars, NEW d \in Arriving,
         RecvServerFinished(c, d)
  PROVE  ClientKeeps(c)
<1>1. TypeOK /\ Total /\ ClientState(c)
  BY DEF IInv
<1>2. /\ cpc[c] = "recv_finished" /\ ClientUnprotects(c, d)
      /\ d.msg.type = "finished"
  BY DEF RecvServerFinished, Receives, Awaited
<1>3. CASE ClientFails(c)
  BY <1>2, <1>3, ClientFailsKeeps
<1>4. CASE /\ ClientAdds(c, d.msg, "send_finished")
           /\ UNCHANGED <<attempt, cstatus, ckeys, cchain>>
  <2>1. PICK s \in Server : /\ Bound(c, s, 3) /\ Signed(c, s)
                            /\ ctranscript[c] = T5(c, s, config[s])
    BY <1>1, <1>2 DEF ClientState
  <2>2. PICK n \in 0 .. 3 : FromServer(c, s, n, d)
    BY <1>2, <2>1, OpensServerRecord DEF Bound
  <2>3. n = 3 /\ d.msg = SF(c, s, config[s])
    BY <1>2, <2>2, MessageTypes, RecordFields DEF FromServer, FlightRecord
  <2>4. Bound(c, s, 4)
    BY <1>1, <2>1, <2>2, <2>3 DEF FromServer, Bound, TypeOK
  <2>5. /\ ckeys' = [ckeys EXCEPT ![c] = ckeys'[c]]
        /\ cchain' = [cchain EXCEPT ![c] = cchain'[c]]
        /\ cchain' \in [Client -> (Parseable \cap Trusted) \cup {NoChain}]
    BY <1>1, <1>4 DEF Total, TypeOK
  <2>6. Advances(c, d.msg, "send_finished")
    BY <1>2, <1>4, <2>5, ClientAddsFrame DEF ClientPC, Awaited
  <2>7. ctranscript'[c] = T6(c, s, config[s])
    <3>1. Append(ctranscript[c], d.msg) = T6(c, s, config[s])
      BY <2>1, <2>3, TranscriptSteps
    <3> QED
      BY <3>1, <2>6 DEF Advances
  <2>8. (Bound(c, s, 4) /\ Signed(c, s) /\ ctranscript[c] = T6(c, s, config[s]))'
    BY <1>4, <2>1, <2>4, <2>7 DEF Bound, Signed, Presented, serverVars
  <2>9. ClientState(c)'
    BY <2>6, <2>8 DEF Advances, ClientState, OK, Running
  <2> QED
    BY <2>6, <2>9 DEF Advances, ClientKeeps, OK, Running
<1> QED
  BY <1>3, <1>4 DEF RecvServerFinished

\* Sending the client's Finished completes the transcript; the record is the
\* one that Origin allows for this client.
LEMMA SendClientFinishedKeeps ==
  ASSUME IInv, NEW c \in Client, UNCHANGED serverVars, SendClientFinished(c)
  PROVE  /\ ClientKeeps(c)
         /\ \A d : d = ClientFinishedDatagram(c) => \E s \in Server : FromClient(c, s, d)'
<1>1. TypeOK /\ Total /\ ClientState(c)
  BY DEF IInv
<1>2. PICK s \in Server : /\ Bound(c, s, 4) /\ Signed(c, s)
                          /\ ctranscript[c] = T6(c, s, config[s])
  BY <1>1 DEF ClientState, SendClientFinished
<1>3. /\ cpc[c] = "send_finished"
      /\ ctranscript' = [ctranscript EXCEPT ![c] = Append(@, ClientFinished(c))]
      /\ cpc' = [cpc EXCEPT ![c] = "done"]
      /\ cstatus' = [cstatus EXCEPT ![c] = OK]
      /\ UNCHANGED <<attempt, ckeys, cchain>>
  BY DEF SendClientFinished
<1>4. ClientFinished(c) = CF(c, s, config[s])
  BY <1>2 DEF ClientFinished, CF, Bound
<1>5. TypeOK' /\ Total'
  BY <1>1, <1>3 DEF TypeOK, Total, serverVars, ClientPC, Status, OK
<1>6. ctranscript'[c] = T7(c, s, config[s])
  <2>1. Append(ctranscript[c], ClientFinished(c)) = T7(c, s, config[s])
    BY <1>2, <1>4, TranscriptSteps
  <2> QED
    BY <1>1, <1>3, <2>1 DEF Total
<1>7. cpc'[c] = "done" /\ cstatus'[c] = OK /\ cstatus[c] # OK
  BY <1>1, <1>3 DEF TypeOK, ClientState, OK, Running
<1>8. (Bound(c, s, 4) /\ Signed(c, s) /\ ctranscript[c] = T7(c, s, config[s]))'
  BY <1>2, <1>3, <1>6 DEF Bound, Signed, Presented, serverVars
<1>9. ClientState(c)'
  BY <1>7, <1>8 DEF ClientState
<1>10. ClientKeeps(c)
  BY <1>1, <1>3, <1>5, <1>7, <1>9 DEF ClientKeeps, TypeOK, Total
<1>11. ClientFinishedDatagram(c) = Protected(Keys(c, s), "client", 0, CF(c, s, config[s]))
  BY <1>2, <1>4 DEF ClientFinishedDatagram, Bound
<1>12. \A d : d = ClientFinishedDatagram(c) => FromClient(c, s, d)'
  BY <1>7, <1>8, <1>11 DEF FromClient, serverVars
<1> QED
  BY <1>10, <1>12

\* A client step that keeps its own state in order keeps everything in order,
\* if what it sends has an origin.
LEMMA ClientKeepsAll ==
  ASSUME IInv, NEW c \in Client, UNCHANGED serverVars, ClientKeeps(c),
         \A d \in sent' \ sent : Origin(d)'
  PROVE  IInv'
<1>1. TypeOK /\ TypeOK' /\ Total'
  BY DEF IInv, ClientKeeps
<1>2. ServerGrows
  BY <1>1 DEF ServerGrows, serverVars, TypeOK
<1>3. ClientGrows
  <2> SUFFICES ASSUME NEW c2 \in Client, cstatus[c2] = OK
               PROVE  cstatus'[c2] = OK /\ ckeys'[c2] = ckeys[c2]
    BY DEF ClientGrows
  <2>1. c2 # c
    BY DEF ClientKeeps
  <2> QED
    BY <2>1 DEF ClientKeeps
<1>4. ASSUME NEW s \in Server PROVE ServerState(s)'
  <2>1. ServerState(s)
    BY DEF IInv
  <2> QED
    BY <1>3, <2>1, ServerStateGrows DEF serverVars
<1>5. ASSUME NEW c2 \in Client PROVE ClientState(c2)'
  <2>1. CASE c2 = c
    BY <2>1 DEF ClientKeeps
  <2>2. CASE c2 # c
    <3>1. ClientState(c2)
      BY DEF IInv
    <3>2. /\ cpc'[c2] = cpc[c2] /\ cstatus'[c2] = cstatus[c2] /\ cchain'[c2] = cchain[c2]
          /\ ctranscript'[c2] = ctranscript[c2] /\ ckeys'[c2] = ckeys[c2]
      BY <2>2 DEF ClientKeeps
    <3> QED
      BY <1>1, <1>2, <3>1, <3>2, ClientStateGrows
  <2> QED
    BY <2>1, <2>2
<1>6. ASSUME NEW d \in sent' PROVE Origin(d)'
  <2>1. CASE d \in sent
    <3>1. Origin(d)
      BY <2>1 DEF IInv
    <3> QED
      BY <1>1, <1>2, <1>3, <3>1, OriginGrows
  <2> QED
    BY <2>1
<1> QED
  BY <1>1, <1>4, <1>5, <1>6 DEF IInv

LEMMA ClientStepLocal ==
  ASSUME IInv, NEW c \in Client, ClientStep(c), UNCHANGED serverVars
  PROVE  ClientKeeps(c) /\ cpc[c] # "done"
<1>1. CASE SendClientHello(c)
  BY <1>1, SendClientHelloKeeps DEF SendClientHello
<1>2. CASE SendClientFinished(c)
  BY <1>2, SendClientFinishedKeeps DEF SendClientFinished
<1>3. CASE ClientStart(c)
  BY <1>3, ClientStartKeeps DEF ClientStart
<1>4. CASE ClientStartFails(c)
  BY <1>4, ClientFailsKeeps DEF ClientStartFails
<1>5. CASE SendClientHelloFails(c)
  BY <1>5, NextAttemptKeeps DEF SendClientHelloFails
<1>6. CASE SendClientFinishedFails(c)
  BY <1>6, ClientFailsKeeps DEF SendClientFinishedFails
<1>7. CASE RecvHelloFails(c)
  BY <1>7, NextAttemptKeeps DEF RecvHelloFails
<1>8. CASE RecvFlightFails(c)
  BY <1>8, ClientFailsKeeps DEF RecvFlightFails, Awaited
<1>9. ASSUME NEW d \in Arriving, ClientReceives(c, d)
      PROVE  ClientKeeps(c) /\ cpc[c] # "done"
  <2>1. CASE RecvServerHello(c, d)
    BY <2>1, RecvServerHelloKeeps DEF RecvServerHello
  <2>2. CASE RecvFlightRejects(c, d)
    BY <2>2, ClientFailsKeeps DEF RecvFlightRejects, Awaited
  <2>3. CASE RecvEncryptedExtensions(c, d)
    BY <2>3, RecvEncryptedExtensionsKeeps DEF RecvEncryptedExtensions, Receives
  <2>4. CASE RecvCertificate(c, d)
    BY <2>4, RecvCertificateKeeps DEF RecvCertificate, Receives
  <2>5. CASE RecvCertificateVerify(c, d)
    BY <2>5, RecvCertificateVerifyKeeps DEF RecvCertificateVerify, Receives
  <2>6. CASE RecvServerFinished(c, d)
    BY <2>6, RecvServerFinishedKeeps DEF RecvServerFinished, Receives
  <2> QED
    BY <1>9, <2>1, <2>2, <2>3, <2>4, <2>5, <2>6 DEF ClientReceives
<1> QED
  BY <1>1, <1>2, <1>3, <1>4, <1>5, <1>6, <1>7, <1>8, <1>9
  DEF ClientStep, ClientLocal, ClientSendFails, ClientTimesOut

LEMMA ClientStepKeeps ==
  ASSUME IInv, NEW c \in Client, ClientStep(c), UNCHANGED serverVars
  PROVE  IInv'
<1>1. ClientKeeps(c)
  BY ClientStepLocal
<1>2. \A d \in sent' \ sent : Origin(d)'
  <2>1. CASE Sends(ClientHelloDatagram(c))
    BY <2>1 DEF Sends, Origin, ClientHelloDatagram
  <2>2. CASE SendClientFinished(c) /\ Sends(ClientFinishedDatagram(c))
    <3>1. \A d : d = ClientFinishedDatagram(c) => \E s \in Server : FromClient(c, s, d)'
      BY <2>2, SendClientFinishedKeeps
    <3>2. \A d \in sent' \ sent : d = ClientFinishedDatagram(c)
      BY <2>2 DEF Sends
    <3> QED
      BY <3>1, <3>2 DEF Origin
  <2> QED
    BY <2>1, <2>2 DEF ClientStep
<1> QED
  BY <1>1, <1>2, ClientKeepsAll

-----------------------------------------------------------------------------
(* The steps of a server call.                                             *)

SameServer(s2) ==
  /\ spc'[s2] = spc[s2] /\ config'[s2] = config[s2] /\ sstatus'[s2] = sstatus[s2]
  /\ stranscript'[s2] = stranscript[s2] /\ skeys'[s2] = skeys[s2]
  /\ next_send'[s2] = next_send[s2]

\* What every step of server call s achieves.
ServerKeeps(s) ==
  /\ TypeOK'
  /\ Total'
  /\ ServerState(s)'
  /\ skeys[s] # NoKeys =>
       skeys'[s] = skeys[s] /\ config'[s] = config[s] /\ next_send'[s] >= next_send[s]
  /\ \A s2 \in Server \ {s} : SameServer(s2)

LEMMA ServerKeepsAll ==
  ASSUME IInv, NEW s \in Server, UNCHANGED clientVars, ServerKeeps(s),
         \A d \in sent' \ sent : Origin(d)'
  PROVE  IInv'
<1>1. TypeOK /\ TypeOK' /\ Total'
  BY DEF IInv, ServerKeeps
<1>2. ServerGrows
  <2> SUFFICES ASSUME NEW s2 \in Server, skeys[s2] # NoKeys
               PROVE  /\ skeys'[s2] = skeys[s2] /\ config'[s2] = config[s2]
                      /\ next_send'[s2] >= next_send[s2]
    BY DEF ServerGrows
  <2>1. CASE s2 = s
    BY <2>1 DEF ServerKeeps
  <2>2. CASE s2 # s
    BY <1>1, <2>2 DEF ServerKeeps, SameServer, TypeOK
  <2> QED
    BY <2>1, <2>2
<1>3. ClientGrows
  BY DEF ClientGrows, clientVars
<1>4. ASSUME NEW c \in Client PROVE ClientState(c)'
  <2>1. ClientState(c)
    BY DEF IInv
  <2> QED
    BY <1>1, <1>2, <2>1, ClientStateGrows DEF clientVars
<1>5. ASSUME NEW s2 \in Server PROVE ServerState(s2)'
  <2>1. CASE s2 = s
    BY <2>1 DEF ServerKeeps
  <2>2. CASE s2 # s
    <3>1. ServerState(s2)
      BY DEF IInv
    <3>2. SameServer(s2)
      BY <2>2 DEF ServerKeeps
    <3> QED
      BY <1>3, <3>1, <3>2, ServerStateGrows DEF SameServer
  <2> QED
    BY <2>1, <2>2
<1>6. ASSUME NEW d \in sent' PROVE Origin(d)'
  <2>1. CASE d \in sent
    <3>1. Origin(d)
      BY <2>1 DEF IInv
    <3> QED
      BY <1>1, <1>2, <1>3, <3>1, OriginGrows
  <2> QED
    BY <2>1
<1> QED
  BY <1>1, <1>4, <1>5, <1>6 DEF IInv

\* A call that fails leaves what it was behind.
LEMMA ServerFailsKeeps ==
  ASSUME IInv, NEW s \in Server, UNCHANGED clientVars, ServerReturns(s, ERR),
         UNCHANGED <<config, stranscript, skeys, next_send>>,
         sattempt' \in [Server -> 0 .. FinishedAttempts]
  PROVE  ServerKeeps(s)
<1>1. TypeOK /\ Total /\ ServerState(s)
  BY DEF IInv
<1>2. TypeOK'
  BY <1>1 DEF TypeOK, ServerReturns, clientVars, ServerPC, Status, ERR
<1>3. Total'
  BY <1>1 DEF Total, clientVars
<1>4. spc'[s] = "done" /\ sstatus'[s] = ERR
  BY <1>1 DEF TypeOK, ServerReturns
<1>5. ASSUME NEW c \in Client, NEW n \in 0 .. 4, Progress(c, s, n)
      PROVE  Progress(c, s, n)'
  BY <1>5 DEF Progress
<1>6. ServerState(s)'
  BY <1>1, <1>4, <1>5 DEF ServerState, OK, ERR
<1>7. next_send'[s] >= next_send[s]
  BY <1>1 DEF TypeOK
<1>8. \A s2 \in Server \ {s} : SameServer(s2)
  BY <1>1 DEF SameServer, ServerReturns, TypeOK
<1> QED
  BY <1>2, <1>3, <1>6, <1>7, <1>8 DEF ServerKeeps

LEMMA ServerEndsKeeps ==
  ASSUME IInv, NEW s \in Server, UNCHANGED clientVars, ServerEnds(s, ERR)
  PROVE  ServerKeeps(s)
<1>1. sattempt' \in [Server -> 0 .. FinishedAttempts]
  BY DEF IInv, TypeOK, ServerEnds
<1> QED
  BY <1>1, ServerFailsKeeps DEF ServerEnds

LEMMA ServerStartKeeps ==
  ASSUME IInv, NEW s \in Server, UNCHANGED clientVars, NEW conf \in Config,
         ServerStart(s, conf)
  PROVE  ServerKeeps(s)
<1>1. TypeOK /\ Total /\ ServerState(s)
  BY DEF IInv
<1>2. /\ spc[s] = "idle" /\ skeys[s] = NoKeys /\ sstatus[s] = Running
      /\ config' = [config EXCEPT ![s] = conf]
      /\ UNCHANGED <<sattempt, stranscript, skeys, next_send>>
  BY <1>1 DEF ServerStart, ServerState
<1>3. \/ spc' = [spc EXCEPT ![s] = "accept"] /\ UNCHANGED sstatus
      \/ ServerReturns(s, ERR)
  BY DEF ServerStart
<1>4. TypeOK'
  <2>1. config' \in [Server -> Config \cup {NoConfig}]
    BY <1>1, <1>2 DEF TypeOK
  <2>2. spc' \in [Server -> ServerPC] /\ sstatus' \in [Server -> Status \cup {Running}]
    BY <1>1, <1>3 DEF TypeOK, ServerReturns, ServerPC, Status
  <2> QED
    BY <1>1, <1>2, <2>1, <2>2 DEF TypeOK, clientVars
<1>5. Total'
  BY <1>1, <1>2 DEF Total, clientVars
<1>6. /\ config'[s] = conf /\ skeys'[s] = NoKeys
      /\ \/ spc'[s] = "accept" /\ sstatus'[s] = Running
         \/ spc'[s] = "done" /\ sstatus'[s] = ERR
  BY <1>1, <1>2, <1>3 DEF TypeOK, ServerReturns
<1>7. ServerState(s)'
  BY <1>6 DEF ServerState, OK, ERR, Running
<1>8. \A s2 \in Server \ {s} : SameServer(s2)
  BY <1>1, <1>2, <1>3 DEF SameServer, ServerReturns, TypeOK
<1> QED
  BY <1>2, <1>4, <1>5, <1>7, <1>8 DEF ServerKeeps

LEMMA AcceptClientHelloKeeps ==
  ASSUME IInv, NEW s \in Server, UNCHANGED clientVars, NEW d \in Arriving,
         AcceptClientHello(s, d)
  PROVE  ServerKeeps(s)
<1>1. TypeOK /\ Total /\ ServerState(s)
  BY DEF IInv
<1>2. CASE ServerEnds(s, ERR)
  BY <1>2, ServerEndsKeeps
<1>3. CASE /\ d.layer = "plaintext" /\ d.msg.type = "client_hello"
           /\ d # ForeignHello("client_hello")
           /\ stranscript' = [stranscript EXCEPT ![s] = <<d.msg, ServerHello(s)>>]
           /\ spc' = [spc EXCEPT ![s] = "send_hello"]
           /\ UNCHANGED <<config, sattempt, sstatus, skeys, next_send>>
  <2>1. PICK c \in Client : d.msg = ClientHello(c)
    BY <1>3, TakesClientHello
  <2>2. spc[s] = "accept"
    BY DEF AcceptClientHello
  <2>3. stranscript'[s] = T2(c, s)
    BY <1>1, <1>3, <2>1 DEF Total, T2
  <2>4. /\ spc'[s] = "send_hello" /\ sstatus'[s] = Running
        /\ config'[s] \in Config /\ skeys'[s] = NoKeys /\ skeys[s] = NoKeys
    BY <1>1, <1>3, <2>2 DEF TypeOK, ServerState
  <2>5. ServerState(s)'
    BY <2>3, <2>4 DEF ServerState, OK, Running
  <2>6. TypeOK'
    BY <1>1, <1>3 DEF TypeOK, clientVars, ServerPC
  <2>7. Total'
    BY <1>1, <1>3 DEF Total, clientVars
  <2>8. \A s2 \in Server \ {s} : SameServer(s2)
    BY <1>1, <1>3 DEF SameServer, TypeOK, Total
  <2> QED
    BY <2>4, <2>5, <2>6, <2>7, <2>8 DEF ServerKeeps
<1> QED
  BY <1>2, <1>3 DEF AcceptClientHello

LEMMA SendServerHelloKeeps ==
  ASSUME IInv, NEW s \in Server, UNCHANGED clientVars, SendServerHello(s)
  PROVE  ServerKeeps(s)
<1>1. TypeOK /\ Total /\ ServerState(s)
  BY DEF IInv
<1>2. /\ spc[s] = "send_hello"
      /\ skeys' = [skeys EXCEPT ![s] =
           DeriveHandshakeKeys(X25519(s, stranscript[s][1].share), stranscript[s])]
      /\ next_send' = [next_send EXCEPT ![s] = 0]
      /\ spc' = [spc EXCEPT ![s] = "send_encrypted_extensions"]
      /\ UNCHANGED <<config, sattempt, sstatus, stranscript>>
  BY DEF SendServerHello
<1>3. PICK c \in Client : stranscript[s] = T2(c, s)
  BY <1>1, <1>2 DEF ServerState
<1>4. config[s] \in Config /\ sstatus[s] = Running /\ skeys[s] = NoKeys
  BY <1>1, <1>2 DEF ServerState
<1>5. stranscript[s][1].share = c
  BY <1>3 DEF T2, ClientHello
<1>6. X25519(s, c) = X25519(c, s)
  BY DEF X25519
<1>7. skeys'[s] = Keys(c, s)
  BY <1>1, <1>2, <1>3, <1>5, <1>6 DEF Total, Keys
<1>8. next_send'[s] = 0 /\ spc'[s] = "send_encrypted_extensions"
  BY <1>1, <1>2 DEF TypeOK
<1>9. Progress(c, s, 0)'
  BY <1>2, <1>3, <1>4, <1>7, <1>8 DEF Progress
<1>10. ServerState(s)'
  BY <1>2, <1>4, <1>8, <1>9 DEF ServerState, OK, Running
<1>11. TypeOK'
  BY <1>1, <1>2 DEF TypeOK, clientVars, ServerPC, AfterFlight
<1>12. Total'
  BY <1>1, <1>2 DEF Total, clientVars
<1>13. \A s2 \in Server \ {s} : SameServer(s2)
  BY <1>1, <1>2 DEF SameServer, TypeOK, Total
<1> QED
  BY <1>4, <1>10, <1>11, <1>12, <1>13 DEF ServerKeeps

\* Each state of the flight sends the message after the n already sent; the
\* transcript grows by it, and the record is the n-th of this call's.
LEMMA SendProtectedKeeps ==
  ASSUME IInv, NEW s \in Server, UNCHANGED clientVars, SendProtected(s)
  PROVE  /\ ServerKeeps(s)
         /\ \A d : d = FlightDatagram(s) =>
              \E c \in Client, n \in 0 .. 3 : FromServer(c, s, n, d)'
<1>1. TypeOK /\ Total /\ ServerState(s)
  BY DEF IInv
<1>2. /\ stranscript' = [stranscript EXCEPT ![s] = Append(@, FlightMessage(s))]
      /\ next_send' = [next_send EXCEPT ![s] = @ + 1]
      /\ spc' = [spc EXCEPT ![s] = AfterFlight[@]]
      /\ UNCHANGED <<config, sattempt, sstatus, skeys>>
  BY DEF SendProtected
<1>3. spc[s] \in {"send_encrypted_extensions", "send_certificate",
                  "send_certificate_verify", "send_finished"}
  BY DEF SendProtected, AfterFlight
<1>4. sstatus[s] = Running /\ sstatus'[s] = Running
  BY <1>1, <1>2, <1>3 DEF ServerState
<1>5. /\ stranscript'[s] = Append(stranscript[s], FlightMessage(s))
      /\ next_send'[s] = next_send[s] + 1
      /\ spc'[s] = AfterFlight[spc[s]]
      /\ skeys'[s] = skeys[s] /\ config'[s] = config[s]
  BY <1>1, <1>2 DEF TypeOK, Total
<1>6. \A s2 \in Server \ {s} : SameServer(s2)
  BY <1>1, <1>2 DEF SameServer, TypeOK, Total
<1>7. Total'
  BY <1>1, <1>2 DEF Total, clientVars
<1>8. ASSUME NEW c \in Client, NEW n \in 0 .. 3, Progress(c, s, n),
             Progress(c, s, n + 1)', ServerState(s)',
             FlightRecord(c, s, n, FlightDatagram(s))
      PROVE  /\ ServerKeeps(s)
             /\ \A d : d = FlightDatagram(s) =>
                  \E c2 \in Client, n2 \in 0 .. 3 : FromServer(c2, s, n2, d)'
  <2>1. next_send[s] = n /\ next_send'[s] = n + 1 /\ next_send'[s] \in 0 .. 4
    BY <1>5, <1>8 DEF Progress
  <2>2. next_send' \in [Server -> 0 .. 4]
    BY <1>1, <1>2, <2>1 DEF TypeOK
  <2>3. spc' \in [Server -> ServerPC]
    BY <1>1, <1>2, <1>3 DEF TypeOK, ServerPC, AfterFlight
  <2>4. TypeOK'
    BY <1>1, <1>2, <2>2, <2>3 DEF TypeOK, clientVars
  <2>5. next_send'[s] >= next_send[s] /\ next_send'[s] > n
    BY <2>1
  <2>6. ServerKeeps(s)
    BY <1>5, <1>6, <1>7, <1>8, <2>4, <2>5 DEF ServerKeeps
  <2>7. skeys[s] = Keys(c, s)
    BY <1>8 DEF Progress
  <2>8. \A d : d = FlightDatagram(s) => FromServer(c, s, n, d)'
    <3> SUFFICES ASSUME NEW d, FlightRecord(c, s, n, d) PROVE FromServer(c, s, n, d)'
      BY <1>8
    <3>1. FlightRecord(c, s, n, d)'
      BY <1>5 DEF FlightRecord
    <3> QED
      BY <1>5, <2>5, <2>7, <3>1 DEF FromServer
  <2> QED
    BY <2>6, <2>8
<1>9. CASE spc[s] = "send_encrypted_extensions"
  <2>1. PICK c \in Client : Progress(c, s, 0)
    BY <1>1, <1>9 DEF ServerState
  <2>2. FlightMessage(s) = EncryptedExtensions
    BY <1>9 DEF FlightMessage
  <2>3. stranscript'[s] = T3(c, s)
    BY <1>5, <2>1, <2>2, TranscriptSteps DEF Progress
  <2>4. Progress(c, s, 1)'
    BY <1>5, <2>1, <2>3 DEF Progress
  <2>5. spc'[s] = "send_certificate"
    BY <1>5, <1>9 DEF AfterFlight
  <2>6. ServerState(s)'
    BY <1>4, <2>4, <2>5 DEF ServerState, OK, Running
  <2>7. FlightRecord(c, s, 0, FlightDatagram(s))
    BY <2>1, <2>2 DEF FlightRecord, FlightDatagram, Progress
  <2> QED
    BY <1>8, <2>1, <2>4, <2>6, <2>7
<1>10. CASE spc[s] = "send_certificate"
  <2>1. PICK c \in Client : Progress(c, s, 1)
    BY <1>1, <1>10 DEF ServerState
  <2>2. FlightMessage(s) = Certificate(config[s].chain)
    BY <1>10 DEF FlightMessage
  <2>3. stranscript'[s] = T4(c, s, config[s])
    <3>1. stranscript[s] = T3(c, s)
      BY <2>1 DEF Progress
    <3>2. Append(stranscript[s], FlightMessage(s)) = T4(c, s, config[s])
      BY <2>2, <3>1, TranscriptSteps
    <3> QED
      BY <1>5, <3>2
  <2>4. Progress(c, s, 2)'
    BY <1>5, <2>1, <2>3 DEF Progress
  <2>5. spc'[s] = "send_certificate_verify"
    BY <1>5, <1>10 DEF AfterFlight
  <2>6. ServerState(s)'
    BY <1>4, <2>4, <2>5 DEF ServerState, OK, Running
  <2>7. FlightRecord(c, s, 1, FlightDatagram(s))
    BY <2>1, <2>2 DEF FlightRecord, FlightDatagram, Progress
  <2> QED
    BY <1>8, <2>1, <2>4, <2>6, <2>7
<1>11. CASE spc[s] = "send_certificate_verify"
  <2>1. PICK c \in Client : Progress(c, s, 2)
    BY <1>1, <1>11 DEF ServerState
  <2>2. FlightMessage(s) = CV(c, s, config[s])
    BY <1>11, <2>1 DEF FlightMessage, Progress, CV
  <2>3. stranscript'[s] = T5(c, s, config[s])
    <3>1. stranscript[s] = T4(c, s, config[s])
      BY <2>1 DEF Progress
    <3>2. Append(stranscript[s], FlightMessage(s)) = T5(c, s, config[s])
      BY <2>2, <3>1, TranscriptSteps
    <3> QED
      BY <1>5, <3>2
  <2>4. Progress(c, s, 3)'
    BY <1>5, <2>1, <2>3 DEF Progress
  <2>5. spc'[s] = "send_finished"
    BY <1>5, <1>11 DEF AfterFlight
  <2>6. ServerState(s)'
    BY <1>4, <2>4, <2>5 DEF ServerState, OK, Running
  <2>7. FlightRecord(c, s, 2, FlightDatagram(s))
    BY <2>1, <2>2 DEF FlightRecord, FlightDatagram, Progress
  <2> QED
    BY <1>8, <2>1, <2>4, <2>6, <2>7
<1>12. CASE spc[s] = "send_finished"
  <2>1. PICK c \in Client : Progress(c, s, 3)
    BY <1>1, <1>12 DEF ServerState
  <2>2. FlightMessage(s) = SF(c, s, config[s])
    BY <1>12, <2>1 DEF FlightMessage, Progress, SF
  <2>3. stranscript'[s] = T6(c, s, config[s])
    <3>1. stranscript[s] = T5(c, s, config[s])
      BY <2>1 DEF Progress
    <3>2. Append(stranscript[s], FlightMessage(s)) = T6(c, s, config[s])
      BY <2>2, <3>1, TranscriptSteps
    <3> QED
      BY <1>5, <3>2
  <2>4. Progress(c, s, 4)'
    BY <1>5, <2>1, <2>3 DEF Progress
  <2>5. spc'[s] = "recv_finished"
    BY <1>5, <1>12 DEF AfterFlight
  <2>6. ServerState(s)'
    BY <1>4, <2>4, <2>5 DEF ServerState, OK, Running
  <2>7. FlightRecord(c, s, 3, FlightDatagram(s))
    BY <2>1, <2>2 DEF FlightRecord, FlightDatagram, Progress
  <2> QED
    BY <1>8, <2>1, <2>4, <2>6, <2>7
<1> QED
  BY <1>3, <1>9, <1>10, <1>11, <1>12

LEMMA SkipDatagramKeeps ==
  ASSUME IInv, NEW s \in Server, UNCHANGED clientVars, NEW d, SkipDatagram(s, d)
  PROVE  ServerKeeps(s)
<1>1. TypeOK /\ Total /\ ServerState(s)
  BY DEF IInv
<1>2. sattempt' = [sattempt EXCEPT ![s] = @ + 1] /\ UNCHANGED <<config, stranscript, skeys, next_send>>
  BY DEF SkipDatagram
<1>3. sattempt[s] + 1 <= FinishedAttempts
  BY <1>1, FinishedAttemptsAssumption DEF SkipDatagram, TypeOK
<1>4. sattempt' \in [Server -> 0 .. FinishedAttempts]
  <2>1. sattempt[s] + 1 \in 0 .. FinishedAttempts
    BY <1>1, <1>3, FinishedAttemptsAssumption DEF TypeOK
  <2> QED
    BY <1>1, <1>2, <2>1 DEF TypeOK
<1>5. CASE ServerReturns(s, ERR)
  BY <1>2, <1>4, <1>5, ServerFailsKeeps
<1>6. CASE UNCHANGED <<spc, sstatus>>
  <2>1. TypeOK'
    BY <1>1, <1>2, <1>4, <1>6 DEF TypeOK, clientVars
  <2>2. Total'
    BY <1>1, <1>2 DEF Total, clientVars
  <2>3. ClientGrows
    BY DEF ClientGrows, clientVars
  <2>4. ServerState(s)'
    BY <1>1, <1>2, <1>6, <2>3, ServerStateGrows
  <2>5. next_send'[s] >= next_send[s]
    BY <1>1, <1>2 DEF TypeOK
  <2> QED
    BY <1>2, <1>6, <2>1, <2>2, <2>4, <2>5 DEF ServerKeeps, SameServer
<1> QED
  BY <1>5, <1>6 DEF SkipDatagram

LEMMA RecvClientFinishedKeeps ==
  ASSUME IInv, NEW s \in Server, UNCHANGED clientVars, NEW d \in Arriving,
         RecvClientFinished(s, d)
  PROVE  ServerKeeps(s)
<1>1. TypeOK /\ Total /\ ServerState(s)
  BY DEF IInv
<1>2. CASE ServerEnds(s, ERR)
  BY <1>2, ServerEndsKeeps
<1>3. CASE ServerEnds(s, OK)
  <2>1. PICK c \in Client : Progress(c, s, 4)
    BY <1>1 DEF RecvClientFinished, ServerState
  <2>2. skeys[s] = Keys(c, s) /\ ServerUnprotects(s, d)
    BY <2>1 DEF Progress, RecvClientFinished
  <2>3. FromClient(c, s, d)
    BY <2>2, OpensClientRecord
  <2>4. spc'[s] = "done" /\ sstatus'[s] = OK
    BY <1>1, <1>3 DEF TypeOK, ServerEnds, ServerReturns
  <2>5. (Progress(c, s, 4) /\ cstatus[c] = OK /\ ckeys[c] = Keys(c, s))'
    BY <1>3, <2>1, <2>3 DEF Progress, FromClient, Bound, ServerEnds, clientVars
  <2>6. ServerState(s)'
    BY <2>4, <2>5 DEF ServerState, OK
  <2>7. TypeOK'
    BY <1>1, <1>3 DEF TypeOK, ServerEnds, ServerReturns, clientVars, ServerPC, Status
  <2>8. Total'
    BY <1>1, <1>3 DEF Total, ServerEnds, clientVars
  <2>9. next_send'[s] >= next_send[s]
    BY <1>1, <1>3 DEF TypeOK, ServerEnds
  <2>10. \A s2 \in Server \ {s} : SameServer(s2)
    BY <1>1, <1>3 DEF SameServer, ServerEnds, ServerReturns, TypeOK
  <2> QED
    BY <1>3, <2>6, <2>7, <2>8, <2>9, <2>10 DEF ServerKeeps, ServerEnds
<1> QED
  BY <1>2, <1>3 DEF RecvClientFinished

LEMMA ServerStepLocal ==
  ASSUME IInv, NEW s \in Server, ServerStep(s), UNCHANGED clientVars
  PROVE  ServerKeeps(s) /\ spc[s] # "done"
<1>1. CASE SendServerHello(s)
  BY <1>1, SendServerHelloKeeps DEF SendServerHello
<1>2. CASE SendProtected(s)
  BY <1>2, SendProtectedKeeps DEF SendProtected, AfterFlight
<1>3. CASE \E conf \in Config : ServerStart(s, conf)
  BY <1>3, ServerStartKeeps DEF ServerStart
<1>4. CASE ServerEnds(s, ERR) /\ spc[s] # "done"
  BY <1>4, ServerEndsKeeps
<1>5. ASSUME NEW d \in Arriving, ServerReceives(s, d)
      PROVE  ServerKeeps(s) /\ spc[s] # "done"
  <2>1. CASE AcceptClientHello(s, d)
    BY <2>1, AcceptClientHelloKeeps DEF AcceptClientHello
  <2>2. CASE SkipDatagram(s, d)
    BY <2>2, SkipDatagramKeeps DEF SkipDatagram
  <2>3. CASE RecvClientFinished(s, d)
    BY <2>3, RecvClientFinishedKeeps DEF RecvClientFinished
  <2> QED
    BY <1>5, <2>1, <2>2, <2>3 DEF ServerReceives
<1>6. CASE ServerHelloFails(s) \/ CertificateTooLong(s) \/ SignFails(s)
  BY <1>4, <1>6 DEF ServerHelloFails, CertificateTooLong, SignFails
<1>7. CASE ServerSendFails(s) \/ ServerTimesOut(s)
  BY <1>4, <1>7 DEF ServerSendFails, ServerTimesOut, AcceptFails, RecvClientFinishedFails,
                    AfterFlight
<1> QED
  BY <1>1, <1>2, <1>3, <1>5, <1>6, <1>7 DEF ServerStep, ServerLocal

LEMMA ServerStepKeeps ==
  ASSUME IInv, NEW s \in Server, ServerStep(s), UNCHANGED clientVars
  PROVE  IInv'
<1>1. ServerKeeps(s)
  BY ServerStepLocal
<1>2. \A d \in sent' \ sent : Origin(d)'
  <2>1. CASE Sends(ServerHelloDatagram(s))
    BY <2>1 DEF Sends, Origin, ServerHelloDatagram
  <2>2. CASE SendProtected(s) /\ Sends(FlightDatagram(s))
    <3>1. \A d : d = FlightDatagram(s) =>
            \E c \in Client, n \in 0 .. 3 : FromServer(c, s, n, d)'
      BY <2>2, SendProtectedKeeps
    <3>2. \A d \in sent' \ sent : d = FlightDatagram(s)
      BY <2>2 DEF Sends
    <3> QED
      BY <3>1, <3>2 DEF Origin
  <2> QED
    BY <2>1, <2>2 DEF ServerStep
<1> QED
  BY <1>1, <1>2, ServerKeepsAll

-----------------------------------------------------------------------------
(* The invariant, and what follows from it.                                *)

LEMMA InitIInv == Init => IInv
<1> SUFFICES ASSUME Init PROVE IInv
  OBVIOUS
<1>1. TypeOK
  BY MaxAttemptsAssumption, FinishedAttemptsAssumption
  DEF Init, ClientInit, ServerInit, TypeOK, ClientPC, ServerPC
<1>2. Total
  BY DEF Init, ClientInit, ServerInit, Total
<1>3. ASSUME NEW s \in Server PROVE ServerState(s)
  BY DEF Init, ServerInit, ServerState, OK, Running
<1>4. ASSUME NEW c \in Client PROVE ClientState(c)
  BY DEF Init, ClientInit, ClientState, OK, Running
<1>5. \A d \in sent : Origin(d)
  BY DEF Init
<1> QED
  BY <1>1, <1>2, <1>3, <1>4, <1>5 DEF IInv

LEMMA StutterIInv == ASSUME IInv, UNCHANGED vars PROVE IInv'
<1>1. UNCHANGED <<clientVars, serverVars, sent>>
  BY DEF vars
<1>2. TypeOK /\ Total /\ (\A d \in sent : Origin(d))
  BY DEF IInv
<1>3. TypeOK' /\ Total'
  BY <1>1, <1>2 DEF TypeOK, Total, clientVars, serverVars
<1>4. ServerGrows /\ ClientGrows
  BY <1>1, <1>2 DEF ServerGrows, ClientGrows, clientVars, serverVars, TypeOK
<1>5. ASSUME NEW s \in Server PROVE ServerState(s)'
  <2>1. ServerState(s)
    BY DEF IInv
  <2> QED
    BY <1>1, <1>4, <2>1, ServerStateGrows DEF serverVars
<1>6. ASSUME NEW c \in Client PROVE ClientState(c)'
  <2>1. ClientState(c)
    BY DEF IInv
  <2> QED
    BY <1>1, <1>2, <1>3, <1>4, <2>1, ClientStateGrows DEF clientVars
<1>7. \A d \in sent' : Origin(d)'
  BY <1>1, <1>2, <1>3, <1>4, OriginGrows
<1> QED
  BY <1>3, <1>5, <1>6, <1>7 DEF IInv

LEMMA NextIInv == IInv /\ [Next]_vars => IInv'
<1> SUFFICES ASSUME IInv, [Next]_vars PROVE IInv'
  OBVIOUS
<1>1. CASE \E c \in Client : ClientStep(c) /\ UNCHANGED serverVars
  BY <1>1, ClientStepKeeps
<1>2. CASE \E s \in Server : ServerStep(s) /\ UNCHANGED clientVars
  BY <1>2, ServerStepKeeps
<1>3. CASE Terminated \/ UNCHANGED vars
  BY <1>3, StutterIInv DEF Terminated
<1> QED
  BY <1>1, <1>2, <1>3 DEF Next

\* The inductive invariant holds in every reachable state: each call's state
\* determines its peer, and every datagram has an origin.
THEOREM Invariance == Spec => []IInv
  BY InitIInv, NextIInv, PTL DEF Spec

\* The retry counters, the record counter and the statuses of both state
\* machines stay in their ranges, for any number of calls and any bounds.
THEOREM TypeCorrect == Spec => []TypeOK
<1>1. IInv => TypeOK
  BY DEF IInv
<1> QED
  BY <1>1, Invariance, PTL

\* The server call that holds a client's keys has hashed that client's hello
\* and what it has sent since, message by message.
LEMMA ServerHashed ==
  ASSUME IInv, NEW c \in Client, NEW s \in Server, skeys[s] = Keys(c, s)
  PROVE  /\ next_send[s] \in 0 .. 4
         /\ Progress(c, s, next_send[s])
<1>1. skeys[s] # NoKeys
  BY KeysDerived
<1>2. PICK c2 \in Client, n \in 0 .. 4 : Progress(c2, s, n)
  BY <1>1 DEF IInv, ServerState
<1>3. Keys(c2, s) = Keys(c, s) /\ n = next_send[s]
  BY <1>2 DEF Progress
<1>4. c2 = c
  BY <1>3, KeysInjective
<1> QED
  BY <1>2, <1>3, <1>4

\* The part of the transcript that comes after the hellos is the same on both
\* sides, in every state of every client that has not returned.
THEOREM Transcripts == Spec => []TranscriptAgreement
<1>1. ASSUME IInv PROVE TranscriptAgreement
  <2> SUFFICES ASSUME NEW c \in Client, cpc[c] # "done", Len(ctranscript[c]) > 2
               PROVE  \E s \in Server :
                        /\ skeys[s] = ckeys[c]
                        /\ Len(ctranscript[c]) <= Len(stranscript[s])
                        /\ \A i \in 1 .. Len(ctranscript[c]) :
                             ctranscript[c][i] = stranscript[s][i]
    BY DEF TranscriptAgreement
  <2>1. ClientState(c) /\ TypeOK
    BY <1>1 DEF IInv
  <2>2. cpc[c] \in {"recv_certificate", "recv_certificate_verify", "recv_finished",
                    "send_finished"}
    <3>1. cpc[c] \in ClientPC
      BY <2>1 DEF TypeOK
    <3>2. CASE cpc[c] = "start"
      BY <2>1, <3>2 DEF ClientState
    <3>3. CASE cpc[c] \in {"send_hello", "recv_hello"}
      <4>1. ctranscript[c] = <<ClientHello(c)>>
        BY <2>1, <3>3 DEF ClientState
      <4>2. Len(<<ClientHello(c)>>) = 1
        OBVIOUS
      <4> QED
        BY <4>1, <4>2
    <3>4. CASE cpc[c] = "recv_encrypted_extensions"
      <4>1. PICK s \in Server : ctranscript[c] = T2(c, s)
        BY <2>1, <3>4 DEF ClientState
      <4>2. Len(T2(c, s)) = 2
        BY DEF T2
      <4> QED
        BY <4>1, <4>2
    <3> QED
      BY <3>1, <3>2, <3>3, <3>4 DEF ClientPC, Awaited
  <2>3. PICK s \in Server, n \in 1 .. 4 :
          /\ Bound(c, s, n)
          /\ \/ n = 1 /\ ctranscript[c] = T3(c, s)
             \/ n = 2 /\ ctranscript[c] = T4(c, s, config[s])
             \/ n = 3 /\ ctranscript[c] = T5(c, s, config[s])
             \/ n = 4 /\ ctranscript[c] = T6(c, s, config[s])
    BY <2>1, <2>2 DEF ClientState
  <2>4. skeys[s] = Keys(c, s) /\ ckeys[c] = Keys(c, s)
    BY <2>3 DEF Bound
  <2>5. /\ next_send[s] \in 0 .. 4 /\ next_send[s] >= n
        /\ Progress(c, s, next_send[s])
    BY <1>1, <2>3, <2>4, ServerHashed DEF Bound
  <2>6. \/ next_send[s] = 1 /\ stranscript[s] = T3(c, s)
        \/ next_send[s] = 2 /\ stranscript[s] = T4(c, s, config[s])
        \/ next_send[s] = 3 /\ stranscript[s] = T5(c, s, config[s])
        \/ next_send[s] = 4 /\ stranscript[s] = T6(c, s, config[s])
    BY <2>5 DEF Progress
  <2>7. CASE n = 1
    BY <2>3, <2>4, <2>6, <2>7 DEF T3, T4, T5, T6
  <2>8. CASE n = 2
    BY <2>3, <2>4, <2>5, <2>6, <2>8 DEF T3, T4, T5, T6
  <2>9. CASE n = 3
    BY <2>3, <2>4, <2>5, <2>6, <2>9 DEF T3, T4, T5, T6
  <2>10. CASE n = 4
    BY <2>3, <2>4, <2>5, <2>6, <2>10 DEF T3, T4, T5, T6
  <2> QED
    BY <2>7, <2>8, <2>9, <2>10
<1> QED
  BY <1>1, Invariance, PTL

\* A client that succeeded and the server it succeeded with: that server has
\* sent its whole flight and the two transcripts differ by the last message.
LEMMA ClientOutcome ==
  ASSUME IInv, NEW c \in Client, cstatus[c] = OK
  PROVE  \E s \in Server :
           /\ Bound(c, s, 4) /\ Signed(c, s)
           /\ spc[s] \in {"recv_finished", "done"}
           /\ ctranscript[c] = CompleteTranscript(c, s)
<1>1. PICK s \in Server : /\ Bound(c, s, 4) /\ Signed(c, s)
                          /\ ctranscript[c] = T7(c, s, config[s])
  BY DEF IInv, ClientState
<1>2. skeys[s] = Keys(c, s) /\ ckeys[c] = Keys(c, s) /\ next_send[s] >= 4
  BY <1>1 DEF Bound
<1>3. next_send[s] = 4 /\ Progress(c, s, 4)
  BY <1>2, ServerHashed
<1>4. stranscript[s] = T6(c, s, config[s])
  BY <1>3 DEF Progress
<1>5. CompleteTranscript(c, s) = T7(c, s, config[s])
  <2>1. CompleteTranscript(c, s) = Append(T6(c, s, config[s]), CF(c, s, config[s]))
    BY <1>2, <1>4 DEF CompleteTranscript, CF
  <2> QED
    BY <2>1, TranscriptSteps
<1>6. spc[s] \in {"recv_finished", "done"}
  <2>1. spc[s] \in ServerPC /\ ServerState(s) /\ skeys[s] # NoKeys
    BY <1>2, KeysDerived DEF IInv, TypeOK
  <2>2. /\ spc[s] # "send_encrypted_extensions" /\ spc[s] # "send_certificate"
        /\ spc[s] # "send_certificate_verify" /\ spc[s] # "send_finished"
    BY <1>3, <2>1 DEF ServerState, Progress
  <2>3. spc[s] \notin {"idle", "accept", "send_hello"}
    BY <2>1 DEF ServerState
  <2> QED
    BY <2>1, <2>2, <2>3 DEF ServerPC, AfterFlight
<1> QED
  BY <1>1, <1>5, <1>6

\* nd_client_handshake returns ND_OK only with an authenticated server.
THEOREM Authentication == Spec => []ClientAuthenticatesServer
<1>1. ASSUME IInv PROVE ClientAuthenticatesServer
  <2> SUFFICES ASSUME NEW c \in Client, cstatus[c] = OK
               PROVE  \E s \in Server :
                        /\ skeys[s] = ckeys[c]
                        /\ spc[s] \in {"recv_finished", "done"}
                        /\ ctranscript[c] = CompleteTranscript(c, s)
                        /\ config[s].chain = cchain[c]
                        /\ cchain[c] \in Parseable \cap Trusted
                        /\ config[s].signer = LeafKey[cchain[c]]
    BY DEF ClientAuthenticatesServer
  <2> QED
    BY <1>1, ClientOutcome DEF Bound, Signed, Presented
<1> QED
  BY <1>1, Invariance, PTL

\* nd_server_handshake returns ND_OK only once its client has.
THEOREM Confirmation == Spec => []ServerConfirmsClient
<1>1. ASSUME IInv PROVE ServerConfirmsClient
  <2> SUFFICES ASSUME NEW s \in Server, sstatus[s] = OK
               PROVE  \E c \in Client :
                        /\ cstatus[c] = OK
                        /\ ckeys[c] = skeys[s]
                        /\ ctranscript[c] = CompleteTranscript(c, s)
    BY DEF ServerConfirmsClient
  <2>1. PICK c \in Client : Progress(c, s, 4) /\ cstatus[c] = OK /\ ckeys[c] = Keys(c, s)
    BY <1>1 DEF IInv, ServerState
  <2>2. PICK s2 \in Server : Bound(c, s2, 4) /\ ctranscript[c] = CompleteTranscript(c, s2)
    BY <1>1, <2>1, ClientOutcome
  <2>3. Keys(c, s2) = Keys(c, s)
    BY <2>1, <2>2 DEF Bound
  <2>4. s2 = s
    BY <2>3, KeysInjective
  <2> QED
    BY <2>1, <2>2, <2>4 DEF Progress
<1> QED
  BY <1>1, Invariance, PTL

\* No record key ever seals two messages under one sequence number.
THEOREM Nonces == Spec => []NonceUnique
<1>1. ASSUME IInv PROVE NonceUnique
  <2> SUFFICES ASSUME NEW d \in sent, NEW e \in sent,
                      d.layer = "protected", e.layer = "protected",
                      d.keys = e.keys, d.role = e.role, d.n = e.n
               PROVE  d.msg = e.msg
    BY DEF NonceUnique
  <2>1. ASSUME NEW x \in sent, x.layer = "protected"
        PROVE  \/ \E c \in Client, s \in Server, n \in 0 .. 3 : FromServer(c, s, n, x)
               \/ \E c \in Client, s \in Server : FromClient(c, s, x)
    <3>1. Origin(x)
      BY <1>1 DEF IInv
    <3> QED
      BY <2>1, <3>1, RecordFields DEF Origin, ClientHelloDatagram, ServerHelloDatagram
  <2>2. ASSUME NEW x, NEW c \in Client, NEW s \in Server, NEW n \in 0 .. 3,
               FromServer(c, s, n, x)
        PROVE  /\ x.role = "server" /\ x.keys = Keys(c, s) /\ x.n = n
               /\ n = 0 => x.msg = EncryptedExtensions
               /\ n = 1 => x.msg = Certificate(config[s].chain)
               /\ n = 2 => x.msg = CV(c, s, config[s])
               /\ n = 3 => x.msg = SF(c, s, config[s])
    BY <2>2, RecordFields DEF FromServer, FlightRecord
  <2>3. ASSUME NEW x, NEW c \in Client, NEW s \in Server, FromClient(c, s, x)
        PROVE  /\ x.role = "client" /\ x.keys = Keys(c, s)
               /\ x.msg = CF(c, s, config[s])
    BY <2>3, RecordFields DEF FromClient
  <2>4. CASE d.role = "server"
    <3>1. PICK c \in Client, s \in Server, n \in 0 .. 3 : FromServer(c, s, n, d)
      BY <2>1, <2>3, <2>4
    <3>2. PICK c2 \in Client, s2 \in Server, n2 \in 0 .. 3 : FromServer(c2, s2, n2, e)
      BY <2>1, <2>3, <2>4
    <3>3. Keys(c, s) = Keys(c2, s2) /\ n = n2
      BY <2>2, <3>1, <3>2
    <3>4. c = c2 /\ s = s2
      BY <3>3, KeysInjective
    <3> QED
      BY <2>2, <3>1, <3>2, <3>3, <3>4
  <2>5. CASE d.role # "server"
    <3>1. PICK c \in Client, s \in Server : FromClient(c, s, d)
      BY <2>1, <2>2, <2>5
    <3>2. PICK c2 \in Client, s2 \in Server : FromClient(c2, s2, e)
      BY <2>1, <2>2, <2>5
    <3>3. Keys(c, s) = Keys(c2, s2)
      BY <2>3, <3>1, <3>2
    <3>4. c = c2 /\ s = s2
      BY <3>3, KeysInjective
    <3> QED
      BY <2>3, <3>1, <3>2, <3>4
  <2> QED
    BY <2>4, <2>5
<1> QED
  BY <1>1, Invariance, PTL

-----------------------------------------------------------------------------
(* The refinement of KeyExchange.                                          *)

LEMMA KeysPeers ==
  ASSUME NEW c, NEW s
  PROVE  Keys(c, s).hello[1].share = c /\ Keys(c, s).hello[2].share = s
  BY DEF Keys, DeriveHandshakeKeys, T2, ClientHello, ServerHello

\* The outcome a client call shows.
LEMMA ClientPeerIs ==
  ASSUME IInv, NEW c \in Client
  PROVE  /\ cstatus[c] = Running => ClientPeer[c] = "none"
         /\ cstatus[c] = ERR => ClientPeer[c] = "failed"
         /\ \A s \in Server : cstatus[c] = OK /\ ckeys[c] = Keys(c, s) => ClientPeer[c] = s
         /\ \A s \in Server : ClientPeer[c] = s => skeys[s] = Keys(c, s) /\ cstatus[c] = OK
<1>1. cstatus[c] \in {OK, ERR, Running}
  BY DEF IInv, TypeOK, Status
<1>2. CASE cstatus[c] = Running
  BY <1>2, ShareAssumption DEF ClientPeer, OK, ERR, Running
<1>3. CASE cstatus[c] = ERR
  BY <1>3, ShareAssumption DEF ClientPeer, OK, ERR, Running
<1>4. CASE cstatus[c] = OK
  <2>1. PICK s \in Server : Bound(c, s, 4)
    BY <1>4 DEF IInv, ClientState
  <2>2. skeys[s] = Keys(c, s) /\ ckeys[c] = Keys(c, s)
    BY <2>1 DEF Bound
  <2>3. ClientPeer[c] = s
    BY <1>4, <2>2, KeysPeers DEF ClientPeer, OK, Running
  <2>4. \A s2 : Keys(c, s2) = Keys(c, s) => s2 = s
    BY KeysInjective
  <2> QED
    BY <1>4, <2>2, <2>3, <2>4 DEF OK, ERR, Running
<1> QED
  BY <1>1, <1>2, <1>3, <1>4

\* A client step that ends the call takes a server for this call alone.
LEMMA ClientStepImplements ==
  ASSUME IInv, IInv', NEW c \in Client, ClientStep(c), UNCHANGED serverVars
  PROVE  [KE!Next]_<<ClientPeer, ServerPeer>>
<1>1. ClientKeeps(c) /\ cpc[c] # "done"
  BY ClientStepLocal
<1>2. cstatus[c] = Running /\ ClientPeer[c] = "none"
  BY <1>1, ClientPeerIs DEF IInv, ClientState
<1>3. ServerPeer' = ServerPeer
  BY DEF ServerPeer, serverVars
<1>4. \A c2 \in Client \ {c} : ClientPeer'[c2] = ClientPeer[c2]
  BY <1>1 DEF ClientKeeps, ClientPeer
<1>5. ClientPeer' = [ClientPeer EXCEPT ![c] = ClientPeer'[c]]
  <2>1. /\ ClientPeer = [x \in Client |-> ClientPeer[x]]
        /\ ClientPeer' = [x \in Client |-> ClientPeer'[x]]
    BY DEF ClientPeer
  <2> QED
    BY <1>4, <2>1
<1>6. cstatus'[c] \in {OK, ERR, Running}
  BY DEF IInv, TypeOK, Status
<1>7. CASE cstatus'[c] = Running
  <2>1. ClientPeer'[c] = "none"
    BY <1>7 DEF ClientPeer, OK, Running
  <2>2. ClientPeer = [x \in Client |-> ClientPeer[x]]
    BY DEF ClientPeer
  <2>3. ClientPeer' = ClientPeer
    BY <1>2, <1>5, <2>1, <2>2
  <2> QED
    BY <1>3, <2>3
<1>8. CASE cstatus'[c] = ERR
  <2>1. ClientPeer'[c] = "failed"
    BY <1>8 DEF ClientPeer, OK, ERR, Running
  <2>2. KE!ClientFailsCall(c)
    BY <1>2, <1>3, <1>5, <2>1 DEF KE!ClientFailsCall, KE!None, KE!Failed
  <2> QED
    BY <2>2 DEF KE!Next
<1>9. CASE cstatus'[c] = OK
  <2>1. PICK s \in Server : Bound(c, s, 4)'
    BY <1>9 DEF IInv, ClientState
  <2>2. ckeys'[c] = Keys(c, s) /\ skeys[s] = Keys(c, s)
    BY <2>1 DEF Bound, serverVars
  <2>3. ClientPeer'[c] = s
    BY <1>9, <2>2, KeysPeers DEF ClientPeer, OK, Running
  <2>4. \A other \in Client : ClientPeer[other] # s
    <3> SUFFICES ASSUME NEW other \in Client, ClientPeer[other] = s PROVE FALSE
      OBVIOUS
    <3>1. skeys[s] = Keys(other, s) /\ cstatus[other] = OK
      BY ClientPeerIs
    <3>2. Keys(other, s) = Keys(c, s)
      BY <2>2, <3>1
    <3>3. other = c
      BY <3>2, KeysInjective
    <3> QED
      BY <1>2, <3>1, <3>3 DEF OK, Running
  <2>5. KE!ClientSucceeds(c, s)
    BY <1>2, <1>3, <1>5, <2>3, <2>4 DEF KE!ClientSucceeds, KE!None
  <2> QED
    BY <2>5 DEF KE!Next
<1> QED
  BY <1>6, <1>7, <1>8, <1>9

\* A server step that ends the call well names the client that took it.
LEMMA ServerStepImplements ==
  ASSUME IInv, IInv', NEW s \in Server, ServerStep(s), UNCHANGED clientVars
  PROVE  [KE!Next]_<<ClientPeer, ServerPeer>>
<1>1. ServerKeeps(s) /\ spc[s] # "done"
  BY ServerStepLocal
<1>2. sstatus[s] = Running /\ ServerPeer[s] = "none"
  <2>1. sstatus[s] = Running
    BY <1>1 DEF IInv, ServerState
  <2> QED
    BY <2>1 DEF ServerPeer, OK, Running
<1>3. ClientPeer' = ClientPeer
  BY DEF ClientPeer, clientVars
<1>4. \A s2 \in Server \ {s} : ServerPeer'[s2] = ServerPeer[s2]
  BY <1>1 DEF ServerKeeps, SameServer, ServerPeer
<1>5. ServerPeer' = [ServerPeer EXCEPT ![s] = ServerPeer'[s]]
  <2>1. /\ ServerPeer = [x \in Server |-> ServerPeer[x]]
        /\ ServerPeer' = [x \in Server |-> ServerPeer'[x]]
    BY DEF ServerPeer
  <2> QED
    BY <1>4, <2>1
<1>6. sstatus'[s] \in {OK, ERR, Running}
  BY DEF IInv, TypeOK, Status
<1>7. CASE sstatus'[s] = Running
  <2>1. ServerPeer'[s] = "none"
    BY <1>7 DEF ServerPeer, OK, Running
  <2>2. ServerPeer = [x \in Server |-> ServerPeer[x]]
    BY DEF ServerPeer
  <2>3. ServerPeer' = ServerPeer
    BY <1>2, <1>5, <2>1, <2>2
  <2> QED
    BY <1>3, <2>3
<1>8. CASE sstatus'[s] = ERR
  <2>1. ServerPeer'[s] = "failed"
    BY <1>8 DEF ServerPeer, OK, ERR, Running
  <2>2. KE!ServerFailsCall(s)
    BY <1>2, <1>3, <1>5, <2>1 DEF KE!ServerFailsCall, KE!None, KE!Failed
  <2> QED
    BY <2>2 DEF KE!Next
<1>9. CASE sstatus'[s] = OK
  <2>1. PICK c \in Client : /\ Progress(c, s, 4)' /\ cstatus'[c] = OK
                            /\ ckeys'[c] = Keys(c, s)
    BY <1>9 DEF IInv, ServerState
  <2>2. ServerPeer'[s] = c
    BY <1>9, <2>1, KeysPeers DEF ServerPeer, OK, Running, Progress
  <2>3. ClientPeer[c] = s
    BY <2>1, ClientPeerIs DEF clientVars
  <2>4. KE!ServerSucceeds(s, c)
    BY <1>2, <1>3, <1>5, <2>2, <2>3 DEF KE!ServerSucceeds, KE!None
  <2> QED
    BY <2>4 DEF KE!Next
<1> QED
  BY <1>6, <1>7, <1>8, <1>9

\* The two state machines over an unreliable network implement KeyExchange.
THEOREM Refinement == Spec => Agreement
<1>1. Init => KE!Init
  <2> SUFFICES ASSUME Init PROVE KE!Init
    OBVIOUS
  <2>1. \A c \in Client : cstatus[c] = Running
    BY DEF Init, ClientInit
  <2>2. \A s \in Server : sstatus[s] = Running
    BY DEF Init, ServerInit
  <2>3. ClientPeer = [c \in Client |-> "none"]
    BY <2>1 DEF ClientPeer, OK, Running
  <2>4. ServerPeer = [s \in Server |-> "none"]
    BY <2>2 DEF ServerPeer, OK, Running
  <2> QED
    BY <2>3, <2>4 DEF KE!Init, KE!None
<1>2. IInv /\ IInv' /\ [Next]_vars => [KE!Next]_<<ClientPeer, ServerPeer>>
  <2> SUFFICES ASSUME IInv, IInv', [Next]_vars
               PROVE  [KE!Next]_<<ClientPeer, ServerPeer>>
    OBVIOUS
  <2>1. CASE \E c \in Client : ClientStep(c) /\ UNCHANGED serverVars
    BY <2>1, ClientStepImplements
  <2>2. CASE \E s \in Server : ServerStep(s) /\ UNCHANGED clientVars
    BY <2>2, ServerStepImplements
  <2>3. CASE Terminated \/ UNCHANGED vars
    <3>1. UNCHANGED <<clientVars, serverVars>>
      BY <2>3 DEF Terminated, vars
    <3> QED
      BY <3>1 DEF clientVars, serverVars, ClientPeer, ServerPeer
  <2> QED
    BY <2>1, <2>2, <2>3 DEF Next
<1> QED
  BY <1>1, <1>2, Invariance, PTL DEF Spec, Agreement, KE!Spec

=============================================================================
