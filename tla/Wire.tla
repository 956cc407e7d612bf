-------------------------------- MODULE Wire --------------------------------
(***************************************************************************)
(* A message is serialized, by this library or by another implementation,  *)
(* damaged on its way, and handed to the parser of its format.             *)
(***************************************************************************)
EXTENDS X509Parse

CONSTANTS
  Sample,      \* Sample[f]: the messages sent in format f
  NoiseByte,   \* the bytes that damage puts in
  MaxDamage,   \* MaxDamage[f]: how many times a message is damaged
  MaxNoise,    \* the longest string of noise fed to the DER reader
  CidLen       \* the connection ID length agreed out of band

\* Bytes, and bytes of a given number
Octets == Seq(0 .. 255)
Blob(n) == {b \in Octets : Len(b) = n}

\* The messages whose encoding is canonical
Fields ==
  [plaintext |-> [type : Nat, version : Nat, epoch : Nat, seq : Nat, fragment : Octets],
   handshake |-> [msg_type : Nat, length : Nat, message_seq : Nat, offset : Nat,
                  fragment : Octets],
   unified   |-> [cid_present : BOOLEAN, cid : Octets, seq16 : BOOLEAN,
                  len_present : BOOLEAN, epoch : Nat, seq : Nat, payload : Octets],
   record    |-> [epoch : Nat, seq : Nat, payload : Octets],
   ack       |-> [records : Seq(Nat \X Nat)],
   verify    |-> [algorithm : Nat, signature : Octets]]

\* The extensions of another implementation's hello, and of a certificate
PeerExts ==
  Seq([kind : {"versions"}, list : Seq(Nat)] \cup [kind : {"shares"}, list : Seq(Nat \X Octets)]
        \cup [kind : {"other"}, list : Octets])
CertExtensions == Seq([oid : Octets, critical : BOOLEAN, ca : Octets])

\* The other messages
OtherFields ==
  [client_hello |-> [random : Blob(RandomLen), key : Octets],
   server_hello |-> [random : Blob(RandomLen), key : Octets],
   extensions   |-> {<<>>},
   certificate  |-> [certs : Seq(Octets)],
   signature    |-> [r : Blob(ScalarLen), s : Blob(ScalarLen)],
   peer_client_hello |-> [random : Blob(RandomLen), sid : Octets, cookie : Octets,
                          suites : Seq(Nat), exts : PeerExts],
   peer_server_hello |-> [random : Blob(RandomLen), sid : Octets, suites : Seq(Nat) \ {<<>>},
                          exts : PeerExts],
   x509 |-> [version : BOOLEAN, issuer : Octets, subject : Octets, not_before : Nat \X Octets,
             not_after : Nat \X Octets, key : Octets, uid : BOOLEAN, r : Blob(ScalarLen),
             s : Blob(ScalarLen), exts : CertExtensions],
   der  |-> {<<>>}]

\* The length of a buffer is a size_t.
ASSUME WireAssumption ==
  /\ DOMAIN Sample \subseteq DOMAIN Fields \cup DOMAIN OtherFields
  /\ \A f \in DOMAIN Fields \cap DOMAIN Sample : Sample[f] \subseteq Fields[f]
  /\ \A f \in DOMAIN OtherFields \cap DOMAIN Sample : Sample[f] \subseteq OtherFields[f]
  /\ NoiseByte \subseteq 0 .. 255
  /\ MaxNoise \in Nat /\ MaxDamage \in [DOMAIN Sample -> Nat] /\ CidLen \in Nat
  /\ "der" \in DOMAIN Sample /\ MaxNoise + MaxDamage["der"] < SizeMod

VARIABLES
  format,   \* the format of the message under way, or Idle
  sent,     \* what was sent
  wire,     \* its bytes, as they are now
  damage,   \* how often they were damaged
  got       \* what the parser returned, or Pending

wireVars == <<format, sent, wire, damage, got>>

Idle == "idle"
Pending == [pending |-> TRUE]

-----------------------------------------------------------------------------
(* What other implementations send.  A hello is a sequence of suites and a *)
(* sequence of extensions, [kind, list]; a certificate is its fields.      *)

Concat(enc(_), s) == FlattenSeq([i \in 1 .. Len(s) |-> enc(s[i])])
U16(v) == Put(2, v)

PeerClientExt(e) ==
  CASE e.kind = "versions" -> Ext(SupportedVersions, Prefixed(1, Concat(U16, e.list)))
    [] e.kind = "shares" ->
         Ext(KeyShare, Prefixed(2, Concat(LAMBDA s : ShareEntry(s[1], s[2]), e.list)))
    [] OTHER -> Ext(65281, e.list)

PeerClientHello(h) ==
  U16(V12) \o h.random \o Prefixed(1, h.sid) \o Prefixed(1, h.cookie)
    \o Prefixed(2, Concat(U16, h.suites)) \o Prefixed(1, <<0>>)
    \o Prefixed(2, Concat(PeerClientExt, h.exts))

PeerServerExt(e) ==
  CASE e.kind = "versions" -> Ext(SupportedVersions, Concat(U16, e.list))
    [] e.kind = "shares" ->
         Ext(KeyShare, Concat(LAMBDA s : ShareEntry(s[1], s[2]), e.list))
    [] OTHER -> Ext(65281, e.list)

PeerServerHello(h) ==
  U16(V12) \o h.random \o Prefixed(1, h.sid) \o U16(h.suites[1]) \o <<0>>
    \o Prefixed(2, Concat(PeerServerExt, h.exts))

Tlv(tag, body) ==
  <<tag>> \o (IF Len(body) < 128 THEN <<Len(body)>> ELSE <<129, Len(body)>>) \o body

IssuedExtension(e) ==
  Tlv(SEQUENCE, Tlv(OID, e.oid) \o (IF e.critical THEN Tlv(BOOLEAN_TAG, <<255>>) ELSE <<>>)
                  \o Tlv(OCTETS, Tlv(SEQUENCE, IF e.ca = <<>> THEN <<>>
                                               ELSE Tlv(BOOLEAN_TAG, e.ca))))

TwoDigits(v) == <<48 + (v \div 10), 48 + (v % 10)>>

IssuedTime(t) ==
  IF t[1] < 2050 THEN Tlv(UTCTIME, TwoDigits(t[1] % 100) \o t[2] \o <<90>>)
  ELSE Tlv(GENTIME, TwoDigits(t[1] \div 100) \o TwoDigits(t[1] % 100) \o t[2] \o <<90>>)

IssuedTbs(c) ==
  Tlv(SEQUENCE,
    (IF c.version THEN Tlv(CTX(0), Tlv(INTEGER, <<2>>)) ELSE <<>>) \o Tlv(INTEGER, <<5>>)
      \o Tlv(SEQUENCE, Tlv(OID, OidEcdsaSha256)) \o Tlv(SEQUENCE, c.issuer)
      \o Tlv(SEQUENCE, IssuedTime(c.not_before) \o IssuedTime(c.not_after))
      \o Tlv(SEQUENCE, c.subject)
      \o Tlv(SEQUENCE, Tlv(SEQUENCE, Tlv(OID, OidEcPublicKey) \o Tlv(OID, OidPrime256v1))
                         \o Tlv(BITSTRING, <<0, 4>> \o c.key))
      \o (IF c.uid THEN Tlv(CTX(1), <<0, 7>>) ELSE <<>>)
      \o (IF c.exts = <<>> THEN <<>>
          ELSE Tlv(CTX(3), Tlv(SEQUENCE, Concat(IssuedExtension, c.exts)))))

IssuedCertificate(c) ==
  Tlv(SEQUENCE, IssuedTbs(c) \o Tlv(SEQUENCE, Tlv(OID, OidEcdsaSha256))
                  \o Tlv(BITSTRING, <<0>> \o SignatureSerialize(c).bytes))

-----------------------------------------------------------------------------
(* What a receiver should make of them: of several extensions of a kind    *)
(* the first counts, of several x25519 shares in it the last.              *)

ListOf(exts, kind) == SelectSeq(exts, LAMBDA e : e.kind = kind)[1].list
Mentions(exts, kind) == \E i \in 1 .. Len(exts) : exts[i].kind = kind
Usable(shares) == SelectSeq(shares, LAMBDA s : s[1] = GroupX25519 /\ Len(s[2]) = KeyLen)

ClientHelloMeaning(h) ==
  IF /\ \E i \in 1 .. Len(h.suites) : h.suites[i] = Suite
     /\ Mentions(h.exts, "versions") /\ Contains(ListOf(h.exts, "versions"), V13)
     /\ Mentions(h.exts, "shares") /\ Usable(ListOf(h.exts, "shares")) # <<>>
  THEN [ok |-> TRUE, random |-> h.random, key |-> Last(Usable(ListOf(h.exts, "shares")))[2]]
  ELSE Rejected

ServerHelloMeaning(h) ==
  IF /\ Mentions(h.exts, "versions") /\ ListOf(h.exts, "versions") = <<V13>>
     /\ Mentions(h.exts, "shares") /\ ListOf(h.exts, "shares") # <<>>
     /\ Usable(<<Head(ListOf(h.exts, "shares"))>>) # <<>>
  THEN [ok |-> TRUE, random |-> h.random, suite |-> h.suites[1],
        key |-> Head(ListOf(h.exts, "shares"))[2]]
  ELSE Rejected

CertificateMeaning(c) ==
  [ok |-> TRUE, tbs |-> IssuedTbs(c), r |-> c.r, s |-> c.s,
   issuer |-> Tlv(SEQUENCE, c.issuer), subject |-> Tlv(SEQUENCE, c.subject),
   not_before |-> c.not_before, not_after |-> c.not_after, key |-> c.key,
   is_ca |-> \E i \in 1 .. Len(c.exts) : c.exts[i].oid = OidBasicConstraints
                                           /\ c.exts[i].ca \notin {<<>>, <<0>>}]

-----------------------------------------------------------------------------
Foreign(b) == [ok |-> TRUE, bytes |-> b]

\* nd_record_protect's header; the ciphertext is opaque.
RecordSerialize(m) ==
  Foreign(FixedShapeHeader(m.epoch % 4, m.seq % 65536, Len(m.payload)) \o m.payload)

Serialize(f, m) ==
  CASE f = "plaintext"    -> PlaintextSerialize(m)
    [] f = "handshake"    -> HandshakeSerialize(m)
    [] f = "unified"      -> UnifiedSerialize(m)
    [] f = "record"       -> RecordSerialize(m)
    [] f = "ack"          -> AckSerialize(m.records)
    [] f = "client_hello" -> ClientHelloSerialize(m)
    [] f = "server_hello" -> ServerHelloSerialize(m)
    [] f = "extensions"   -> EncryptedExtensionsSerialize
    [] f = "certificate"  -> CertificateSerialize(m.certs)
    [] f = "verify"       -> CertificateVerifySerialize(m)
    [] f = "signature"    -> SignatureSerialize(m)
    [] f = "peer_client_hello" -> Foreign(PeerClientHello(m))
    [] f = "peer_server_hello" -> Foreign(PeerServerHello(m))
    [] f = "x509"         -> Foreign(IssuedCertificate(m))
    [] f = "der"          -> Foreign(<<>>)

Parse(f, b) ==
  CASE f = "plaintext"    -> PlaintextParse(b)
    [] f = "handshake"    -> HandshakeParse(b)
    [] f = "unified"      -> UnifiedParse(b, CidLen)
    [] f = "record"       -> UnifiedParse(b, 0)
    [] f = "ack"          -> AckParse(b)
    [] f \in {"client_hello", "peer_client_hello"} -> ClientHelloParse(b)
    [] f \in {"server_hello", "peer_server_hello"} -> ServerHelloParse(b)
    [] f = "extensions"   -> EncryptedExtensionsParse(b)
    [] f = "certificate"  -> CertificateParse(b)
    [] f = "verify"       -> CertificateVerifyParse(b)
    [] f = "signature"    -> SignatureParse(b)
    [] f = "x509"         -> X509Parse(b)
    [] f = "der"          -> Elements(b)

\* The lengths of what is sent fit the fields they are written in: a
\* connection ID has the length agreed upon, others write proper messages, and
\* a certificate, its parts abbreviated, has a length of one byte.
LengthsFit(f, m) ==
  CASE f = "unified" -> m.cid_present => Len(m.cid) = CidLen
    [] f = "record"  -> Len(m.payload) < 65536
    [] f = "peer_client_hello" ->
         Len(m.sid) < 256 /\ Len(m.cookie) < 256 /\ Len(PeerClientHello(m)) < 65536
    [] f = "peer_server_hello" -> Len(m.sid) < 256 /\ Len(PeerServerHello(m)) < 65536
    [] f = "x509" -> SignatureSerialize(m).ok /\ Len(IssuedCertificate(m)) < 256
    [] OTHER -> TRUE

\* The library's own buffers are smaller than a datagram can be.
ASSUME LengthAssumption ==
  BufCap < 65536 /\ \A f \in DOMAIN Sample : \A m \in Sample[f] : LengthsFit(f, m)

\* What an undamaged message should come out as
Meaning(f, m) ==
  CASE f = "record" -> [cid_present |-> FALSE, cid |-> <<>>, seq16 |-> TRUE, len_present |-> TRUE,
                        epoch |-> m.epoch % 4, seq |-> m.seq % 65536, payload |-> m.payload]
                         @@ [ok |-> TRUE]
    [] f = "unified" -> [m EXCEPT !.epoch = @ % 4] @@ [ok |-> TRUE]
    [] f = "peer_client_hello" -> ClientHelloMeaning(m)
    [] f = "peer_server_hello" -> ServerHelloMeaning(m)
    [] f = "server_hello" -> m @@ [ok |-> TRUE, suite |-> Suite]
    [] f = "x509" -> CertificateMeaning(m)
    [] OTHER -> m @@ [ok |-> TRUE]

-----------------------------------------------------------------------------
WireInit ==
  format = Idle /\ sent = Pending /\ wire = <<>> /\ damage = 0 /\ got = Pending

Send(f, m) ==
  /\ format = Idle
  /\ Serialize(f, m).ok
  /\ format' = f /\ sent' = m /\ wire' = Serialize(f, m).bytes
  /\ UNCHANGED <<damage, got>>

\* The serializer refuses: a field out of its range, or too little room.
SendRefused(f, m) ==
  /\ format = Idle
  /\ ~Serialize(f, m).ok
  /\ UNCHANGED wireVars

Damaged(b) ==
  /\ format # Idle /\ got = Pending /\ damage < MaxDamage[format]
  /\ wire' = b /\ damage' = damage + 1
  /\ UNCHANGED <<format, sent, got>>

Truncate(k) == k < Len(wire) /\ Damaged(SubSeq(wire, 1, k))
Overwrite(i, x) == wire[i] # x /\ Damaged([wire EXCEPT ![i] = x])
Extend(x) == Damaged(Append(wire, x))

\* A DER value that nobody wrote, byte after byte
Grow(x) ==
  /\ format = "der" /\ got = Pending /\ Len(wire) < MaxNoise
  /\ wire' = Append(wire, x)
  /\ UNCHANGED <<format, sent, damage, got>>

Receive ==
  /\ format # Idle /\ got = Pending
  /\ got' = Parse(format, wire)
  /\ UNCHANGED <<format, sent, wire, damage>>

\* The next message
Done ==
  /\ got # Pending
  /\ format' = Idle /\ sent' = Pending /\ wire' = <<>> /\ damage' = 0 /\ got' = Pending

WireNext ==
  \/ \E f \in DOMAIN Sample : \E m \in Sample[f] : Send(f, m) \/ SendRefused(f, m)
  \/ \E k \in 0 .. Len(wire) : Truncate(k)
  \/ \E i \in 1 .. Len(wire), x \in NoiseByte : Overwrite(i, x)
  \/ \E x \in NoiseByte : Extend(x) \/ Grow(x)
  \/ Receive
  \/ Done

WireSpec == WireInit /\ [][WireNext]_wireVars

-----------------------------------------------------------------------------
Received == got # Pending
Accepted == Received /\ format # "der" /\ got.ok

\* An undamaged message comes out of the parser as what it says: what a
\* serializer wrote is read back, other implementations' hellos with unknown,
\* repeated or reordered extensions are understood or refused on their
\* merits, and a certificate has the fields its issuer signed, whatever
\* optional parts surround them.
RoundTrip ==
  (Received /\ damage = 0 /\ format # "der") => got = Meaning(format, sent)

\* Part of a message is never taken for a message: r_view and the length
\* checks refuse every strict prefix, except of a record without a length
\* field, whose payload by definition is what there is.
NoPartialMessage ==
  (Accepted /\ IsStrictPrefix(wire, Serialize(format, sent).bytes)) =>
    format = "unified" /\ ~got.len_present

\* Whatever bytes arrive, a header, an ACK or a CertificateVerify that is
\* accepted is the only encoding of what the parser returned: serializing
\* that again, with room for as many bytes as arrived, gives back the bytes
\* consumed, and for the messages that must fill their buffer, all of them.
\* In particular the header that write_fixed_shape_header assembles is
\* nd_unified_serialize's.
Canonical ==
  (Accepted /\ format \in DOMAIN Fields /\ Len(wire) <= BufCap) =>
    LET again == Serialize(IF format = "record" THEN "unified" ELSE format, got)
    IN  /\ again.ok /\ IsPrefix(again.bytes, wire)
        /\ format \in {"ack", "verify"} => again.bytes = wire

\* Whatever bytes the DER reader is given, the elements it returns follow one
\* another without a gap and lie inside the buffer, at the limits of size_t
\* too.
ElementsTile ==
  (Received /\ format = "der") =>
    LET t == got.tlvs
    IN  \A i \in 1 .. Len(t) :
          /\ t[i].start = (IF i = 1 THEN 0 ELSE t[i-1].start + t[i-1].header + t[i-1].len)
          /\ t[i].start + t[i].header + t[i].len <= Len(wire)
=============================================================================
