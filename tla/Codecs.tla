------------------------------- MODULE Codecs -------------------------------
(***************************************************************************)
(* The wire formats: DTLSPlaintext and unified record headers and ACK      *)
(* (src/record.c, src/record_protect.c, src/ack.c), the handshake header,  *)
(* the hellos, EncryptedExtensions, Certificate and CertificateVerify      *)
(* (src/handshake/).  Bytes are 0 .. 255 and every fixed field has its     *)
(* width, except the blobs and counters whose width is a constant below.   *)
(*                                                                         *)
(* A parser returns a record with ok = TRUE, or Rejected: which error code *)
(* it gives is left out.                                                   *)
(***************************************************************************)
EXTENDS Integers, SequencesExt, FiniteSetsExt

CONSTANTS
  RandomLen,  \* ND_RANDOM_LEN
  KeyLen,     \* ND_X25519_LEN
  SeqLen,     \* bytes of DTLSPlaintext.sequence_number (6)
  NumberLen,  \* bytes of each half of a RecordNumber (8)
  MaxAcks,    \* ND_ACK_MAX_RECORDS
  MaxCerts,   \* ND_CERTIFICATE_MSG_MAX_CERTS
  BufCap      \* out_buf_cap, the room the caller gives a serializer

ASSUME CodecAssumption ==
  /\ {RandomLen, KeyLen, SeqLen, NumberLen, MaxCerts} \subseteq Nat \ {0}
  /\ {MaxAcks, BufCap} \subseteq Nat

Rejected == [ok |-> FALSE]

\* v shifted to the right by n bytes
Shifted(n, v) ==
  LET shift[k \in 0 .. n] == IF k = 0 THEN v ELSE shift[k - 1] \div 256
  IN  shift[n]

\* Does v take more than n bytes?
Exceeds(n, v) == Shifted(n, v) # 0

\* put_u64 and the shifts: n bytes, most significant first
Put(n, v) == [i \in 1 .. n |-> Shifted(n - i, v) % 256]

Get(b) ==
  LET v[k \in 0 .. Len(b)] == IF k = 0 THEN 0 ELSE 256 * v[k - 1] + b[k]
  IN  v[Len(b)]

\* w_reserve and w_patch: a body behind its length, in n bytes
Prefixed(n, body) == Put(n, Len(body)) \o body

\* The writer: overflow is sticky, so all of the bytes fit or none count.
Written(b) == IF Len(b) <= BufCap THEN [ok |-> TRUE, bytes |-> b] ELSE Rejected

\* How many bytes a field takes.  A field of a shape is n > 0 for n bytes
\* (r_u8, r_u16, r_bytes), or -n for a vector behind its n-byte length.
\* The faulty form takes a length that is not there for zero.
NeedsOptional(n, rest) ==
  IF n > 0 THEN n
  ELSE IF Len(rest) < -n THEN 0
  ELSE Get(SubSeq(rest, 1, -n)) - n

Needs(n, rest) ==
  IF n > 0 THEN n
  ELSE IF Len(rest) < -n THEN -n
  ELSE Get(SubSeq(rest, 1, -n)) - n

\* One field, of need bytes
Field(r, n, need) ==
  IF need > Len(r.rest) THEN Rejected
  ELSE [ok   |-> TRUE,
        rest |-> SubSeq(r.rest, need + 1, Len(r.rest)),
        val  |-> Append(r.val, SubSeq(r.rest, IF n > 0 THEN 1 ELSE 1 - n, need))]

\* The reader: r_bytes, r_skip and r_view, field after field
Read(shape, b) ==
  LET after[k \in 0 .. Len(shape)] ==
        IF k = 0 THEN [ok |-> TRUE, rest |-> b, val |-> <<>>]
        ELSE LET r == after[k - 1]
             IN  IF r.ok THEN Field(r, shape[k], Needs(shape[k], r.rest)) ELSE Rejected
  IN  after[Len(shape)]

\* The entry e behind the entries p
NextEntry(p, e) ==
  IF e.ok THEN [ok |-> TRUE, rest |-> e.rest, val |-> Append(p.val, e.val)]
  ELSE [p EXCEPT !.ok = FALSE]

\* while (r.pos < r.len): entries until the buffer is used up.  After a
\* malformed one ok is FALSE and val holds the entries before it.  An entry
\* has two bytes or more.
Entries(shape, b) ==
  LET after[k \in 0 .. (Len(b) + 1) \div 2] ==
        IF k = 0 THEN [ok |-> TRUE, rest |-> b, val |-> <<>>]
        ELSE LET p == after[k - 1]
             IN  IF ~p.ok \/ p.rest = <<>> THEN p ELSE NextEntry(p, Read(shape, p.rest))
  IN  after[(Len(b) + 1) \div 2]

\* Bytes past the end of the message are refused; the faulty form does not
\* look at them.
RestIgnored(r) == r.ok

FillsBuffer(r) == r.ok /\ r.rest = <<>>

-----------------------------------------------------------------------------
\* nd_plaintext_parse, nd_plaintext_serialize
Plaintext(r) ==
  IF r.ok THEN [ok |-> TRUE, type |-> Get(r.val[1]), version |-> Get(r.val[2]),
                epoch |-> Get(r.val[3]), seq |-> Get(r.val[4]), fragment |-> r.val[5]]
  ELSE Rejected

PlaintextParse(b) == Plaintext(Read(<<1, 2, 2, SeqLen, -2>>, b))

PlaintextSerialize(h) ==
  IF Exceeds(SeqLen, h.seq) \/ Exceeds(2, Len(h.fragment)) THEN Rejected
  ELSE Written(Put(1, h.type) \o Put(2, h.version) \o Put(2, h.epoch)
                 \o Put(SeqLen, h.seq) \o Prefixed(2, h.fragment))

\* nd_handshake_parse, nd_handshake_serialize
HandshakeFields(r) ==
  IF r.ok THEN [ok |-> TRUE, msg_type |-> Get(r.val[1]), length |-> Get(r.val[2]),
                message_seq |-> Get(r.val[3]), offset |-> Get(r.val[4]),
                fragment |-> r.val[5]]
  ELSE Rejected

HandshakeParse(b) == HandshakeFields(Read(<<1, 3, 2, 3, -3>>, b))

HandshakeSerialize(h) ==
  IF Exceeds(3, h.length) \/ Exceeds(3, h.offset) \/ Exceeds(3, Len(h.fragment)) THEN Rejected
  ELSE Written(Put(1, h.msg_type) \o Put(3, h.length) \o Put(2, h.message_seq)
                 \o Put(3, h.offset) \o Prefixed(3, h.fragment))

-----------------------------------------------------------------------------
\* The first byte of a unified header, 001CSLEE
FixedBits == 32
CidBit == 16
SeqBit == 8
LenBit == 4
EpochMask == 3
EpochBits(e) == e % (EpochMask + 1)
Bit(b0, bit) == (b0 \div bit) % 2 = 1
Flag(set, bit) == IF set THEN bit ELSE 0

UnifiedShape(h, cid_len) ==
  <<1>> \o (IF h.cid_present THEN <<cid_len>> ELSE <<>>)
        \o <<IF h.seq16 THEN 2 ELSE 1>>
        \o (IF h.len_present THEN <<-2>> ELSE <<>>)

\* What the bits of the first byte say
UnifiedFlags(b0) ==
  [cid_present |-> Bit(b0, CidBit), seq16 |-> Bit(b0, SeqBit), len_present |-> Bit(b0, LenBit),
   epoch |-> EpochBits(b0)]

\* The fields r of a header with the flags h; the n-th is the sequence number.
UnifiedFields(h, r, n) ==
  IF ~r.ok THEN Rejected
  ELSE [ok |-> TRUE, cid_present |-> h.cid_present, seq16 |-> h.seq16,
        len_present |-> h.len_present, epoch |-> h.epoch,
        cid |-> IF h.cid_present THEN r.val[2] ELSE <<>>,
        seq |-> Get(r.val[n]),
        payload |-> IF h.len_present THEN r.val[n + 1]
                    ELSE SubSeq(r.rest, 1, Len(r.rest) % 65536)]

UnifiedRest(h, b, cid_len) ==
  IF h.cid_present /\ cid_len = 0 THEN Rejected
  ELSE UnifiedFields(h, Read(UnifiedShape(h, cid_len), b), IF h.cid_present THEN 3 ELSE 2)

\* nd_unified_parse: the length of the connection ID is agreed out of band;
\* without a length field the payload runs to the end of the datagram.
UnifiedParse(b, cid_len) ==
  IF Len(b) < 1 \/ b[1] \div FixedBits # 1 THEN Rejected
  ELSE UnifiedRest(UnifiedFlags(b[1]), b, cid_len)

\* nd_unified_serialize
UnifiedSerialize(h) ==
  IF \/ h.cid_present /\ Len(h.cid) = 0
     \/ ~h.seq16 /\ Exceeds(1, h.seq)
     \/ h.len_present /\ Exceeds(2, Len(h.payload))
  THEN Rejected
  ELSE Written(<<FixedBits + Flag(h.cid_present, CidBit) + Flag(h.seq16, SeqBit)
                   + Flag(h.len_present, LenBit) + EpochBits(h.epoch)>>
                 \o (IF h.cid_present THEN h.cid ELSE <<>>)
                 \o Put(IF h.seq16 THEN 2 ELSE 1, h.seq)
                 \o (IF h.len_present THEN Put(2, Len(h.payload)) ELSE <<>>) \o h.payload)

\* write_fixed_shape_header
FixedShapeHeader(epoch_low2, seq16, length) ==
  <<FixedBits + SeqBit + LenBit + EpochBits(epoch_low2)>>
     \o Put(2, seq16) \o Put(2, length)

-----------------------------------------------------------------------------
\* nd_ack_serialize, nd_ack_parse: a list of <<epoch, sequence_number>>
AckSerialize(records) ==
  IF Len(records) > MaxAcks THEN Rejected
  ELSE Written(Prefixed(2, FlattenSeq([i \in 1 .. Len(records) |->
                 Put(NumberLen, records[i][1]) \o Put(NumberLen, records[i][2])])))

AckRecords(e) ==
  IF ~e.ok \/ Len(e.val) > MaxAcks THEN Rejected
  ELSE [ok |-> TRUE,
        records |-> [i \in 1 .. Len(e.val) |-> <<Get(e.val[i][1]), Get(e.val[i][2])>>]]

AckList(r) ==
  IF FillsBuffer(r) THEN AckRecords(Entries(<<NumberLen, NumberLen>>, r.val[1])) ELSE Rejected

AckParse(b) == AckList(Read(<<-2>>, b))

-----------------------------------------------------------------------------
\* Code points
V12 == \hFEFD           \* ND_DTLS_1_2_LEGACY_VERSION
V13 == \hFEFC           \* ND_DTLS_1_3_VERSION
Suite == \h1303         \* ND_CIPHER_SUITE_CHACHA20_POLY1305_SHA256
GroupX25519 == \h1D     \* ND_NAMED_GROUP_X25519
SupportedVersions == 43
SupportedGroups == 10
KeyShare == 51
SignatureAlgorithms == 13

Ext(type, data) == Put(2, type) \o Prefixed(2, data)
ShareEntry(group, key) == Put(2, group) \o Prefixed(2, key)

\* nd_client_hello_serialize
ClientHelloSerialize(h) ==
  Written(Put(2, V12) \o h.random \o Prefixed(1, <<>>) \o Prefixed(1, <<>>)
            \o Prefixed(2, Put(2, Suite)) \o Prefixed(1, <<0>>)
            \o Prefixed(2, Ext(SupportedVersions, Prefixed(1, Put(2, V13)))
                 \o Ext(SupportedGroups, Prefixed(2, Put(2, GroupX25519)))
                 \o Ext(KeyShare, Prefixed(2, ShareEntry(GroupX25519, h.key)))
                 \o Ext(SignatureAlgorithms,
                        Prefixed(2, Put(2, \h0403) \o Put(2, \h0804) \o Put(2, \h0807)))))

\* nd_server_hello_serialize: neither extension has a list around it.
ServerHelloSerialize(h) ==
  Written(Put(2, V12) \o h.random \o Prefixed(1, <<>>) \o Put(2, Suite) \o <<0>>
            \o Prefixed(2, Ext(SupportedVersions, Put(2, V13))
                             \o Ext(KeyShare, ShareEntry(GroupX25519, h.key))))

\* A faulty scan: it goes on to the last extension of the type.
LastHit(hits) == Max(hits)

\* The scan returns at the first extension of the type.
FirstHit(hits) == Min(hits)

\* find_extension: the first one of the type, if what precedes it is well
\* formed; what follows it is not looked at.
Found(e, hits) == IF hits = {} THEN Rejected ELSE [ok |-> TRUE, data |-> e[FirstHit(hits)][2]]

FindAmong(e, want) == Found(e, {i \in 1 .. Len(e) : Get(e[i][1]) = want})

FindExtension(block, want) == FindAmong(Entries(<<2, -2>>, block).val, want)

\* A share k behind the fields r of a ServerHello
ServerHello(r, k) ==
  IF k.ok /\ Get(k.val[1]) = GroupX25519 /\ Len(k.val[2]) = KeyLen
  THEN [ok |-> TRUE, random |-> r.val[2], suite |-> Get(r.val[4]), key |-> k.val[2]]
  ELSE Rejected

ServerHelloExtensions(r, sv, ks) ==
  IF sv.ok /\ Len(sv.data) = 2 /\ Get(sv.data) = V13 /\ ks.ok
  THEN ServerHello(r, Read(<<2, -2>>, ks.data))
  ELSE Rejected

ServerHelloFields(r) ==
  IF ~r.ok THEN Rejected
  ELSE ServerHelloExtensions(r, FindExtension(r.val[6], SupportedVersions),
                             FindExtension(r.val[6], KeyShare))

\* nd_server_hello_parse
ServerHelloParse(b) == ServerHelloFields(Read(<<2, RandomLen, -1, 2, 1, -2>>, b))

\* ClientHello's supported_versions: a list behind its length in bytes
OffersV13(sv) ==
  /\ Len(sv) >= 1 /\ sv[1] + 1 = Len(sv) /\ sv[1] % 2 = 0
  /\ \E i \in 1 .. sv[1] \div 2 : Get(SubSeq(sv, 2 * i, 2 * i + 1)) = V13

\* The cipher suites cs of a ClientHello
OffersSuite(cs) == cs.ok /\ \E i \in 1 .. Len(cs.val) : Get(cs.val[i][1]) = Suite

\* Of several x25519 shares the last one is kept.
ClientHello(r, shares, hits) ==
  IF hits = {} THEN Rejected
  ELSE [ok |-> TRUE, random |-> r.val[2], key |-> shares[Max(hits)][2]]

ClientHelloShares(r, e) ==
  IF ~e.ok THEN Rejected
  ELSE ClientHello(r, e.val, {i \in 1 .. Len(e.val) :
                                Get(e.val[i][1]) = GroupX25519 /\ Len(e.val[i][2]) = KeyLen})

ClientHelloShareList(r, list) ==
  IF list.ok THEN ClientHelloShares(r, Entries(<<2, -2>>, list.val[1])) ELSE Rejected

ClientHelloExtensions(r, sv, ks) ==
  IF sv.ok /\ OffersV13(sv.data) /\ ks.ok
  THEN ClientHelloShareList(r, Read(<<-2>>, ks.data))
  ELSE Rejected

ClientHelloFields(r) ==
  IF r.ok /\ OffersSuite(Entries(<<2>>, r.val[5]))
  THEN ClientHelloExtensions(r, FindExtension(r.val[7], SupportedVersions),
                             FindExtension(r.val[7], KeyShare))
  ELSE Rejected

\* nd_client_hello_parse
ClientHelloParse(b) == ClientHelloFields(Read(<<2, RandomLen, -1, -1, -2, -1, -2>>, b))

-----------------------------------------------------------------------------
\* nd_encrypted_extensions_serialize, nd_encrypted_extensions_parse
EncryptedExtensionsSerialize == Written(Put(2, 0))

EncryptedExtensionsParse(b) ==
  IF FillsBuffer(Read(<<-2>>, b)) THEN [ok |-> TRUE] ELSE Rejected

\* nd_certificate_serialize: an empty context and no extensions per entry
CertificateSerialize(certs) ==
  IF Len(certs) \notin 1 .. MaxCerts THEN Rejected
  ELSE Written(Prefixed(1, <<>>)
                 \o Prefixed(3, FlattenSeq([i \in 1 .. Len(certs) |->
                                  Prefixed(3, certs[i]) \o Prefixed(2, <<>>)])))

\* nd_certificate_parse: contexts and extensions are skipped.
CertificateList(e) ==
  IF ~e.ok \/ Len(e.val) \notin 1 .. MaxCerts THEN Rejected
  ELSE [ok |-> TRUE, certs |-> [i \in 1 .. Len(e.val) |-> e.val[i][1]]]

CertificateFields(r) ==
  IF r.ok THEN CertificateList(Entries(<<-3, -2>>, r.val[2])) ELSE Rejected

CertificateParse(b) == CertificateFields(Read(<<-1, -3>>, b))

\* The body that nd_server_handshake writes
CertificateVerifySerialize(m) == Written(Put(2, m.algorithm) \o Prefixed(2, m.signature))

\* nd_certificate_verify_parse
CertificateVerifyFields(r) ==
  IF FillsBuffer(r)
  THEN [ok |-> TRUE, algorithm |-> Get(r.val[1]), signature |-> r.val[2]]
  ELSE Rejected

CertificateVerifyParse(b) == CertificateVerifyFields(Read(<<2, -2>>, b))
=============================================================================
