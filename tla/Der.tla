-------------------------------- MODULE Der --------------------------------
(***************************************************************************)
(* The ASN.1 DER reader and the ECDSA signature writer (src/x509/asn1.c).  *)
(* size_t has SizeLen bytes and wraps around; a scalar has ScalarLen bytes *)
(* (32 in the code).                                                       *)
(***************************************************************************)
EXTENDS Codecs

CONSTANTS
  SizeLen,    \* sizeof(size_t)
  SizeMod,    \* the range of size_t
  ScalarLen,  \* ND_P256_SCALAR_LEN
  SigCap      \* room for the DER signature (80 in nd_server_handshake)

ASSUME DerAssumption ==
  /\ {SizeLen, SizeMod, ScalarLen} \subseteq Nat \ {0} /\ SigCap \in Nat
  /\ SizeMod = 256 ^ SizeLen /\ 255 < SizeMod

INTEGER == 2       \* ND_ASN1_TAG_INTEGER
BITSTRING == 3     \* ND_ASN1_TAG_BIT_STRING
SEQUENCE == 48     \* ND_ASN1_TAG_SEQUENCE

\* size_t arithmetic
SizeT(n) == n % SizeMod

\* A faulty guard: none
NeverWraps(pos, len) == FALSE

\* The overflow guard
Wraps(pos, len) == SizeT(pos + len) < pos

\* A value of len bytes behind pos bytes of header: their sum must not wrap
\* around nor exceed the buffer.  value is what b holds of it: all, with these
\* guards.
TlvAt(b, pos, len) ==
  IF Wraps(pos, len) \/ SizeT(pos + len) > Len(b) THEN Rejected
  ELSE [ok |-> TRUE, tag |-> b[1], header |-> pos, len |-> len,
        value |-> SubSeq(b, pos + 1, Min({pos + len, Len(b)}))]

\* value_len, shifted in byte by byte
ValueLen(bytes) ==
  LET v[i \in 0 .. Len(bytes)] == IF i = 0 THEN 0 ELSE SizeT(256 * v[i - 1] + bytes[i])
  IN  v[Len(bytes)]

LongForm(b, nbytes) ==
  IF nbytes = 0 \/ nbytes > SizeLen \/ 2 + nbytes > Len(b) THEN Rejected
  ELSE TlvAt(b, 2 + nbytes, ValueLen(SubSeq(b, 3, 2 + nbytes)))

\* nd_asn1_parse_tlv: short and long form, no indefinite length, no
\* multi-byte tags
TlvParse(b) ==
  IF Len(b) < 2 \/ b[1] % 32 = 31 THEN Rejected
  ELSE IF b[2] < 128 THEN TlvAt(b, 2, b[2])
  ELSE LongForm(b, b[2] % 128)

\* nd_asn1_reader_next after p: the element t that starts at p.pos
NextElement(p, t) ==
  IF ~t.ok THEN [p EXCEPT !.ok = FALSE]
  ELSE [ok   |-> TRUE,
        pos  |-> SizeT(p.pos + t.header + t.len),
        tlvs |-> Append(p.tlvs, [ok |-> TRUE, start |-> p.pos, tag |-> t.tag,
                                 header |-> t.header, len |-> t.len, value |-> t.value])]

\* nd_asn1_reader_next until nd_asn1_reader_done: the elements of b, each
\* with the position it starts at.  A reader that stops before the end sees
\* the first ones of tlvs, whether or not ok.
Elements(b) ==
  LET after[k \in 0 .. (Len(b) + 1) \div 2] ==
        IF k = 0 THEN [ok |-> TRUE, pos |-> 0, tlvs |-> <<>>]
        ELSE LET p == after[k - 1]
             IN  IF ~p.ok \/ p.pos >= Len(b) THEN p
                 ELSE NextElement(p, TlvParse(SubSeq(b, p.pos + 1, Len(b))))
  IN  after[(Len(b) + 1) \div 2]

\* nd_asn1_read_uint_fixed: one leading zero byte is taken off, a value that
\* is too long or negative is refused, the rest is padded on the left.
ReadUintFixed(t) ==
  LET stripped == t.len > 1 /\ t.value[1] = 0
      p == IF stripped THEN Tail(t.value) ELSE t.value
  IN  IF \/ t.tag # INTEGER
         \/ t.len = 0
         \/ Len(p) > ScalarLen
         \/ ~stripped /\ p[1] >= 128
      THEN Rejected
      ELSE [ok |-> TRUE, out |-> [i \in 1 .. ScalarLen - Len(p) |-> 0] \o p]

\* nd_asn1_read_bitstring_bytes
ReadBitstring(t) ==
  IF t.tag # BITSTRING \/ t.len < 1 \/ t.value[1] # 0 THEN Rejected
  ELSE [ok |-> TRUE, out |-> Tail(t.value)]

SignaturePair(r, s) ==
  IF r.ok /\ s.ok THEN [ok |-> TRUE, r |-> r.out, s |-> s.out] ELSE Rejected

SignatureOf(e) ==
  IF Len(e) < 2 THEN Rejected ELSE SignaturePair(ReadUintFixed(e[1]), ReadUintFixed(e[2]))

\* The decoding of a signature in nd_certificate_verify_check: trailing
\* bytes, inside the SEQUENCE and after it, are not looked at.
SignatureIn(t) ==
  IF t.ok /\ t.tag = SEQUENCE THEN SignatureOf(Elements(t.value).tlvs) ELSE Rejected

SignatureParse(b) == SignatureIn(TlvParse(b))

-----------------------------------------------------------------------------
\* A set top bit would read as a negative number.
SignPad(n) == IF n[1] >= 128 THEN <<0>> \o n ELSE n

\* der_encode_uint32: the shortest form of a scalar
DerEncodeUint(v) ==
  LET start == Min({i \in 1 .. ScalarLen : i = ScalarLen \/ v[i] # 0})
      n     == SubSeq(v, start, ScalarLen)
      body  == SignPad(n)
  IN  <<INTEGER, Len(body)>> \o body

\* nd_asn1_write_ecdsa_sig_value
SignatureSerialize(m) ==
  LET body == DerEncodeUint(m.r) \o DerEncodeUint(m.s)
  IN  IF Len(body) > 127 \/ 2 + Len(body) > SigCap THEN Rejected
      ELSE [ok |-> TRUE, bytes |-> <<SEQUENCE, Len(body)>> \o body]
=============================================================================
