----------------------------- MODULE X509Parse -----------------------------
(***************************************************************************)
(* nd_x509_parse (src/x509/x509.c): what becomes of the DER bytes of a     *)
(* certificate.  Object identifiers are abbreviated to one byte.           *)
(***************************************************************************)
EXTENDS Der

CONSTANT OnCurve   \* the public keys, as bytes, that nd_p256_point_is_valid takes

BOOLEAN_TAG == 1
OCTETS == 4        \* ND_ASN1_TAG_OCTET_STRING
OID == 6           \* ND_ASN1_TAG_OID
UTCTIME == 23      \* ND_ASN1_TAG_UTC_TIME
GENTIME == 24      \* ND_ASN1_TAG_GENERALIZED_TIME
CTX(n) == 160 + n  \* ND_ASN1_TAG_CTX

OidEcdsaSha256 == <<2>>
OidEcPublicKey == <<1>>
OidPrime256v1 == <<7>>
OidBasicConstraints == <<19>>

\* oid_eq: this element is this object identifier.
IsOid(t, oid) == t.tag = OID /\ t.value = oid

\* The algorithm identifier e starts with it.
StartsWithOid(e, oid) == Len(e) >= 1 /\ IsOid(e[1], oid)

\* A UTCTime's two digits
FullYear(yy) == IF yy >= 50 THEN 1900 + yy ELSE 2000 + yy

\* parse_time: the year, and the digits from the month to the second
TimeParse(t) ==
  LET v == t.value
      digits == IF t.tag = UTCTIME THEN 12 ELSE 14
      num(i, j) == FoldLeft(LAMBDA n, x : 10 * n + x - 48, 0, SubSeq(v, i, j))
  IN  IF \/ t.tag \notin {UTCTIME, GENTIME}
         \/ Len(v) # digits + 1 \/ v[digits + 1] # 90
         \/ \E i \in 1 .. digits : v[i] \notin 48 .. 57
      THEN Rejected
      ELSE [ok |-> TRUE,
            time |-> <<IF t.tag = GENTIME THEN num(1, 4) ELSE FullYear(num(1, 2)),
                       SubSeq(v, digits - 9, digits)>>]

-----------------------------------------------------------------------------
\* The elements x of an extension; basicConstraints' OCTET STRING comes
\* second, or third behind a critical flag.
BasicField(x) == IF Len(x) >= 2 /\ x[2].tag = BOOLEAN_TAG THEN 3 ELSE 2

\* cA: the first element of a SEQUENCE that is not empty
Ca(e) == [ok    |-> Len(e) >= 1,
          is_ca |-> Len(e) >= 1 /\ e[1].tag = BOOLEAN_TAG /\ e[1].len = 1 /\ e[1].value # <<0>>]

NoCa == [ok |-> TRUE, is_ca |-> FALSE]

BasicConstraints(bc) ==
  IF ~bc.ok THEN Rejected
  ELSE IF bc.tag = SEQUENCE /\ bc.len > 0 THEN Ca(Elements(bc.value).tlvs)
  ELSE NoCa

\* One round of the loop of scan_extensions
ScanExtension(x, f) ==
  IF x = <<>> THEN Rejected
  ELSE IF ~IsOid(x[1], OidBasicConstraints) THEN NoCa
  ELSE IF Len(x) < f \/ x[f].tag # OCTETS THEN Rejected
  ELSE BasicConstraints(TlvParse(x[f].value))

ScanElement(t) ==
  IF t.tag # SEQUENCE THEN Rejected
  ELSE LET x == Elements(t.value).tlvs IN ScanExtension(x, BasicField(x))

\* is_ca when one of the rounds says so
AllScanned(scans) ==
  IF \A k \in DOMAIN scans : scans[k].ok
  THEN [ok |-> TRUE, is_ca |-> \E k \in DOMAIN scans : scans[k].is_ca]
  ELSE Rejected

ScanAll(e) ==
  IF e.ok THEN AllScanned([k \in 1 .. Len(e.tlvs) |-> ScanElement(e.tlvs[k])]) ELSE Rejected

ScanSequence(t) ==
  IF t.ok /\ t.tag = SEQUENCE THEN ScanAll(Elements(t.value)) ELSE Rejected

\* scan_extensions
ScanExtensions(o) == ScanSequence(TlvParse(o))

-----------------------------------------------------------------------------
\* The signature value: a BIT STRING around the DER signature
CertSignature(bits) == IF bits.ok THEN SignatureParse(bits.out) ELSE Rejected

\* The subjectPublicKey: an uncompressed point of the curve
PointOf(bits) ==
  IF /\ bits.ok
     /\ Len(bits.out) = 1 + 2 * ScalarLen /\ bits.out[1] = 4
     /\ Tail(bits.out) \in OnCurve
  THEN [ok |-> TRUE, key |-> Tail(bits.out)]
  ELSE Rejected

IsP256(alg) == StartsWithOid(alg, OidEcPublicKey) /\ Len(alg) >= 2 /\ IsOid(alg[2], OidPrime256v1)

\* The elements of SubjectPublicKeyInfo
PublicKey(spki) ==
  IF Len(spki) >= 2 /\ IsP256(Elements(spki[1].value).tlvs)
  THEN PointOf(ReadBitstring(spki[2]))
  ELSE Rejected

\* notBefore and notAfter
Validity(e) ==
  IF Len(e) < 2 THEN Rejected
  ELSE LET times == [k \in 1 .. 2 |-> TimeParse(e[k])]
       IN  IF times[1].ok /\ times[2].ok
           THEN [ok |-> TRUE, not_before |-> times[1].time, not_after |-> times[2].time]
           ELSE Rejected

\* Whatever follows the public key is looked through for [3].
Extensions(tbs, from) ==
  IF ~tbs.ok THEN Rejected
  ELSE AllScanned([k \in {j \in from .. Len(tbs.tlvs) : tbs.tlvs[j].tag = CTX(3)} |->
                     ScanExtensions(tbs.tlvs[k].value)])

\* An element with its header
Whole(b, t) == SubSeq(b, t.start + 1, t.start + t.header + t.len)

TbsFields(b, e, v, times, pk, exts) ==
  IF e[v + 1].tag = INTEGER /\ times.ok /\ pk.ok /\ exts.ok
  THEN [ok |-> TRUE, issuer |-> Whole(b, e[v + 3]), subject |-> Whole(b, e[v + 5]),
        not_before |-> times.not_before, not_after |-> times.not_after,
        key |-> pk.key, is_ca |-> exts.is_ca]
  ELSE Rejected

\* The fields of TBSCertificate follow v = 0 or 1 elements for the version.
TbsAfter(b, tbs, v) ==
  IF Len(tbs.tlvs) < v + 6 THEN Rejected
  ELSE TbsFields(b, tbs.tlvs, v, Validity(Elements(tbs.tlvs[v + 4].value).tlvs),
                 PublicKey(Elements(tbs.tlvs[v + 6].value).tlvs), Extensions(tbs, v + 7))

TbsParse(b, tbs) ==
  TbsAfter(b, tbs, IF tbs.tlvs # <<>> /\ tbs.tlvs[1].tag = CTX(0) THEN 1 ELSE 0)

Certificate(whole, tbs, sig) ==
  IF tbs.ok /\ sig.ok THEN tbs @@ [tbs |-> whole, r |-> sig.r, s |-> sig.s] ELSE Rejected

\* The elements e of the certificate b: TBSCertificate, algorithm, signature
CertificateOf(b, e) ==
  IF /\ Len(e) >= 3 /\ e[1].tag = SEQUENCE
     /\ StartsWithOid(Elements(e[2].value).tlvs, OidEcdsaSha256)
  THEN Certificate(Whole(b, e[1]), TbsParse(e[1].value, Elements(e[1].value)),
                   CertSignature(ReadBitstring(e[3])))
  ELSE Rejected

CertificateIn(t) ==
  IF t.ok /\ t.tag = SEQUENCE THEN CertificateOf(t.value, Elements(t.value).tlvs) ELSE Rejected

\* nd_x509_parse
X509Parse(b) == CertificateIn(TlvParse(b))
=============================================================================
