----------------------------- MODULE X509Chain -----------------------------
(***************************************************************************)
(* Certificates and the verification of their chains (src/x509/x509.c).    *)
(* Key holders issue certificates to one another, each for any name, under *)
(* any issuer name and with any extensions; the model asks of every chain  *)
(* that can be put together from them what nd_x509_verify_chain answers,   *)
(* and compares it with the delegation of authority from the trust anchor. *)
(* ECDSA is ideal: a signature verifies under its signer's key only.       *)
(***************************************************************************)
EXTENDS Integers, Sequences, FiniteSets

CONSTANTS
  Name,        \* subject and issuer names, compared by their DER bytes
  Key,         \* P-256 key pairs
  Year,        \* years a validity may begin or end in, 1950 to 9999
  AtTime,      \* the years that a chain is verified at
  RootName, RootKey, RootValidity,   \* the trust anchor
  Issuable,    \* the certificates that may be issued
  MaxIssued,   \* bound on the certificates issued
  MaxChain     \* the longest chain presented

\* basicConstraints: no extension, an empty SEQUENCE, or cA TRUE.
Constraints == {"absent", "empty", "ca"}

Certificates ==
  [subject : Name, key : Key, issuer : Name, signer : Key,
   basic : Constraints, validity : [nb : Year, na : Year]]

ASSUME X509Assumption ==
  /\ RootName \in Name /\ RootKey \in Key
  /\ Year \subseteq 1950 .. 9999
  /\ RootValidity \in [nb : Year, na : Year]
  /\ Issuable \subseteq Certificates
  /\ MaxIssued \in Nat /\ MaxChain \in Nat \ {0}

VARIABLE issued   \* every certificate signed so far

Anchor ==
  [subject |-> RootName, key |-> RootKey, issuer |-> RootName, signer |-> RootKey,
   basic |-> "ca", validity |-> RootValidity]

-----------------------------------------------------------------------------
(* Parsing: what nd_x509_parse makes of a certificate.                     *)

\* How an issuer writes a time (RFC 5280): UTCTime with two digits of the
\* year before 2050, GeneralizedTime with four from then on.
Encoded(year) ==
  IF year < 2050 THEN [tag |-> "utc", digits |-> year % 100]
                 ELSE [tag |-> "generalized", digits |-> year]

\* The pivot of the two-digit year is off by one.
ParseTimePivot(time) ==
  IF time.tag = "utc"
  THEN (IF time.digits > 50 THEN 1900 ELSE 2000) + time.digits
  ELSE time.digits

\* parse_time; the fields below the year are left out.
ParseTime(time) ==
  IF time.tag = "utc"
  THEN (IF time.digits >= 50 THEN 1900 ELSE 2000) + time.digits
  ELSE time.digits

\* Any basicConstraints makes a certificate authority.
IsCaIfPresent(cert) == cert.basic # "absent"

\* scan_extensions: cA must be there and TRUE.
IsCa(cert) == cert.basic = "ca"

\* nd_x509_verify_signature
VerifySignature(cert, key) == cert.signer = key

-----------------------------------------------------------------------------
InValidity(cert, at) ==
  ParseTime(Encoded(cert.validity.nb)) <= at /\ at <= ParseTime(Encoded(cert.validity.na))

\* The certificate that must have signed chain[i].
IssuerOf(chain, i) == IF i < Len(chain) THEN chain[i + 1] ELSE Anchor

\* Only the trust anchor has to be an authority.
VerifyLinkAnyIssuer(cert, issuer) ==
  /\ cert.issuer = issuer.subject
  /\ issuer = Anchor => IsCa(issuer)
  /\ VerifySignature(cert, issuer.key)

VerifyLink(cert, issuer) ==
  /\ cert.issuer = issuer.subject
  /\ IsCa(issuer)
  /\ VerifySignature(cert, issuer.key)

\* nd_x509_verify_chain
VerifyChain(chain, at) ==
  /\ chain # << >>
  /\ InValidity(Anchor, at)
  /\ \A i \in 1 .. Len(chain) : InValidity(chain[i], at)
  /\ \A i \in 1 .. Len(chain) : VerifyLink(chain[i], IssuerOf(chain, i))

-----------------------------------------------------------------------------
Init == issued = {}

\* A key holder signs a certificate.
Issue(cert) ==
  /\ Cardinality(issued) < MaxIssued
  /\ issued' = issued \cup {cert}

\* Nobody signs any more.
Finished ==
  /\ Cardinality(issued) = MaxIssued
  /\ UNCHANGED issued

Next == (\E cert \in Issuable : Issue(cert)) \/ Finished

Spec == Init /\ [][Next]_issued

-----------------------------------------------------------------------------
(* The reference: delegation of authority, with real years.                *)

Current(cert, at) == cert.validity.nb <= at /\ at <= cert.validity.na

\* The certificates that pass authority on from the (name, key) pairs auth.
Delegations(certs, auth, at) ==
  {cert \in certs : /\ cert.basic = "ca" /\ Current(cert, at)
                    /\ <<cert.issuer, cert.signer>> \in auth}

\* The pairs that hold authority from the anchor at a time, by the given
\* certificates, through n delegations or fewer.
Authorities(certs, at) ==
  LET auth[n \in 0 .. MaxChain] ==
        IF n = 0 THEN {<<RootName, RootKey>>}
        ELSE auth[n - 1] \cup
               {<<cert.subject, cert.key>> : cert \in Delegations(certs, auth[n - 1], at)}
  IN  auth

\* The certificates an authority has vouched for, within the chain length.
Vouched(certs, at) ==
  {cert \in certs : /\ Current(Anchor, at) /\ Current(cert, at)
                    /\ <<cert.issuer, cert.signer>> \in Authorities(certs, at)[MaxChain - 1]}

Chains(certs) == UNION {[1 .. n -> certs] : n \in 1 .. MaxChain}

\* The leaves of the chains that nd_x509_verify_chain accepts.
Accepted(certs, at) == {chain[1] : chain \in {x \in Chains(certs) : VerifyChain(x, at)}}

\* A leaf is accepted, with some chain, only if an authority vouched for it:
\* whoever holds a certificate without cA TRUE, or an expired one, cannot
\* pass authority on, whatever it signs (x509.h: "for every signer ... is_ca
\* set").
AcceptedIsVouched == \A at \in AtTime : Accepted(issued, at) \subseteq Vouched(issued, at)

\* Every leaf that an authority vouched for is accepted with a chain of at
\* most MaxChain certificates, on either side of the UTCTime pivot.
VouchedIsAccepted == \A at \in AtTime : Vouched(issued, at) \subseteq Accepted(issued, at)

\* A key without authority changes nothing for anyone else: what it signs
\* makes no certificate acceptable, neither its own nor an earlier one.
OnlyAuthoritiesExtendTrust ==
  [][\A at \in AtTime :
       Accepted(issued', at) # Accepted(issued, at) =>
         \E cert \in issued' \ issued :
           <<cert.issuer, cert.signer>> \in Authorities(issued, at)[MaxChain]]_issued
=============================================================================
