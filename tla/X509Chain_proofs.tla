-------------------------- MODULE X509Chain_proofs --------------------------
(***************************************************************************)
(* nd_x509_verify_chain accepts a leaf with some chain if and only if an   *)
(* authority has vouched for it, for every set of names, keys, years and   *)
(* certificates, and for every length of the chains.                       *)
(***************************************************************************)
EXTENDS X509Chain, NumberLemmas, SequenceTheorems

\* The (name, key) that a certificate says it was issued by.
Issuing(cert) == <<cert.issuer, cert.signer>>

\* One more delegation.
Extended(certs, auth, at) ==
  auth \cup {<<cert.subject, cert.key>> : cert \in Delegations(certs, auth, at)}

Typed == issued \subseteq Certificates

-----------------------------------------------------------------------------
(* Times.                                                                  *)

\* parse_time undoes the encoding of a year, on both sides of 2050 and on
\* both sides of the pivot of the two-digit year.
LEMMA ParseEncoded ==
  ASSUME NEW year \in Year
  PROVE  ParseTime(Encoded(year)) = year
<1>0. year \in 1950 .. 9999
  BY X509Assumption
<1>1. CASE year >= 2050
  BY <1>0, <1>1 DEF Encoded, ParseTime
<1>2. CASE year < 2050 /\ year >= 2000
  <2>1. year % 100 = year - 2000
    BY <1>0, <1>2
  <2>2. Encoded(year) = [tag |-> "utc", digits |-> year - 2000]
    BY <1>0, <1>2, <2>1 DEF Encoded
  <2> QED
    BY <1>0, <1>2, <2>2 DEF ParseTime
<1>3. CASE year < 2000
  <2>1. year % 100 = year - 1900
    BY <1>0, <1>3
  <2>2. Encoded(year) = [tag |-> "utc", digits |-> year - 1900]
    BY <1>0, <1>3, <2>1 DEF Encoded
  <2> QED
    BY <1>0, <1>3, <2>2 DEF ParseTime
<1> QED
  BY <1>0, <1>1, <1>2, <1>3

\* The validity as parsed is the validity as issued.
LEMMA ValidityExact ==
  ASSUME NEW cert \in Certificates, NEW at
  PROVE  InValidity(cert, at) <=> Current(cert, at)
<1>1. cert.validity \in [nb : Year, na : Year]
  BY DEF Certificates
<1>2. ASSUME NEW v \in [nb : Year, na : Year]
      PROVE  ParseTime(Encoded(v.nb)) = v.nb /\ ParseTime(Encoded(v.na)) = v.na
  <2>1. v.nb \in Year /\ v.na \in Year
    OBVIOUS
  <2> QED
    BY <2>1, ParseEncoded, Zenon
<1>3. /\ ParseTime(Encoded(cert.validity.nb)) = cert.validity.nb
      /\ ParseTime(Encoded(cert.validity.na)) = cert.validity.na
  BY <1>1, <1>2, Zenon
<1> QED
  BY <1>3 DEF InValidity, Current

LEMMA AnchorTyped == Anchor \in Certificates
  BY X509Assumption DEF Anchor, Certificates, Constraints

-----------------------------------------------------------------------------
(* Delegation.                                                             *)

\* The recursive definition of Authorities has a solution, so it is one.
LEMMA AuthoritiesDef ==
  ASSUME NEW certs, NEW at
  PROVE  Authorities(certs, at) =
           [n \in 0 .. MaxChain |->
              IF n = 0 THEN {<<RootName, RootKey>>}
              ELSE Extended(certs, Authorities(certs, at)[n - 1], at)]
<1> DEFINE Def(f, N) ==
      f = [n \in 0 .. N |-> IF n = 0 THEN {<<RootName, RootKey>>}
                            ELSE Extended(certs, f[n - 1], at)]
           S == {N \in 0 .. MaxChain : \E f : Def(f, N)}
<1>0. MaxChain \in Nat
  BY X509Assumption
<1>1. 0 \in S
  <2> DEFINE f == [n \in 0 .. 0 |-> {<<RootName, RootKey>>}]
  <2>1. Def(f, 0)
    OBVIOUS
  <2> HIDE DEF Def, f
  <2> QED
    BY <1>0, <2>1
<1>2. ASSUME NEW N \in 0 .. MaxChain - 1, N \in S PROVE N + 1 \in S
  <2>1. PICK f : Def(f, N)
    BY <1>2
  <2>2. \A k \in 0 .. N : f[k] = IF k = 0 THEN {<<RootName, RootKey>>}
                                 ELSE Extended(certs, f[k - 1], at)
    BY <2>1
  <2> DEFINE g == [n \in 0 .. N + 1 |-> IF n <= N THEN f[n] ELSE Extended(certs, f[N], at)]
             h == [n \in 0 .. N + 1 |-> IF n = 0 THEN {<<RootName, RootKey>>}
                                        ELSE Extended(certs, g[n - 1], at)]
  <2>3. ASSUME NEW n \in 0 .. N + 1 PROVE g[n] = h[n]
    <3>1. CASE n = 0
      BY <1>0, <2>1, <3>1
    <3>2. CASE n \in 1 .. N
      <4>1. g[n] = f[n] /\ g[n - 1] = f[n - 1]
        BY <1>0, <3>2
      <4> HIDE DEF g, h
      <4>2. f[n] = Extended(certs, f[n - 1], at)
        BY <1>0, <2>2, <3>2
      <4> QED
        BY <4>1, <4>2, <3>2 DEF h
    <3>3. CASE n = N + 1
      <4>1. g[n] = Extended(certs, f[N], at) /\ g[n - 1] = f[N] /\ n # 0
        BY <1>0, <3>3
      <4> QED
        BY <4>1
    <3> QED
      BY <1>0, <3>1, <3>2, <3>3
  <2>4. g = h
    BY <2>3
  <2>5. Def(g, N + 1)
    BY <2>4
  <2> HIDE DEF Def, g
  <2> QED
    BY <1>0, <2>5
<1>3. MaxChain \in S
  <2> HIDE DEF S
  <2>1. 0 .. MaxChain \subseteq S
    BY <1>0, <1>1, <1>2, BoundedInduction
  <2> QED
    BY <1>0, <2>1
<1>4. Authorities(certs, at) = CHOOSE f : Def(f, MaxChain)
  BY DEF Authorities, Extended
<1>5. \E f : Def(f, MaxChain)
  BY <1>3
<1> HIDE DEF Def
<1>6. Def(Authorities(certs, at), MaxChain)
  BY <1>4, <1>5
<1> QED
  BY <1>6 DEF Def

\* The anchor is an authority, and every delegation adds to them.
LEMMA AuthoritiesStep ==
  ASSUME NEW certs, NEW at
  PROVE  /\ Authorities(certs, at)[0] = {<<RootName, RootKey>>}
         /\ \A n \in 0 .. MaxChain - 1 :
              Authorities(certs, at)[n + 1] = Extended(certs, Authorities(certs, at)[n], at)
<1> DEFINE A == Authorities(certs, at)
<1>0. MaxChain \in Nat
  BY X509Assumption
<1>1. A = [n \in 0 .. MaxChain |-> IF n = 0 THEN {<<RootName, RootKey>>}
                                   ELSE Extended(certs, A[n - 1], at)]
  BY AuthoritiesDef
<1> HIDE DEF A
<1>2. A[0] = {<<RootName, RootKey>>}
  BY <1>0, <1>1
<1>3. ASSUME NEW n \in 0 .. MaxChain - 1 PROVE A[n + 1] = Extended(certs, A[n], at)
  <2>1. n + 1 \in 0 .. MaxChain /\ n + 1 # 0 /\ (n + 1) - 1 = n
    BY <1>0
  <2> QED
    BY <1>1, <2>1
<1> QED
  BY <1>2, <1>3 DEF A

\* Authority by fewer delegations is authority by more.
LEMMA AuthoritiesGrow ==
  ASSUME NEW certs, NEW at, NEW m \in 0 .. MaxChain, NEW n \in 0 .. m
  PROVE  Authorities(certs, at)[n] \subseteq Authorities(certs, at)[m]
<1> DEFINE A == Authorities(certs, at)
           S == {k \in 0 .. MaxChain : k >= n => A[n] \subseteq A[k]}
<1>0. MaxChain \in Nat
  BY X509Assumption
<1>1. 0 \in S
  BY <1>0
<1>2. ASSUME NEW k \in 0 .. MaxChain - 1, k \in S PROVE k + 1 \in S
  <2>1. A[k] \subseteq A[k + 1]
    BY AuthoritiesStep DEF Extended
  <2>2. k + 1 \in 0 .. MaxChain /\ (k + 1 >= n => k >= n \/ k + 1 = n)
    BY <1>0
  <2> HIDE DEF A
  <2> QED
    BY <1>2, <2>1, <2>2
<1> HIDE DEF S
<1>3. 0 .. MaxChain \subseteq S
  BY <1>0, <1>1, <1>2, BoundedInduction
<1>4. m \in S /\ m >= n
  BY <1>0, <1>3
<1> QED
  BY <1>4 DEF S

-----------------------------------------------------------------------------
(* Chains.                                                                 *)

LEMMA ChainLength ==
  ASSUME NEW certs, NEW n \in Nat, NEW chain \in [1 .. n -> certs]
  PROVE  Len(chain) = n /\ (n # 0 => chain # << >>)
<1>1. chain \in Seq(certs)
  BY SeqDef
<1>2. DOMAIN chain = 1 .. Len(chain) /\ Len(chain) \in Nat
  BY <1>1, LenProperties
<1>3. DOMAIN chain = 1 .. n
  OBVIOUS
<1>4. Len(chain) = n
  BY <1>2, <1>3
<1> QED
  BY <1>4, EmptySeq

\* Along a chain that is accepted, authority comes down from the anchor.
LEMMA AcceptedVouched ==
  ASSUME NEW certs \in SUBSET Certificates, NEW at
  PROVE  Accepted(certs, at) \subseteq Vouched(certs, at)
<1> SUFFICES ASSUME NEW chain \in Chains(certs), VerifyChain(chain, at)
             PROVE  chain[1] \in Vouched(certs, at)
  BY DEF Accepted
<1>0. MaxChain \in Nat \ {0}
  BY X509Assumption
<1>1. PICK n \in 1 .. MaxChain : chain \in [1 .. n -> certs]
  BY DEF Chains
<1>2. n \in Nat /\ n >= 1 /\ n <= MaxChain
  BY <1>0
<1>3. Len(chain) = n
  BY <1>1, <1>2, ChainLength
<1>4. /\ InValidity(Anchor, at)
      /\ \A i \in 1 .. n : InValidity(chain[i], at)
      /\ \A i \in 1 .. n : VerifyLink(chain[i], IssuerOf(chain, i))
  BY <1>3 DEF VerifyChain
<1>5. Current(Anchor, at) /\ \A i \in 1 .. n : chain[i] \in certs /\ Current(chain[i], at)
  BY <1>1, <1>4, ValidityExact, AnchorTyped
<1> DEFINE A == Authorities(certs, at)
           S == {j \in 0 .. n - 1 : Issuing(chain[n - j]) \in A[j]}
<1>6. 0 \in S
  <2>1. IssuerOf(chain, n) = Anchor
    BY <1>2, <1>3 DEF IssuerOf
  <2>2. VerifyLink(chain[n], Anchor)
    BY <1>2, <1>4, <2>1
  <2>3. Issuing(chain[n]) = <<RootName, RootKey>>
    BY <2>2 DEF VerifyLink, VerifySignature, Anchor, Issuing
  <2>4. A[0] = {<<RootName, RootKey>>}
    BY AuthoritiesStep
  <2>5. n - 0 = n /\ 0 \in 0 .. n - 1
    BY <1>2
  <2> HIDE DEF A
  <2> QED
    BY <2>3, <2>4, <2>5
<1>7. ASSUME NEW j \in 0 .. (n - 1) - 1, j \in S PROVE j + 1 \in S
  <2> DEFINE c == chain[n - j]
  <2>1. n - j \in 1 .. n /\ n - (j + 1) \in 1 .. n /\ n - (j + 1) < n
        /\ (n - (j + 1)) + 1 = n - j /\ j + 1 \in 0 .. n - 1 /\ j \in 0 .. MaxChain - 1
    BY <1>0, <1>2
  <2>2. IssuerOf(chain, n - (j + 1)) = c
    BY <1>3, <2>1 DEF IssuerOf
  <2>3. VerifyLink(chain[n - (j + 1)], c)
    BY <1>4, <2>1, <2>2
  <2>4. c \in certs /\ Current(c, at)
    BY <1>5, <2>1
  <2>5. Issuing(c) \in A[j]
    BY <1>7
  <2>6. A[j + 1] = Extended(certs, A[j], at)
    BY <2>1, AuthoritiesStep
  <2> HIDE DEF A, c
  <2>7. c \in Delegations(certs, A[j], at)
    BY <2>3, <2>4, <2>5 DEF Delegations, VerifyLink, IsCa, Issuing
  <2>8. <<c.subject, c.key>> \in A[j + 1]
    BY <2>6, <2>7 DEF Extended
  <2>9. Issuing(chain[n - (j + 1)]) = <<c.subject, c.key>>
    BY <2>3 DEF VerifyLink, VerifySignature, Issuing
  <2> QED
    BY <2>1, <2>8, <2>9
<1>8. n - 1 \in Nat /\ n - (n - 1) = 1 /\ MaxChain - 1 \in 0 .. MaxChain
      /\ n - 1 \in 0 .. MaxChain - 1
  BY <1>0, <1>2
<1>9. n - 1 \in S
  <2> HIDE DEF S
  <2>1. 0 .. n - 1 \subseteq S
    BY <1>6, <1>7, <1>8, BoundedInduction
  <2> QED
    BY <1>8, <2>1
<1>10. Issuing(chain[1]) \in A[MaxChain - 1]
  <2>1. Issuing(chain[1]) \in A[n - 1]
    BY <1>8, <1>9
  <2>2. A[n - 1] \subseteq A[MaxChain - 1]
    BY <1>8, AuthoritiesGrow
  <2> QED
    BY <2>1, <2>2
<1> HIDE DEF A
<1> QED
  BY <1>2, <1>5, <1>10 DEF Vouched, A, Issuing

\* What remains to be checked of a chain of certificates that are current.
LEMMA ChainOfLinks ==
  ASSUME NEW certs \in SUBSET Certificates, NEW at, Current(Anchor, at),
         NEW n \in Nat \ {0}, NEW chain \in [1 .. n -> certs],
         \A i \in 1 .. n : Current(chain[i], at),
         VerifyLink(chain[n], Anchor),
         \A i \in 1 .. n - 1 : VerifyLink(chain[i], chain[i + 1])
  PROVE  VerifyChain(chain, at)
<1>1. Len(chain) = n /\ chain # << >>
  BY ChainLength
<1>2. InValidity(Anchor, at) /\ \A i \in 1 .. n : InValidity(chain[i], at)
  BY ValidityExact, AnchorTyped
<1>3. ASSUME NEW i \in 1 .. n PROVE VerifyLink(chain[i], IssuerOf(chain, i))
  <2>1. CASE i = n
    BY <1>1, <2>1 DEF IssuerOf
  <2>2. CASE i \in 1 .. n - 1
    BY <1>1, <2>2 DEF IssuerOf
  <2> QED
    BY <2>1, <2>2
<1> QED
  BY <1>1, <1>2, <1>3 DEF VerifyChain

\* For every authority there is a chain that shows it: one certificate longer
\* for every delegation.
LEMMA VouchedAccepted ==
  ASSUME NEW certs \in SUBSET Certificates, NEW at
  PROVE  Vouched(certs, at) \subseteq Accepted(certs, at)
<1>0. MaxChain \in Nat \ {0}
  BY X509Assumption
<1> SUFFICES ASSUME NEW leaf \in certs, Current(Anchor, at), Current(leaf, at),
                    Issuing(leaf) \in Authorities(certs, at)[MaxChain - 1]
             PROVE  leaf \in Accepted(certs, at)
  BY DEF Vouched, Issuing
<1> DEFINE A == Authorities(certs, at)
           Shown(cert, m) == \E k \in 1 .. m + 1 : \E chain \in [1 .. k -> certs] :
                               /\ chain[1] = cert /\ VerifyLink(chain[k], Anchor)
                               /\ \A i \in 1 .. k : Current(chain[i], at)
                               /\ \A i \in 1 .. k - 1 : VerifyLink(chain[i], chain[i + 1])
           S == {m \in 0 .. MaxChain - 1 :
                   \A cert \in certs : Current(cert, at) /\ Issuing(cert) \in A[m] => Shown(cert, m)}
<1>1. 0 \in S
  <2>1. ASSUME NEW cert \in certs, Current(cert, at), Issuing(cert) \in A[0]
        PROVE  Shown(cert, 0)
    <3>1. Issuing(cert) = <<RootName, RootKey>>
      BY <2>1, AuthoritiesStep
    <3>2. VerifyLink(cert, Anchor)
      BY <3>1 DEF VerifyLink, VerifySignature, IsCa, Anchor, Issuing
    <3> DEFINE chain == [i \in 1 .. 1 |-> cert]
    <3>3. /\ chain \in [1 .. 1 -> certs] /\ chain[1] = cert
          /\ \A i \in 1 .. 1 : Current(chain[i], at)
      BY <2>1
    <3> HIDE DEF chain
    <3>4. 1 \in 1 .. 0 + 1 /\ 1 .. 1 - 1 = {}
      OBVIOUS
    <3> QED
      BY <3>2, <3>3, <3>4
  <2>2. 0 \in 0 .. MaxChain - 1
    BY <1>0
  <2> HIDE DEF Shown, A
  <2> QED
    BY <2>1, <2>2
<1>2. ASSUME NEW m \in 0 .. (MaxChain - 1) - 1, m \in S PROVE m + 1 \in S
  <2>0. m \in Nat /\ m + 1 \in 0 .. MaxChain - 1 /\ m \in 0 .. MaxChain - 1
    BY <1>0
  <2> SUFFICES ASSUME NEW cert \in certs, Current(cert, at), Issuing(cert) \in A[m + 1]
               PROVE  Shown(cert, m + 1)
    BY <2>0
  <2>1. A[m + 1] = Extended(certs, A[m], at)
    BY <2>0, AuthoritiesStep
  <2>2. CASE Issuing(cert) \in A[m]
    <3>1. Shown(cert, m)
      BY <1>2, <2>2
    <3>2. 1 .. m + 1 \subseteq 1 .. (m + 1) + 1
      BY <2>0
    <3> QED
      BY <3>1, <3>2
  <2>3. CASE Issuing(cert) \notin A[m]
    <3>1. PICK ca \in Delegations(certs, A[m], at) : Issuing(cert) = <<ca.subject, ca.key>>
      <4> HIDE DEF A
      <4> QED
        BY <2>1, <2>3 DEF Extended
    <3>2. ca \in certs /\ ca.basic = "ca" /\ Current(ca, at) /\ Issuing(ca) \in A[m]
      BY DEF Delegations, Issuing
    <3>3. VerifyLink(cert, ca)
      BY <3>1, <3>2 DEF VerifyLink, VerifySignature, IsCa, Issuing
    <3>4. Shown(ca, m)
      BY <1>2, <3>2
    <3>a. PICK k \in 1 .. m + 1 : \E chain \in [1 .. k -> certs] :
            /\ chain[1] = ca /\ VerifyLink(chain[k], Anchor)
            /\ \A i \in 1 .. k : Current(chain[i], at)
            /\ \A i \in 1 .. k - 1 : VerifyLink(chain[i], chain[i + 1])
      BY <3>4
    <3>5. PICK chain \in [1 .. k -> certs] :
            /\ chain[1] = ca /\ VerifyLink(chain[k], Anchor)
            /\ \A i \in 1 .. k : Current(chain[i], at)
            /\ \A i \in 1 .. k - 1 : VerifyLink(chain[i], chain[i + 1])
      BY <3>a
    <3>6. k \in Nat /\ k >= 1 /\ k + 1 \in 1 .. (m + 1) + 1
      BY <2>0
    <3> DEFINE longer == [i \in 1 .. k + 1 |-> IF i = 1 THEN cert ELSE chain[i - 1]]
    <3>7. longer[1] = cert /\ \A i \in 1 .. k : longer[i + 1] = chain[i]
      BY <3>6
    <3>8. longer \in [1 .. k + 1 -> certs]
      BY <3>6
    <3> HIDE DEF longer
    <3>9. VerifyLink(longer[k + 1], Anchor)
      BY <3>5, <3>6, <3>7
    <3>10. ASSUME NEW i \in 1 .. k + 1 PROVE Current(longer[i], at)
      <4>1. CASE i = 1
        BY <3>7, <4>1
      <4>2. CASE i # 1
        <5>1. i - 1 \in 1 .. k /\ (i - 1) + 1 = i
          BY <3>6, <4>2
        <5> QED
          BY <3>5, <3>7, <5>1
      <4> QED
        BY <4>1, <4>2
    <3>11. ASSUME NEW i \in 1 .. (k + 1) - 1 PROVE VerifyLink(longer[i], longer[i + 1])
      <4>1. CASE i = 1
        BY <3>3, <3>5, <3>6, <3>7, <4>1
      <4>2. CASE i # 1
        <5>1. i - 1 \in 1 .. k - 1 /\ i - 1 \in 1 .. k /\ (i - 1) + 1 = i /\ i \in 1 .. k
          BY <3>6, <4>2
        <5>2. longer[i] = chain[i - 1] /\ longer[i + 1] = chain[i]
          BY <3>7, <5>1
        <5>3. VerifyLink(chain[i - 1], chain[(i - 1) + 1])
          BY <3>5, <5>1
        <5> QED
          BY <5>1, <5>2, <5>3
      <4> QED
        BY <4>1, <4>2
    <3> QED
      BY <3>6, <3>7, <3>8, <3>9, <3>10, <3>11
  <2> QED
    BY <2>2, <2>3
<1>3. MaxChain - 1 \in Nat
  BY <1>0
<1>4. MaxChain - 1 \in S
  <2> HIDE DEF S
  <2>1. 0 .. MaxChain - 1 \subseteq S
    BY <1>1, <1>2, <1>3, BoundedInduction
  <2> QED
    BY <1>3, <2>1
<1>5. Shown(leaf, MaxChain - 1)
  BY <1>4
<1>a. PICK k \in 1 .. (MaxChain - 1) + 1 : \E chain \in [1 .. k -> certs] :
        /\ chain[1] = leaf /\ VerifyLink(chain[k], Anchor)
        /\ \A i \in 1 .. k : Current(chain[i], at)
        /\ \A i \in 1 .. k - 1 : VerifyLink(chain[i], chain[i + 1])
  BY <1>5
<1>6. PICK chain \in [1 .. k -> certs] :
        /\ chain[1] = leaf /\ VerifyLink(chain[k], Anchor)
        /\ \A i \in 1 .. k : Current(chain[i], at)
        /\ \A i \in 1 .. k - 1 : VerifyLink(chain[i], chain[i + 1])
  BY <1>a
<1>7. k \in Nat \ {0} /\ k \in 1 .. MaxChain
  BY <1>0
<1>8. VerifyChain(chain, at)
  BY <1>6, <1>7, ChainOfLinks
<1>9. chain \in Chains(certs)
  BY <1>7 DEF Chains
<1> QED
  BY <1>6, <1>8, <1>9 DEF Accepted

\* The two together
LEMMA AcceptedIffVouched ==
  ASSUME NEW certs \in SUBSET Certificates, NEW at
  PROVE  Accepted(certs, at) = Vouched(certs, at)
  BY AcceptedVouched, VouchedAccepted

\* A certificate that no authority signed delegates nothing.
LEMMA UselessCertificate ==
  ASSUME NEW certs, NEW at, NEW cert,
         Issuing(cert) \notin Authorities(certs, at)[MaxChain]
  PROVE  \A n \in 0 .. MaxChain :
           Authorities(certs \cup {cert}, at)[n] = Authorities(certs, at)[n]
<1> DEFINE A == Authorities(certs, at)
           B == Authorities(certs \cup {cert}, at)
           S == {k \in 0 .. MaxChain : B[k] = A[k]}
<1>0. MaxChain \in Nat
  BY X509Assumption
<1>1. 0 \in S
  <2>1. A[0] = {<<RootName, RootKey>>} /\ B[0] = {<<RootName, RootKey>>}
    BY AuthoritiesStep
  <2> HIDE DEF A, B
  <2> QED
    BY <1>0, <2>1
<1>2. ASSUME NEW k \in 0 .. MaxChain - 1, k \in S PROVE k + 1 \in S
  <2>1. /\ A[k + 1] = Extended(certs, A[k], at)
        /\ B[k + 1] = Extended(certs \cup {cert}, B[k], at)
    BY AuthoritiesStep
  <2>2. k + 1 \in 0 .. MaxChain /\ k \in 0 .. MaxChain /\ MaxChain \in 0 .. MaxChain
    BY <1>0
  <2>3. A[k] \subseteq A[MaxChain]
    BY <2>2, AuthoritiesGrow
  <2>4. Issuing(cert) \notin A[k]
    BY <2>3
  <2>5. B[k] = A[k]
    BY <1>2
  <2> HIDE DEF A, B
  <2>6. Delegations(certs \cup {cert}, A[k], at) = Delegations(certs, A[k], at)
    BY <2>4 DEF Delegations, Issuing
  <2>7. B[k + 1] = A[k + 1]
    BY <2>1, <2>5, <2>6 DEF Extended
  <2> QED
    BY <2>2, <2>7
<1> HIDE DEF S
<1>3. 0 .. MaxChain \subseteq S
  BY <1>0, <1>1, <1>2, BoundedInduction
<1> HIDE DEF A, B
<1>4. \A n \in 0 .. MaxChain : B[n] = A[n]
  BY <1>3 DEF S
<1> QED
  BY <1>4 DEF A, B

-----------------------------------------------------------------------------
\* Only well-formed certificates are about.
THEOREM Typing == Spec => []Typed
<1>1. Init => Typed
  BY DEF Init, Typed
<1>2. Typed /\ [Next]_issued => Typed'
  BY X509Assumption DEF Typed, Next, Issue, Finished
<1> QED
  BY <1>1, <1>2, PTL DEF Spec

\* nd_x509_verify_chain accepts only leaves that an authority vouched for,
\* whatever certificates there are and however long the chain.
THEOREM Soundness == Spec => []AcceptedIsVouched
<1>1. Typed => AcceptedIsVouched
  BY AcceptedVouched DEF Typed, AcceptedIsVouched
<1> QED
  BY Typing, <1>1, PTL

\* No leaf that an authority vouched for is turned down with every chain.
THEOREM CompletenessOfChains == Spec => []VouchedIsAccepted
<1>1. Typed => VouchedIsAccepted
  BY VouchedAccepted DEF Typed, VouchedIsAccepted
<1> QED
  BY Typing, <1>1, PTL

\* What a key without authority signs makes no certificate acceptable.
THEOREM NoOutsider == Spec => OnlyAuthoritiesExtendTrust
<1> DEFINE Grows ==
      \A at \in AtTime :
        Accepted(issued', at) # Accepted(issued, at) =>
          \E cert \in issued' \ issued :
            <<cert.issuer, cert.signer>> \in Authorities(issued, at)[MaxChain]
<1>1. Typed /\ [Next]_issued => [Grows]_issued
  <2> SUFFICES ASSUME Typed, Next, NEW at \in AtTime,
                      \A cert \in issued' \ issued :
                        Issuing(cert) \notin Authorities(issued, at)[MaxChain]
               PROVE  Accepted(issued', at) = Accepted(issued, at)
    BY DEF Issuing
  <2>1. CASE issued' = issued
    BY <2>1
  <2>2. CASE issued' # issued
    <3>1. PICK cert \in Issuable : issued' = issued \cup {cert}
      BY <2>2 DEF Next, Issue, Finished
    <3>2. cert \in issued' \ issued
      BY <2>2, <3>1
    <3>3. issued \in SUBSET Certificates /\ issued' \in SUBSET Certificates
      BY <3>1, X509Assumption DEF Typed
    <3> DEFINE A == Authorities(issued, at)
               B == Authorities(issued \cup {cert}, at)
    <3>4. MaxChain - 1 \in 0 .. MaxChain /\ MaxChain \in 0 .. MaxChain
      BY X509Assumption
    <3>5. Issuing(cert) \notin A[MaxChain]
      BY <3>2
    <3>6. B[MaxChain - 1] = A[MaxChain - 1]
      <4>1. \A n \in 0 .. MaxChain : B[n] = A[n]
        BY <3>5, UselessCertificate
      <4> QED
        BY <3>4, <4>1
    <3>7. A[MaxChain - 1] \subseteq A[MaxChain]
      BY <3>4, AuthoritiesGrow
    <3>8. Issuing(cert) \notin B[MaxChain - 1]
      BY <3>5, <3>6, <3>7
    <3>9. Vouched(issued \cup {cert}, at) = Vouched(issued, at)
      <4> HIDE DEF A, B
      <4> QED
        BY <3>6, <3>8 DEF Vouched, Issuing, A, B
    <3> HIDE DEF A, B
    <3>10. /\ Accepted(issued, at) = Vouched(issued, at)
           /\ Accepted(issued', at) = Vouched(issued', at)
      BY <3>3, AcceptedIffVouched
    <3> QED
      BY <3>1, <3>9, <3>10
  <2> QED
    BY <2>1, <2>2
<1> QED
  BY Typing, <1>1, PTL DEF Spec, OnlyAuthoritiesExtendTrust
=============================================================================
