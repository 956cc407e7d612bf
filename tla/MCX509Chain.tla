----------------------------- MODULE MCX509Chain -----------------------------
(***************************************************************************)
(* X509Chain for TLC: two parties besides the anchor, either of which may  *)
(* sign for the other or for itself.                                       *)
(***************************************************************************)
EXTENDS X509Chain, TLC

CONSTANTS root, other, rootkey, k1, k2

\* One validity ends where the other begins, at the change of the encoding;
\* the first begins at the pivot of the two-digit year.
MCRootValidity == [nb |-> 1950, na |-> 2051]
Early == [nb |-> 1950, na |-> 2049]
Late == [nb |-> 2050, na |-> 2051]

\* Certificates of every kind for the name `other', and authorities that bear
\* the anchor's own name.
MCIssuable ==
  [subject : {other}, key : {k1, k2}, issuer : {root, other}, signer : Key,
   basic : Constraints, validity : {Early, Late}]
  \cup
  [subject : {root}, key : {k1, k2}, issuer : {root, other}, signer : Key,
   basic : {"ca"}, validity : {Early}]

\* The parties that are not the anchor are interchangeable.
Holders == Permutations({k1, k2})
=============================================================================
