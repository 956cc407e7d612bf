----------------------------- MODULE MCHandshake -----------------------------
(***************************************************************************)
(* Handshake for TLC.  The chains are one to trust and one for each way a  *)
(* configuration can be wrong; `fits' is the largest that a record holds.  *)
(***************************************************************************)
EXTENDS Handshake, FiniteSets, TLC

CONSTANTS k1, k2, fits, oversized, untrusted, broken, empty

MCCertCount == [ch \in Chain |-> IF ch = empty THEN 0 ELSE 1]
MCDerBytes ==
  [ch \in Chain |-> CASE ch = oversized -> 2027 [] ch = empty -> 0 [] OTHER -> 2026]
MCLeafKey == [ch \in Chain |-> k1]

\* Every chain with the key of its leaf, and one with another key.
MCConfig == [chain : Chain, signer : {k1}] \cup [chain : {fits}, signer : {k2}]

\* Two clients meet servers that are configured well, or with a key that is
\* not the leaf's; a server with another chain meets one client.
Misconfigured == \E s \in Server : config[s] \in [chain : Chain \ {fits}, signer : Key]
Bounded == Misconfigured => Cardinality({c \in Client : cpc[c] # "start"}) <= 1

\* The call the bound leaves out is never made.
OneClientTerminated ==
  /\ Misconfigured
  /\ \A c \in Client : cpc[c] \in {"start", "done"}
  /\ \E c \in Client : cpc[c] = "done"
  /\ \A s \in Server : spc[s] = "done"
  /\ UNCHANGED vars

MCSpec == Init /\ [][(Next /\ Bounded') \/ OneClientTerminated]_vars

\* The calls are interchangeable.
Calls == Permutations(Client) \cup Permutations(Server)
=============================================================================
