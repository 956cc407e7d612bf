------------------------- MODULE MCHandshakeSockets -------------------------
(***************************************************************************)
(* HandshakeSockets for TLC, with the retry bounds of the source.          *)
(***************************************************************************)
EXTENDS HandshakeSockets

CONSTANTS k1, good, big

MCOneCert == [ch \in Chain |-> 1]

\* The largest chain that a record holds, and one that is a byte too long.
MCDerBytes == [ch \in Chain |-> IF ch = big THEN 2027 ELSE 2026]
MCLeafKey == [ch \in Chain |-> k1]
MCConfig == [chain : Chain, signer : {k1}]
=============================================================================
