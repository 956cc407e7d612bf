----------------------------- MODULE AntiReplay -----------------------------
(***************************************************************************)
(* What an anti-replay window promises its user, without saying how it is  *)
(* kept: a record number is handed up at most once, and a record whose     *)
(* authentication fails leaves no trace.  include/nanodtls/replay.h states *)
(* this as the purpose of the 64-record bitmap of src/replay.c.            *)
(***************************************************************************)

EXTENDS Naturals

CONSTANT SeqNum   \* the record sequence numbers that may arrive

VARIABLES
  delivered,      \* the sequence numbers handed up so far
  count           \* how many records were handed up

Init == delivered = {} /\ count = 0

\* A record is handed up only if its number never was before.
Deliver ==
  /\ \E seq \in SeqNum \ delivered : delivered' = delivered \cup {seq}
  /\ count' = count + 1

Spec == Init /\ [][Deliver]_<<delivered, count>>
=============================================================================
