----------------------------- MODULE MCHeartbeat -----------------------------
(* More threads than slots and than identifiers, so that claims race, the    *)
(* table fills up and an identifier comes back.                              *)
EXTENDS Heartbeat, TLC

ThreadSymmetry == Permutations(Threads) \cup Permutations(Tids)
=============================================================================
