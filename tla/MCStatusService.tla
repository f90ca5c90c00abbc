-------------------------- MODULE MCStatusService ---------------------------
(* StatusService for TLC: threads and users are interchangeable.           *)
EXTENDS StatusService, TLC

Symmetry == Permutations(Threads) \cup Permutations(Uids)
=============================================================================
