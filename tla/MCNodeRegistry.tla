--------------------------- MODULE MCNodeRegistry ---------------------------
(* Symmetry for the safety runs of NodeRegistry: no action or invariant    *)
(* tells one thread, node, user or instance id from another.               *)
EXTENDS NodeRegistry, TLC

Symmetry == Permutations(Threads) \cup Permutations(Names)
              \cup Permutations(Uids) \cup Permutations(Instances \ {None})
=============================================================================
