--------------------------- MODULE MCTokenQueries ----------------------------
(* Users and tokens are alike: states that differ by their names only are  *)
(* explored once.                                                          *)
EXTENDS TokenQueries, TLC

Symmetry == Permutations(Uids) \cup Permutations(Tokens)
=============================================================================
