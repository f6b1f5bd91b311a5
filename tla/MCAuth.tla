------------------------------- MODULE MCAuth -------------------------------
(* Small instance of Auth. *)
EXTENDS Auth, TLC

Symmetry == Permutations(Pairs) \cup Permutations(Threads) \cup Permutations(Keys)
=============================================================================
