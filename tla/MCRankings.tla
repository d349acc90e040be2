----------------------------- MODULE MCRankings -----------------------------
(* Blocks and lists for TLC. *)
EXTENDS Rankings, TLC

Symmetry == Permutations(Nodes) \cup Permutations(Lists)
=============================================================================
