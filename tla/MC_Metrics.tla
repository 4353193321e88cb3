----------------------------- MODULE MC_Metrics -----------------------------
(* Small instances of Metrics for TLC. *)
EXTENDS Metrics, TLC

Symmetry ==
  Permutations(Servers) \union Permutations(Visitors) \union Permutations(Hosts)
=============================================================================
