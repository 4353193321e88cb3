------------------------------ MODULE MC_Session ------------------------------
(* Small instances of Session for TLC. *)
EXTENDS Session, TLC

Symmetry == Permutations(Runs)
=============================================================================
