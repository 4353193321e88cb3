------------------------------ MODULE MC_Backup ------------------------------
(* Small instances of Backup for TLC. *)
EXTENDS Backup, TLC

Symmetry == Permutations(Servers)
=============================================================================
