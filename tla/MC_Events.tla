------------------------------ MODULE MC_Events ------------------------------
(* Small instances of Events for TLC. *)
EXTENDS Events
=============================================================================
