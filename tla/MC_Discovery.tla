----------------------------- MODULE MC_Discovery -----------------------------
(* Small instances of Discovery for TLC. *)
EXTENDS Discovery, TLC

CONSTANTS a, b

MCTypes == {a, b}

MCWants == {<<a, b>>}

\* Before 1.0 and at it.
MCReleases == {<<0, 9>>, <<1, 0>>}

\* A type goes, then it comes again and another goes.
MCTypesOf == <<{a, b}, {a}, {b}>>

\* Revisions, and seconds of which two syncs share one.
MCRevisions == <<1, 2, 3>>

MCSeconds == <<1, 2, 2>>

Symmetry == Permutations(Commands) \union Permutations(Servers)
=============================================================================
