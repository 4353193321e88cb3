---------------------------- MODULE Materialized ----------------------------
(***************************************************************************)
(* What the database promises of the content: it shows the whole tree of   *)
(* one revision, moves only to later revisions, and names as its revision  *)
(* (sync_state: "Which content revision the database materializes") none   *)
(* but the one it shows.  It may show a revision it has not named yet.     *)
(***************************************************************************)
EXTENDS Naturals

CONSTANTS
  Revisions,    \* The commits of the branch, numbered in their order.
  Names,        \* The resources a tree may hold.
  Absent,       \* No file of that name.
  Trees,        \* The content of every commit.
  None          \* No revision.

VARIABLES
  last,         \* The revision shown, 0 before the first.
  rows,         \* What is shown.
  revision      \* The revision named.

Empty == [n \in Names |-> Absent]

Init ==
  /\ last = 0
  /\ rows = Empty
  /\ revision = None

\* A tree that checks is shown whole, and never an earlier one.
Show ==
  \E r \in Revisions :
    /\ r >= last
    /\ last' = r
    /\ rows' = Trees[r]
    /\ UNCHANGED revision

\* What is shown is named.
Name ==
  /\ last # 0
  /\ revision' = last
  /\ UNCHANGED <<last, rows>>

Next == Show \/ Name

Spec == Init /\ [][Next]_<<last, rows, revision>>
=============================================================================
