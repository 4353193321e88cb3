----------------------------- MODULE AtomicWrites -----------------------------
(***************************************************************************)
(* What the command line promises of the branch it writes: "commits every  *)
(* change at once on top of the commit it read; if the branch moved        *)
(* meanwhile, nothing is written" (README.md).  Each write is as if its    *)
(* command had read the branch and changed it in one step.                 *)
(***************************************************************************)
EXTENDS Naturals

CONSTANTS
  Commands,       \* The commands that are run.
  Initial,        \* The tree the branch begins with.
  Pushed,         \* The trees that others push.
  Bails(_, _),    \* A command stops at a tree before it writes.
  Result(_, _)    \* What it makes of a tree.

VARIABLES
  tree,     \* The tree the branch shows.
  pushes    \* How often others pushed.

Init == tree = Initial /\ pushes = 0

\* A command changes what the branch shows now, or nothing.
Write(c) ==
  /\ ~Bails(c, tree)
  /\ tree' = Result(c, tree)
  /\ UNCHANGED pushes

\* Somebody else replaces it.
Push ==
  /\ tree' \in Pushed
  /\ pushes' = pushes + 1

Next == Push \/ \E c \in Commands : Write(c)

Spec == Init /\ [][Next]_<<tree, pushes>>
=============================================================================
