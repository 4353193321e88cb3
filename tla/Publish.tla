------------------------------- MODULE Publish -------------------------------
(***************************************************************************)
(* Writing content (crates/cli/src/github.rs, content.rs, cmd/): any       *)
(* number of command lines over one branch of a repository on GitHub.      *)
(*                                                                         *)
(* A write is cut at its requests: the head of the branch, the files at    *)
(* that commit, the new commit on top of it, the move of the branch, and   *)
(* the sync of the server.  Between the files and the commit of an `edit`  *)
(* lies a session of the user's editor.  Files are read at a commit, which *)
(* never changes, so reading them is one step; so is building a commit,    *)
(* which nobody sees before the branch moves to it.                        *)
(***************************************************************************)
EXTENDS Pages, Naturals

CONSTANTS
  Writers,      \* The command lines, each run again and again.
  None,         \* No run, no commit, nothing told.
  LastCommit    \* Bound: the commits that are made.

Commits == 1 .. LastCommit

Steps == {"files", "commit", "move", "sync"}

\* A commit that is built: its tree and its ancestors.  It has no number until
\* the branch moves to it, as nobody else can see it before.
CommitType == [tree : Trees, before : SUBSET Commits]

\* A run: its next step, the commit it read, and its command, which turns into
\* changes, these into a commit, and that into a commit of the branch.
RunType ==
  [step : Steps, parent : Commits, command : Commands \union {None},
   changes : ChangeSets \union {None}, commit : CommitType \union {None},
   moved : Commits \union {None}]

ASSUME PublishAssumption ==
  /\ LastCommit \in Nat \ {0}
  /\ None \notin Commits /\ None \notin Commands /\ None \notin ChangeSets
  /\ None \notin CommitType /\ None \notin RunType
  /\ None \notin {"committed", "synced"}

VARIABLES
  head,     \* The commit the branch points at.
  made,     \* The commits 1 .. made are or were on the branch.
  trees,    \* The tree of each commit.
  before,   \* Its ancestors.
  run       \* What each writer runs, if anything.

\* History: what a writer was told of a commit of its own, and the pushes.
VARIABLES told, pushes

vars == <<head, made, trees, before, run, told, pushes>>

Init ==
  /\ head = 1
  /\ made = 1
  /\ trees = [c \in Commits |-> Initial]
  /\ before = [c \in Commits |-> {}]
  /\ run = [w \in Writers |-> None]
  /\ told = [c \in Commits |-> None]
  /\ pushes = 0

\* The commits the branch shows.
History(c) == before[c] \union {c}

\* A commit on top of another.
CommitOn(parent, tree) == [tree |-> tree, before |-> History(parent)]

\* The branch comes to point at a commit it never showed.
MovesTo(commit) ==
  /\ made < LastCommit
  /\ made' = made + 1
  /\ trees' = [trees EXCEPT ![made + 1] = commit.tree]
  /\ before' = [before EXCEPT ![made + 1] = commit.before]
  /\ head' = made + 1

-----------------------------------------------------------------------------
(***************************************************************************)
(* The world: those who push with git.                                     *)
(***************************************************************************)
Push ==
  /\ \E tree \in Pushed : MovesTo(CommitOn(head, tree))
  /\ pushes' = pushes + 1
  /\ UNCHANGED <<run, told>>

\* Somebody forces the branch back to an earlier commit.
Reset ==
  /\ head' \in before[head]
  /\ UNCHANGED <<made, trees, before, run, told, pushes>>

-----------------------------------------------------------------------------
(***************************************************************************)
(* A write.                                                                *)
(***************************************************************************)
At(w, step) == run[w] # None /\ run[w].step = step

Ends(w) == run' = [run EXCEPT ![w] = None]

\* A command begins: the server says which branch it syncs from, and GitHub
\* where that branch is.
Head(w, c) ==
  /\ run[w] = None
  /\ run' = [run EXCEPT ![w] =
       [step |-> "files", parent |-> head, command |-> c, changes |-> None,
        commit |-> None, moved |-> None]]
  /\ UNCHANGED <<head, made, trees, before, told, pushes>>

\* Nothing to commit.
Unchanged(changes) == DOMAIN changes = {}

\* The files at the commit that was read, what the command makes of them, and
\* its early returns.
ReadFiles(w) ==
  /\ At(w, "files")
  /\ LET c == run[w].command
         tree == trees[run[w].parent]
     IN IF Bails(c, tree) \/ Unchanged(Changes(c, tree))
          THEN Ends(w)
          ELSE run' = [run EXCEPT ![w].changes = Changes(c, tree), ![w].command = None,
                                  ![w].step = "commit"]
  /\ UNCHANGED <<head, made, trees, before, told, pushes>>

\* Mutant of Commit: the branch is asked for its head again.
CommitOnHead(w) ==
  /\ At(w, "commit")
  /\ run' = [run EXCEPT
       ![w].commit = CommitOn(head, Overlay(trees[run[w].parent], run[w].changes)),
       ![w].changes = None, ![w].step = "move"]
  /\ UNCHANGED <<head, made, trees, before, told, pushes>>

\* The changes over the tree of the parent, and a commit of that tree.
Commit(w) ==
  /\ At(w, "commit")
  /\ run' = [run EXCEPT
       ![w].commit = CommitOn(run[w].parent, Overlay(trees[run[w].parent], run[w].changes)),
       ![w].changes = None, ![w].step = "move"]
  /\ UNCHANGED <<head, made, trees, before, told, pushes>>

\* Mutant of FastForward: `force: true`.
Forced(commit) == TRUE

\* Without force, GitHub moves a branch forward only.
FastForward(commit) == head \in commit.before

\* The branch moves, and the writer hears of it ("committed ... to ...").
Move(w) ==
  /\ At(w, "move")
  /\ FastForward(run[w].commit)
  /\ MovesTo(run[w].commit)
  /\ told' = [told EXCEPT ![made + 1] = "committed"]
  /\ run' = [run EXCEPT ![w].commit = None, ![w].moved = made + 1, ![w].step = "sync"]
  /\ UNCHANGED pushes

\* The branch moves, and the answer is lost.
AnswerLost(w) ==
  /\ At(w, "move")
  /\ FastForward(run[w].commit)
  /\ MovesTo(run[w].commit)
  /\ Ends(w)
  /\ UNCHANGED <<told, pushes>>

\* "moved while this change was being written; nothing was changed".
Refused(w) ==
  /\ At(w, "move")
  /\ ~FastForward(run[w].commit)
  /\ Ends(w)
  /\ UNCHANGED <<head, made, trees, before, told, pushes>>

\* The server synced that very commit: the branch showed it, and it checks.
Synced(w) ==
  /\ At(w, "sync")
  /\ head = run[w].moved
  /\ Whole(trees[head])
  /\ told' = [told EXCEPT ![head] = "synced"]
  /\ Ends(w)
  /\ UNCHANGED <<head, made, trees, before, pushes>>

\* The run ends where it is: `--no-sync`, a request that fails, a server that
\* refuses the tree or waits in vain, an editor that gives up, an interrupt.
Stops(w) ==
  /\ run[w] # None
  /\ Ends(w)
  /\ UNCHANGED <<head, made, trees, before, told, pushes>>

-----------------------------------------------------------------------------
Next ==
  \/ Push
  \/ \E w \in Writers :
       \/ \E c \in Commands : Head(w, c)
       \/ ReadFiles(w) \/ Commit(w) \/ Move(w) \/ AnswerLost(w)
       \/ Refused(w) \/ Synced(w) \/ Stops(w)

Spec == Init /\ [][Next]_vars

\* The branch of a repository whose owner forces it back now and then.
ResetSpec == Init /\ [][Next \/ Reset]_vars

-----------------------------------------------------------------------------
(***************************************************************************)
(* Properties.                                                             *)
(***************************************************************************)
\* What a run holds at each step.
RunOK(r) ==
  /\ r.parent \in 1 .. made
  /\ r.step = "files" => r.command # None
  /\ r.step = "commit" => r.changes # None /\ DOMAIN r.changes # {}
  /\ r.step = "move" => r.commit # None
  /\ r.step = "sync" => r.moved \in 1 .. made

\* The shape of every variable, of the commits and of a run at each step.
TypeOK ==
  /\ made \in Commits
  /\ head \in 1 .. made
  /\ trees \in [Commits -> Trees]
  /\ before \in [Commits -> SUBSET Commits]
  /\ run \in [Writers -> RunType \union {None}]
  /\ \A w \in Writers : run[w] # None => RunOK(run[w])
  /\ told \in [Commits -> {None, "committed", "synced"}]
  /\ pushes \in Nat

\* The branch moves to the writer's commit.
Moves(w) == At(w, "move") /\ ~At(w, "move")' /\ made' = made + 1

\* A write "moves the branch only if it still points at that commit", the one
\* it read: GitHub checks less, that the branch moves forward.
MovesFromItsParent == [][\A w \in Writers : Moves(w) => head = run[w].parent]_vars

\* The command lines implement AtomicWrites: whatever else is written while a
\* command reads, edits and commits, and whatever answer is lost, it is as if
\* it had done so in one step or not at all.
A == INSTANCE AtomicWrites WITH tree <- trees[head]

Atomic == A!Spec

\* What a writer was told stays true: "committed" is on the branch for good,
\* and what the site was said to show checks.
AnswersAreTrue ==
  \A c \in Commits :
    /\ told[c] # None => c \in History(head)
    /\ told[c] = "synced" => Whole(trees[c])

\* A command run again after its answer was lost commits nothing twice: every
\* move of a writer changes the tree ("files it already holds unchanged are
\* left out", "no change", "edit cancelled").
EveryWriteChanges ==
  [][\A w \in Writers : Moves(w) => trees'[head'] # trees[head]]_vars

\* The pages of both trees name the same markdown in both.
SameFiles(old, new) ==
  \A n \in Names :
    old[Yaml(n)] # Absent /\ new[Yaml(n)] # Absent => old[Yaml(n)].file = new[Yaml(n)].file

\* Two pages name the same markdown.
Shares(tree) ==
  \E m, n \in Names :
    m # n /\ NamedContent(tree[Yaml(m)]) \intersect NamedContent(tree[Yaml(n)]) # {}

\* "Whatever writes one takes the other along": a write over a tree the server
\* takes leaves one it takes, unless a page changes the file it names or shares
\* it with another, and whatever others wrote meanwhile.
PagesStayWhole ==
  [][\A w \in Writers :
       Moves(w) /\ Whole(trees[head]) /\ ~Shares(trees[head])
                /\ SameFiles(trees[head], trees'[head'])
         => Whole(trees'[head'])]_vars
=============================================================================
