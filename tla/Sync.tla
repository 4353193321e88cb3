-------------------------------- MODULE Sync --------------------------------
(***************************************************************************)
(* Materializing the content repository (crates/server/src/content.rs,     *)
(* crates/core/src/index.rs, and sync_state in crates/core/src/store.rs).  *)
(*                                                                         *)
(* Git keeps the content; the database only shows one commit of a branch.  *)
(* A server syncs on boot, on a poll and when a client asks, one sync at a *)
(* time; while a deploy runs, the servers of two releases do so over the   *)
(* same database.                                                          *)
(*                                                                         *)
(* A sync is cut at its awaits: each request to GitHub, each statement,    *)
(* and the index's transaction between its first read and its first write. *)
(***************************************************************************)
EXTENDS Naturals, FiniteSets

CONSTANTS
  Servers,      \* The processes that may run over one database.
  Names,        \* The resources a tree may hold.
  Singletons,   \* The site, the profile and the navigation: in every tree.
  Absent,       \* No file, no row.
  LastRevision, \* The commits of the branch are 1 .. LastRevision.
  Trees,        \* The content of every commit.
  Broken,       \* The commits whose tree does not check.
  PATIENCE,     \* How often the branch is asked again for an expected commit.
  None,         \* No task, no revision, no expectation.
  MaxFails,     \* Bound: requests and statements that fail or are overtaken.
  MaxStops,     \* Bound: crashes and shutdowns.
  MaxAsks       \* Bound: syncs that clients ask for.

Revisions == 1 .. LastRevision

Contents == {Absent} \union {Trees[r][n] : r \in Revisions, n \in Names}

\* A sync under way: how it was asked for, the commit it resolved, how often
\* it asked, the rows its transaction read, its next step and how it ended.
TaskType ==
  [force : BOOLEAN, expected : Revisions \union {None}, sha : Revisions \union {None},
   tries : 0 .. PATIENCE, seen : [Names -> Contents] \union {None},
   step : {"resolve", "check", "download", "begin", "commit", "record"},
   outcome : {None, "synced", "current", "failed"}]

ASSUME SyncAssumption ==
  /\ LastRevision \in Nat \ {0}
  /\ Singletons \subseteq Names
  /\ Trees \in [Revisions -> [Names -> Contents]]
  /\ Broken \subseteq Revisions
  /\ \A r \in Revisions \ Broken : \A n \in Singletons : Trees[r][n] # Absent
  /\ None \notin Revisions \union TaskType \union {"synced", "current", "failed"}
  /\ {PATIENCE, MaxFails, MaxStops, MaxAsks} \subseteq Nat

VARIABLES
  head,         \* The commit GitHub shows the branch at.
  phase,        \* Where each process is in its life.
  task,         \* The sync each server runs, under its lock, if any.
  rows,         \* The content tables: the file each row was made of.
  sync_state,   \* The one row of the table of that name.
  fresh         \* The open transactions no commit has overtaken.

\* History and bounds: the revision indexed last, and how often the bounded
\* things happened.
VARIABLES built, fails, stops, asks

vars == <<head, phase, task, rows, sync_state, fresh, built, fails, stops, asks>>

\* A sync of no revision yet.
Task(force, expected) ==
  [force |-> force, expected |-> expected, sha |-> None, tries |-> 0,
   seen |-> None, step |-> "resolve", outcome |-> None]

Init ==
  /\ head = 1
  /\ phase = [s \in Servers |-> "down"]
  /\ task = [s \in Servers |-> None]
  /\ rows = [n \in Names |-> Absent]
  /\ sync_state = [revision |-> None, synced |-> FALSE, error |-> FALSE]
  /\ fresh = {}
  /\ built = 0
  /\ fails = 0
  /\ stops = 0
  /\ asks = 0

-----------------------------------------------------------------------------
(***************************************************************************)
(* The world: the branch, the kernel and the clients.                      *)
(***************************************************************************)

\* The branch only moves forward: nothing of the program forces a push.
Push ==
  /\ head < LastRevision
  /\ head' = head + 1
  /\ UNCHANGED <<phase, task, rows, sync_state, fresh, built, fails, stops, asks>>

Starts(s, force, expected) ==
  /\ task[s] = None
  /\ task' = [task EXCEPT ![s] = Task(force, expected)]

\* A container starts: the first sync is forced, and nothing is served or
\* polled until it ended, one way or the other.
Boot(s) ==
  /\ phase[s] = "down"
  /\ phase' = [phase EXCEPT ![s] = "booting"]
  /\ Starts(s, TRUE, None)
  /\ UNCHANGED <<head, rows, sync_state, fresh, built, fails, stops, asks>>

Poll(s) ==
  /\ phase[s] = "serving"
  /\ Starts(s, FALSE, None)
  /\ UNCHANGED <<head, phase, rows, sync_state, fresh, built, fails, stops, asks>>

\* POST /sync: a client names the commit it pushed, which GitHub may show
\* already, not yet, or no more.  One that names none asks what a poll does.
Ask(s) ==
  /\ phase[s] = "serving"
  /\ asks < MaxAsks
  /\ asks' = asks + 1
  /\ \E r \in Revisions : Starts(s, FALSE, r)
  /\ UNCHANGED <<head, phase, rows, sync_state, fresh, built, fails, stops>>

Crash(s) ==
  /\ phase[s] # "down"
  /\ stops < MaxStops
  /\ stops' = stops + 1
  /\ phase' = [phase EXCEPT ![s] = "down"]
  /\ task' = [task EXCEPT ![s] = None]
  /\ fresh' = fresh \ {s}
  /\ UNCHANGED <<head, rows, sync_state, built, fails, asks>>

-----------------------------------------------------------------------------
(***************************************************************************)
(* One sync.                                                               *)
(***************************************************************************)
At(s, step) == task[s] # None /\ task[s].step = step

\* The task with its next step, and with its end.
Goes(s, step) == task' = [task EXCEPT ![s].step = step]

Ends(s, outcome) ==
  task' = [task EXCEPT ![s].step = "record", ![s].outcome = outcome]

\* Mutant of Resolve: patience over, whatever the branch shows is taken.
ResolveImpatient(s) ==
  /\ At(s, "resolve")
  /\ LET t == task[s]
     IN IF t.expected \in {None, head} \/ t.tries >= PATIENCE
          THEN task' = [task EXCEPT ![s].sha = head, ![s].step = "check"]
          ELSE task' = [task EXCEPT ![s].tries = @ + 1]
  /\ UNCHANGED <<head, phase, rows, sync_state, fresh, built, fails, stops, asks>>

\* The branch is asked for its commit, again and again while it is not the
\* expected one; when patience is over the sync fails as stale.
Resolve(s) ==
  /\ At(s, "resolve")
  /\ LET t == task[s]
     IN CASE t.expected \in {None, head} ->
               task' = [task EXCEPT ![s].sha = head, ![s].step = "check"]
          [] t.expected \notin {None, head} /\ t.tries < PATIENCE ->
               task' = [task EXCEPT ![s].tries = @ + 1]
          [] OTHER -> Ends(s, "failed")
  /\ UNCHANGED <<head, phase, rows, sync_state, fresh, built, fails, stops, asks>>

\* Mutant of IsCurrent: a content once synced is current.
IsCurrentOnceSynced(t) == ~t.force /\ sync_state.synced

IsCurrent(t) ==
  ~t.force /\ sync_state.synced /\ sync_state.revision = t.sha

\* Nothing to do when the database already names that commit.
Check(s) ==
  /\ At(s, "check")
  /\ IF IsCurrent(task[s]) THEN Ends(s, "current") ELSE Goes(s, "download")
  /\ UNCHANGED <<head, phase, rows, sync_state, fresh, built, fails, stops, asks>>

\* The commit's tarball, read and checked as a whole before anything is
\* written.
Download(s) ==
  /\ At(s, "download")
  /\ IF task[s].sha \in Broken THEN Ends(s, "failed") ELSE Goes(s, "begin")
  /\ UNCHANGED <<head, phase, rows, sync_state, fresh, built, fails, stops, asks>>

\* The index's transaction reads the rows as they are now.
Begin(s) ==
  /\ At(s, "begin")
  /\ task' = [task EXCEPT ![s].seen = rows, ![s].step = "commit"]
  /\ fresh' = fresh \union {s}
  /\ UNCHANGED <<head, phase, rows, sync_state, built, fails, stops, asks>>

\* The files whose rows are written: those a row of the same hash does not
\* hold yet.
Upserted(seen, tree) == {n \in Names : tree[n] # Absent /\ seen[n] # tree[n]}

\* The rows that are deleted: a singleton's never is.
Deleted(seen, tree) ==
  {n \in Names \ Singletons : seen[n] # Absent /\ tree[n] = Absent}

Indexed(now, seen, tree) ==
  [n \in Names |-> IF n \in Upserted(seen, tree) \union Deleted(seen, tree)
                     THEN tree[n] ELSE now[n]]

Writes(t) == Upserted(t.seen, Trees[t.sha]) \union Deleted(t.seen, Trees[t.sha]) # {}

\* Mutant of Commit: the tarball of the branch, not of the resolved commit.
CommitBranch(s) ==
  /\ At(s, "commit")
  /\ s \in fresh
  /\ rows' = Indexed(rows, task[s].seen, Trees[head])
  /\ fresh' = {}
  /\ built' = task[s].sha
  /\ Ends(s, "synced")
  /\ UNCHANGED <<head, phase, sync_state, fails, stops, asks>>

\* The transaction writes and commits.  One that a commit overtook since it
\* began cannot write any more; one with nothing to write commits all the same.
Commit(s) ==
  /\ At(s, "commit")
  /\ Writes(task[s]) => s \in fresh
  /\ rows' = Indexed(rows, task[s].seen, Trees[task[s].sha])
  /\ fresh' = IF Writes(task[s]) THEN {} ELSE fresh \ {s}
  /\ built' = IF Writes(task[s]) \/ rows = Trees[task[s].sha] THEN task[s].sha ELSE built
  /\ Ends(s, "synced")
  /\ UNCHANGED <<head, phase, sync_state, fails, stops, asks>>

\* Another connection of the pool, or of the other server, commits what is not
\* content: a flush of the metrics, an event, the note of a backup.
OthersCommit ==
  /\ fresh # {}
  /\ fails < MaxFails
  /\ fails' = fails + 1
  /\ fresh' = {}
  /\ UNCHANGED <<head, phase, task, rows, sync_state, built, stops, asks>>

\* SQLITE_BUSY: another connection committed between the read and the write.
Busy(s) ==
  /\ At(s, "commit")
  /\ Writes(task[s]) /\ s \notin fresh
  /\ Ends(s, "failed")
  /\ UNCHANGED <<head, phase, rows, sync_state, fresh, built, fails, stops, asks>>

\* GitHub does not answer, refuses, or the database does: the sync has failed.
Fails(s) ==
  /\ task[s] # None /\ task[s].step # "record"
  /\ fails < MaxFails
  /\ fails' = fails + 1
  /\ Ends(s, "failed")
  /\ fresh' = fresh \ {s}
  /\ UNCHANGED <<head, phase, rows, sync_state, built, stops, asks>>

\* Mutant of Recorded: a failed sync names its commit all the same.
RecordedEitherWay(state, t) ==
  IF t.outcome # "current"
    THEN [revision |-> t.sha, synced |-> TRUE, error |-> t.outcome = "failed"]
    ELSE [state EXCEPT !.error = FALSE]

\* sync_state after record_sync, or after record_sync_attempt.
Recorded(state, t) ==
  IF t.outcome = "synced"
    THEN [revision |-> t.sha, synced |-> TRUE, error |-> FALSE]
    ELSE [state EXCEPT !.error = t.outcome = "failed"]

\* The sync is over: the server serves, whatever the outcome.
Leaves(s) ==
  /\ task' = [task EXCEPT ![s] = None]
  /\ phase' = [phase EXCEPT ![s] = "serving"]

\* How the sync went is a statement of its own, after the index committed.
Record(s) ==
  /\ At(s, "record")
  /\ sync_state' = Recorded(sync_state, task[s])
  /\ fresh' = {}
  /\ Leaves(s)
  /\ UNCHANGED <<head, rows, built, fails, stops, asks>>

\* The read of sync_state before a sync, or the statement that records how it
\* went, fails: the sync ends without a trace.
RecordFails(s) ==
  /\ \/ At(s, "record")
     \/ At(s, "resolve") /\ task[s].tries = 0
  /\ fails < MaxFails
  /\ fails' = fails + 1
  /\ Leaves(s)
  /\ UNCHANGED <<head, rows, sync_state, fresh, built, stops, asks>>

\* The client that asked hangs up: the sync is dropped where it awaits.
HangUp(s) ==
  /\ task[s] # None /\ task[s].expected # None
  /\ fresh' = fresh \ {s}
  /\ Leaves(s)
  /\ UNCHANGED <<head, rows, sync_state, built, fails, stops, asks>>

-----------------------------------------------------------------------------
\* What a server does of its own account.
Runs(s) ==
  \/ Boot(s) \/ Poll(s) \/ Resolve(s) \/ Check(s) \/ Download(s)
  \/ Begin(s) \/ Commit(s) \/ Busy(s) \/ Record(s)

Next ==
  \/ Push \/ OthersCommit
  \/ \E s \in Servers : Runs(s) \/ Ask(s) \/ HangUp(s) \/ Crash(s) \/ Fails(s) \/ RecordFails(s)

Spec == Init /\ [][Next]_vars

\* A container is started again, its ticker ticks, and a sync goes on: every
\* await of it has a timeout.
FairSpec == Spec /\ \A s \in Servers : WF_vars(Runs(s))

-----------------------------------------------------------------------------
(***************************************************************************)
(* Properties.                                                             *)
(***************************************************************************)
\* The shape of every variable.
TypeOK ==
  /\ head \in Revisions
  /\ phase \in [Servers -> {"down", "booting", "serving"}]
  /\ task \in [Servers -> TaskType \union {None}]
  /\ rows \in [Names -> Contents]
  /\ sync_state \in [revision : Revisions \union {None}, synced : BOOLEAN, error : BOOLEAN]
  /\ fresh \subseteq Servers
  /\ built \in Revisions \union {0}
  /\ {fails, stops, asks} \subseteq Nat

\* What the site shows is the tree of one commit that checks, never a mixture,
\* whatever syncs of whatever servers overlap, fail or die half-way ("one sync
\* reads one revision"; index::sync, "in one transaction").
OneRevision ==
  \/ built = 0 /\ rows = [n \in Names |-> Absent]
  \/ built \in Revisions \ Broken /\ rows = Trees[built]

\* "Returns None when it already was" current: a sync that found nothing to do
\* leaves behind a database that shows the commit it resolved.
SkipIsSound ==
  \A s \in Servers :
    At(s, "record") /\ task[s].outcome = "current" => rows = Trees[task[s].sha]

\* Who waits for a sync gets an answer without an error.
Answers(s) ==
  /\ task[s] # None /\ task[s].outcome \in {"synced", "current"}
  /\ sync_state' = Recorded(sync_state, task[s])
  /\ task'[s] = None /\ phase'[s] = "serving"
  /\ fails' = fails

\* A client that asked for the commit it pushed and got an answer is shown
\* that very commit ("returns once the site shows it").
ExpectedIsShown ==
  [][\A s \in Servers : Answers(s) /\ task[s].expected # None =>
       /\ sync_state'.revision = task[s].expected
       /\ rows' = Trees[task[s].expected]]_vars

\* Once the branch stays at a commit that checks, the database comes to show
\* it and to say so, and stays there.
Converges ==
  \A r \in Revisions \ Broken :
    <>[](head = r) => <>[](rows = Trees[r] /\ sync_state.revision = r)

\* One server keeps the promise of Materialized, crashes and failures included.
M == INSTANCE Materialized WITH
       last <- built, revision <- sync_state.revision

ShowsOneRevision == M!Spec
=============================================================================
