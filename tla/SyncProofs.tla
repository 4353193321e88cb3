----------------------------- MODULE SyncProofs -----------------------------
(***************************************************************************)
(* What Sync promises for every number of servers, resources and commits:  *)
(* however their syncs overlap, fail or die half-way, the site shows the   *)
(* whole tree of one commit that checks.  And what it promises of a server *)
(* alone, in the part at the end.                                          *)
(*                                                                         *)
(* The argument: a transaction that may still write has read the rows as   *)
(* they are (FreshSees), so the rows it leaves alone are those the new     *)
(* tree has too; one that a commit overtook writes nothing.                *)
(***************************************************************************)
EXTENDS Sync, TLAPS

\* What a sync knows at each of its steps.
TasksFit ==
  \A s \in Servers : task[s] # None =>
    /\ task[s].step \in {"check", "download"} => task[s].sha \in Revisions
    /\ task[s].step \in {"begin", "commit"} => task[s].sha \in Revisions \ Broken
    /\ task[s].step = "commit" => task[s].seen \in [Names -> Contents]

\* A transaction that no commit overtook sees the rows as they are.
FreshSees == \A s \in fresh : At(s, "commit") /\ task[s].seen = rows

\* The inductive invariant.
IInv == TypeOK /\ OneRevision /\ TasksFit /\ FreshSees

-----------------------------------------------------------------------------
(***************************************************************************)
(* The index.                                                              *)
(***************************************************************************)

\* Over the rows it has read, the index makes exactly the new tree.
LEMMA IndexMakesTheTree ==
  ASSUME NEW now \in [Names -> Contents], NEW r \in Revisions \ Broken
  PROVE  Indexed(now, now, Trees[r]) = Trees[r]
<1> DEFINE tree == Trees[r]
<1>1. tree \in [Names -> Contents] /\ \A n \in Singletons : tree[n] # Absent
  BY SyncAssumption DEF SyncAssumption
<1> HIDE DEF tree
<1>2. ASSUME NEW n \in Names
      PROVE  Indexed(now, now, tree)[n] = tree[n]
  <2>1. CASE n \in Upserted(now, tree) \union Deleted(now, tree)
    BY <2>1 DEF Indexed
  <2>2. CASE n \notin Upserted(now, tree) \union Deleted(now, tree)
    <3>1. Indexed(now, now, tree)[n] = now[n]
      BY <2>2 DEF Indexed
    <3>2. now[n] = tree[n]
      BY <1>1, <2>2 DEF Upserted, Deleted
    <3>3. QED
      BY <3>1, <3>2
  <2>3. QED
    BY <2>1, <2>2
<1>3. QED
  BY <1>1, <1>2 DEF Indexed, tree

\* An index with nothing to write leaves the rows as they are.
LEMMA IdleIndexKeeps ==
  ASSUME NEW now \in [Names -> Contents], NEW t, ~Writes(t)
  PROVE  Indexed(now, t.seen, Trees[t.sha]) = now
  BY DEF Indexed, Writes

-----------------------------------------------------------------------------
(***************************************************************************)
(* The steps of a sync.                                                    *)
(***************************************************************************)

\* A sync that ends without touching the content keeps the invariant.
LEMMA EndKeeps ==
  ASSUME IInv, NEW s \in Servers, task[s] # None,
         NEW outcome \in {"synced", "current", "failed"}, Ends(s, outcome),
         UNCHANGED <<head, phase, rows, sync_state, built>>,
         fresh' \subseteq fresh \ {s},
         fails' \in Nat, stops' \in Nat, asks' \in Nat
  PROVE  IInv'
<1> DEFINE t == [task[s] EXCEPT !.step = "record", !.outcome = outcome]
<1>1. task[s] \in TaskType /\ task \in [Servers -> TaskType \union {None}]
  BY DEF IInv, TypeOK
<1>2. t \in TaskType /\ t.step = "record"
  BY <1>1 DEF TaskType
<1>3. task' = [task EXCEPT ![s] = t]
  BY <1>1 DEF Ends, TaskType
<1> HIDE DEF t
<1>4. /\ task' \in [Servers -> TaskType \union {None}]
      /\ task'[s] = t
      /\ \A u \in Servers : u # s => task'[u] = task[u]
  BY <1>1, <1>2, <1>3
<1>5. TypeOK'
  BY <1>4 DEF IInv, TypeOK
<1>6. OneRevision'
  BY DEF IInv, OneRevision
<1>7. TasksFit'
  BY <1>2, <1>4 DEF IInv, TasksFit
<1>8. FreshSees'
  BY <1>4 DEF IInv, FreshSees, At, TypeOK
<1>9. QED
  BY <1>5, <1>6, <1>7, <1>8 DEF IInv

\* A sync that goes on to a step it is prepared for keeps the invariant.
LEMMA StepKeeps ==
  ASSUME IInv, NEW s \in Servers, NEW t \in TaskType \union {None},
         task' = [task EXCEPT ![s] = t],
         t # None =>
           /\ t.step \notin {"begin", "commit"} \/ t.sha \in Revisions \ Broken
           /\ t.step \notin {"check", "download"} \/ t.sha \in Revisions
           /\ t.step # "commit",
         UNCHANGED <<rows, built>>,
         fresh' \subseteq fresh \ {s},
         head' \in Revisions,
         phase' \in [Servers -> {"down", "booting", "serving"}],
         sync_state' \in [revision : Revisions \union {None}, synced : BOOLEAN,
                          error : BOOLEAN],
         fails' \in Nat, stops' \in Nat, asks' \in Nat
  PROVE  IInv'
<1>1. task \in [Servers -> TaskType \union {None}]
  BY DEF IInv, TypeOK
<1>2. /\ task' \in [Servers -> TaskType \union {None}]
      /\ task'[s] = t
      /\ \A u \in Servers : u # s => task'[u] = task[u]
  BY <1>1
<1>3. TypeOK'
  BY <1>2 DEF IInv, TypeOK
<1>4. OneRevision'
  BY DEF IInv, OneRevision
<1>5. TasksFit'
  BY <1>2 DEF IInv, TasksFit
<1>6. FreshSees'
  BY <1>2 DEF IInv, FreshSees, At, TypeOK
<1>7. QED
  BY <1>3, <1>4, <1>5, <1>6 DEF IInv

\* A server that is not between the read and the write of its index has no
\* fresh transaction.
LEMMA NoTransaction ==
  ASSUME IInv, NEW s \in Servers, ~At(s, "commit")
  PROVE  fresh = fresh \ {s}
  BY DEF IInv, FreshSees

\* Starting a sync.
LEMMA StartKeeps ==
  ASSUME IInv, NEW s \in Servers, Boot(s) \/ Poll(s) \/ Ask(s)
  PROVE  IInv'
<1>1. fresh' \subseteq fresh \ {s}
  BY NoTransaction DEF Boot, Poll, Ask, Starts, At
<1>2. PICK force \in BOOLEAN, expected \in Revisions \union {None} :
        task' = [task EXCEPT ![s] = Task(force, expected)]
  <2>1. CASE Boot(s) \/ Poll(s)
    BY <2>1 DEF Boot, Poll, Starts
  <2>2. CASE Ask(s)
    BY <2>2 DEF Ask, Starts
  <2>3. QED
    BY <2>1, <2>2
<1>3. Task(force, expected) \in TaskType /\ Task(force, expected).step = "resolve"
  BY SyncAssumption DEF Task, TaskType, SyncAssumption
<1>4. phase' \in [Servers -> {"down", "booting", "serving"}]
  <2>1. CASE Boot(s)
    BY <2>1 DEF Boot, IInv, TypeOK
  <2>2. CASE Poll(s) \/ Ask(s)
    BY <2>2 DEF Poll, Ask, IInv, TypeOK
  <2>3. QED
    BY <2>1, <2>2
<1>5. /\ UNCHANGED <<head, rows, built, sync_state>>
      /\ fails' \in Nat /\ stops' \in Nat /\ asks' \in Nat
  <2>1. CASE Boot(s) \/ Poll(s)
    BY <2>1 DEF Boot, Poll, IInv, TypeOK
  <2>2. CASE Ask(s)
    BY <2>2 DEF Ask, IInv, TypeOK
  <2>3. QED
    BY <2>1, <2>2
<1>6. QED
  BY <1>1, <1>2, <1>3, <1>4, <1>5, StepKeeps DEF IInv, TypeOK

\* Asking the branch, asking the database, and downloading.
LEMMA AskingKeeps ==
  ASSUME IInv, NEW s \in Servers, Resolve(s) \/ Check(s) \/ Download(s)
  PROVE  IInv'
<1>1. fresh = fresh \ {s} /\ fresh' = fresh
  BY NoTransaction DEF Resolve, Check, Download, At
<1>2. /\ UNCHANGED <<head, phase, rows, built, sync_state>>
      /\ fails' \in Nat /\ stops' \in Nat /\ asks' \in Nat
  BY DEF Resolve, Check, Download, IInv, TypeOK
<1>3. /\ task[s] # None /\ task[s] \in TaskType
      /\ task[s].tries \in 0 .. PATIENCE /\ head \in Revisions
  BY DEF Resolve, Check, Download, At, IInv, TypeOK, TaskType
<1>4. ASSUME NEW t \in TaskType, task' = [task EXCEPT ![s] = t],
             t.step \in {"resolve", "check", "download", "begin"},
             t.step \in {"check", "download"} => t.sha \in Revisions,
             t.step = "begin" => t.sha \in Revisions \ Broken
      PROVE  IInv'
  BY <1>1, <1>2, <1>4, StepKeeps DEF IInv, TypeOK
<1>5. ASSUME NEW outcome \in {"current", "failed"}, Ends(s, outcome)
      PROVE  IInv'
  BY <1>1, <1>2, <1>3, <1>5, EndKeeps
<1>6. CASE Resolve(s)
  <2>1. CASE task' = [task EXCEPT ![s].sha = head, ![s].step = "check"]
    <3> DEFINE t == [task[s] EXCEPT !.sha = head, !.step = "check"]
    <3>1. t \in TaskType /\ t.step = "check" /\ t.sha \in Revisions
      BY <1>3 DEF TaskType
    <3>2. task' = [task EXCEPT ![s] = t]
      BY <2>1 DEF IInv, TypeOK, TaskType
    <3> HIDE DEF t
    <3>3. QED
      BY <1>4, <3>1, <3>2
  <2>2. CASE task[s].tries < PATIENCE /\ task' = [task EXCEPT ![s].tries = @ + 1]
    <3> DEFINE t == [task[s] EXCEPT !.tries = @ + 1]
    <3>1. t \in TaskType /\ t.step = "resolve"
      BY <1>3, <1>6, <2>2, SyncAssumption DEF TaskType, SyncAssumption, Resolve, At
    <3>2. task' = [task EXCEPT ![s] = t]
      BY <2>2
    <3> HIDE DEF t
    <3>3. QED
      BY <1>4, <3>1, <3>2
  <2>3. CASE Ends(s, "failed")
    BY <1>5, <2>3
  <2>4. QED
    BY <1>6, <2>1, <2>2, <2>3 DEF Resolve
<1>7. CASE Check(s)
  <2>1. CASE Goes(s, "download")
    <3> DEFINE t == [task[s] EXCEPT !.step = "download"]
    <3>1. t \in TaskType /\ t.step = "download" /\ t.sha \in Revisions
      BY <1>3, <1>7 DEF TaskType, Check, At, IInv, TasksFit
    <3>2. task' = [task EXCEPT ![s] = t]
      BY <2>1 DEF Goes
    <3> HIDE DEF t
    <3>3. QED
      BY <1>4, <3>1, <3>2
  <2>2. QED
    BY <1>5, <1>7, <2>1 DEF Check
<1>8. CASE Download(s)
  <2>1. CASE task[s].sha \notin Broken /\ Goes(s, "begin")
    <3> DEFINE t == [task[s] EXCEPT !.step = "begin"]
    <3>1. t \in TaskType /\ t.step = "begin" /\ t.sha \in Revisions \ Broken
      BY <1>3, <1>8, <2>1 DEF TaskType, Download, At, IInv, TasksFit
    <3>2. task' = [task EXCEPT ![s] = t]
      BY <2>1 DEF Goes
    <3> HIDE DEF t
    <3>3. QED
      BY <1>4, <3>1, <3>2
  <2>2. QED
    BY <1>5, <1>8, <2>1 DEF Download
<1>9. QED
  BY <1>6, <1>7, <1>8

\* The transaction begins with the rows as they are.
LEMMA BeginKeeps ==
  ASSUME IInv, NEW s \in Servers, Begin(s)
  PROVE  IInv'
<1> DEFINE t == [task[s] EXCEPT !.seen = rows, !.step = "commit"]
<1>1. /\ task[s] # None /\ task[s] \in TaskType
      /\ task \in [Servers -> TaskType \union {None}]
      /\ task[s].sha \in Revisions \ Broken
      /\ rows \in [Names -> Contents]
  BY DEF Begin, At, IInv, TypeOK, TasksFit
<1>2. /\ t \in TaskType /\ t.step = "commit" /\ t.seen = rows
      /\ t.sha \in Revisions \ Broken
  BY <1>1 DEF TaskType
<1>3. task' = [task EXCEPT ![s] = t]
  BY <1>1 DEF Begin, TaskType
<1>4. t # None
  BY <1>2, SyncAssumption DEF SyncAssumption
<1> HIDE DEF t
<1>5. /\ task' \in [Servers -> TaskType \union {None}]
      /\ task'[s] = t
      /\ \A u \in Servers : u # s => task'[u] = task[u]
  BY <1>1, <1>2, <1>3
<1>6. UNCHANGED <<head, phase, rows, sync_state, built, fails, stops, asks>>
        /\ fresh' = fresh \union {s}
  BY DEF Begin
<1>7. TypeOK'
  BY <1>5, <1>6 DEF IInv, TypeOK
<1>8. OneRevision'
  BY <1>6 DEF IInv, OneRevision
<1>9. TasksFit'
  BY <1>1, <1>2, <1>5, <1>6 DEF IInv, TasksFit
<1>10. FreshSees'
  BY <1>2, <1>4, <1>5, <1>6 DEF IInv, FreshSees, At, TypeOK
<1>11. QED
  BY <1>7, <1>8, <1>9, <1>10 DEF IInv

\* The transaction commits: either nothing overtook it and the rows become the
\* commit's tree, or it had nothing to write.
LEMMA CommitKeeps ==
  ASSUME IInv, NEW s \in Servers, Commit(s)
  PROVE  IInv'
<1> DEFINE t == [task[s] EXCEPT !.step = "record", !.outcome = "synced"]
<1>1. /\ task[s] # None /\ task[s] \in TaskType
      /\ task \in [Servers -> TaskType \union {None}]
      /\ task[s].sha \in Revisions \ Broken
      /\ rows \in [Names -> Contents]
  BY DEF Commit, At, IInv, TypeOK, TasksFit
<1>2. t \in TaskType /\ t.step = "record"
  BY <1>1 DEF TaskType
<1>3. task' = [task EXCEPT ![s] = t]
  BY <1>1 DEF Commit, Ends, TaskType
<1> HIDE DEF t
<1>4. /\ task' \in [Servers -> TaskType \union {None}]
      /\ task'[s] = t
      /\ \A u \in Servers : u # s => task'[u] = task[u]
  BY <1>1, <1>2, <1>3
<1>5. /\ UNCHANGED <<head, phase, sync_state, fails, stops, asks>>
      /\ rows' = Indexed(rows, task[s].seen, Trees[task[s].sha])
      /\ fresh' = IF Writes(task[s]) THEN {} ELSE fresh \ {s}
      /\ built' = IF Writes(task[s]) \/ rows = Trees[task[s].sha] THEN task[s].sha ELSE built
      /\ Writes(task[s]) => s \in fresh
  BY DEF Commit
<1>6. ~Writes(task[s]) => rows' = rows
  BY <1>1, <1>5, IdleIndexKeeps
<1>7. s \in fresh => rows' = Trees[task[s].sha] /\ built' = task[s].sha
  <2>1. s \in fresh => rows' = Trees[task[s].sha]
    BY <1>1, <1>5, IndexMakesTheTree DEF IInv, FreshSees
  <2>2. QED
    BY <1>5, <1>6, <2>1
<1>8. rows' \in [Names -> Contents] /\ built' \in Revisions \union {0}
  <2>1. CASE s \in fresh
    BY <1>1, <1>7, <2>1, SyncAssumption DEF SyncAssumption, Contents
  <2>2. CASE s \notin fresh
    BY <1>1, <1>5, <1>6, <2>2 DEF IInv, TypeOK
  <2>3. QED
    BY <2>1, <2>2
<1>9. TypeOK'
  BY <1>4, <1>5, <1>8 DEF IInv, TypeOK
<1>10. OneRevision'
  <2>1. CASE s \in fresh
    BY <1>1, <1>7, <2>1 DEF OneRevision
  <2>2. CASE s \notin fresh
    BY <1>1, <1>5, <1>6, <2>2 DEF IInv, OneRevision
  <2>3. QED
    BY <2>1, <2>2
<1>11. TasksFit'
  BY <1>2, <1>4 DEF IInv, TasksFit
<1>12. FreshSees'
  <2>1. CASE Writes(task[s])
    BY <1>5, <2>1 DEF FreshSees
  <2>2. CASE ~Writes(task[s])
    BY <1>4, <1>5, <1>6, <2>2 DEF IInv, FreshSees, At, TypeOK
  <2>3. QED
    BY <2>1, <2>2
<1>13. QED
  BY <1>9, <1>10, <1>11, <1>12 DEF IInv

\* A sync that cannot write any more, or whose request fails.
LEMMA FailureKeeps ==
  ASSUME IInv, NEW s \in Servers, Busy(s) \/ Fails(s)
  PROVE  IInv'
<1>1. task[s] # None /\ Ends(s, "failed")
  BY DEF Busy, Fails, At
<1>2. UNCHANGED <<head, phase, rows, sync_state, built>>
  BY DEF Busy, Fails
<1>3. fresh' \subseteq fresh \ {s}
  BY DEF Busy, Fails
<1>4. fails' \in Nat /\ stops' \in Nat /\ asks' \in Nat
  BY DEF Busy, Fails, IInv, TypeOK
<1>5. QED
  BY <1>1, <1>2, <1>3, <1>4, EndKeeps

\* A sync that is over, recorded or not, one dropped, and a process that dies.
LEMMA LeavingKeeps ==
  ASSUME IInv, NEW s \in Servers, Record(s) \/ RecordFails(s) \/ HangUp(s) \/ Crash(s)
  PROVE  IInv'
<1>1. task' = [task EXCEPT ![s] = None] /\ UNCHANGED <<rows, built>>
  BY DEF Record, RecordFails, HangUp, Crash, Leaves
<1>2. fresh' \subseteq fresh \ {s}
  <2>1. CASE Record(s)
    BY <2>1 DEF Record
  <2>2. CASE RecordFails(s)
    BY <2>2, NoTransaction DEF RecordFails, At
  <2>3. CASE HangUp(s) \/ Crash(s)
    BY <2>3 DEF HangUp, Crash
  <2>4. QED
    BY <2>1, <2>2, <2>3
<1>3. phase' \in [Servers -> {"down", "booting", "serving"}]
  <2>1. CASE Crash(s)
    BY <2>1 DEF Crash, IInv, TypeOK
  <2>2. CASE Record(s) \/ RecordFails(s) \/ HangUp(s)
    BY <2>2 DEF Record, RecordFails, HangUp, Leaves, IInv, TypeOK
  <2>3. QED
    BY <2>1, <2>2
<1>4. sync_state' \in [revision : Revisions \union {None}, synced : BOOLEAN, error : BOOLEAN]
  <2>1. CASE Record(s)
    <3>1. task[s] \in TaskType
      BY <2>1 DEF Record, At, IInv, TypeOK
    <3>2. task[s].sha \in Revisions \union {None} /\ (task[s].outcome = "failed") \in BOOLEAN
      BY <3>1 DEF TaskType
    <3>3. QED
      BY <2>1, <3>2 DEF Record, Recorded, IInv, TypeOK
  <2>2. CASE RecordFails(s) \/ HangUp(s) \/ Crash(s)
    BY <2>2 DEF RecordFails, HangUp, Crash, IInv, TypeOK
  <2>3. QED
    BY <2>1, <2>2
<1>5. head' \in Revisions /\ fails' \in Nat /\ stops' \in Nat /\ asks' \in Nat
  BY DEF Record, RecordFails, HangUp, Crash, IInv, TypeOK
<1>6. QED
  BY <1>1, <1>2, <1>3, <1>4, <1>5, StepKeeps

\* The branch moves.
LEMMA PushKeeps ==
  ASSUME IInv, Push
  PROVE  IInv'
<1>1. head' \in Revisions
  BY SyncAssumption DEF Push, IInv, TypeOK, Revisions, SyncAssumption
<1>2. UNCHANGED <<phase, task, rows, sync_state, fresh, built, fails, stops, asks>>
  BY DEF Push
<1>3. QED
  BY <1>1, <1>2 DEF IInv, TypeOK, OneRevision, TasksFit, FreshSees, At

\* Something that is not content is committed.
LEMMA OthersKeep ==
  ASSUME IInv, OthersCommit
  PROVE  IInv'
<1>1. /\ UNCHANGED <<head, phase, task, rows, sync_state, built, stops, asks>>
      /\ fresh' = {} /\ fails' = fails + 1
  BY DEF OthersCommit
<1>2. QED
  BY <1>1 DEF IInv, TypeOK, OneRevision, TasksFit, FreshSees

\* A database that was never synced.
LEMMA InitHolds ==
  ASSUME Init
  PROVE  IInv
<1>1. Absent \in Contents /\ 1 \in Revisions
  BY SyncAssumption DEF Contents, Revisions, SyncAssumption
<1>2. QED
  BY <1>1 DEF Init, IInv, TypeOK, OneRevision, TasksFit, FreshSees

-----------------------------------------------------------------------------
(***************************************************************************)
(* The theorems.                                                           *)
(***************************************************************************)

\* The inductive invariant holds of every behaviour.
THEOREM Invariance == Spec => []IInv
<1>1. Init => IInv
  BY InitHolds
<1>2. IInv /\ [Next]_vars => IInv'
  <2> SUFFICES ASSUME IInv, [Next]_vars PROVE IInv'
    OBVIOUS
  <2>1. CASE Push \/ OthersCommit
    BY <2>1, PushKeeps, OthersKeep
  <2>2. ASSUME NEW s \in Servers,
               Runs(s) \/ Ask(s) \/ HangUp(s) \/ Crash(s) \/ Fails(s) \/ RecordFails(s)
        PROVE  IInv'
    BY <2>2, StartKeeps, AskingKeeps, BeginKeeps, CommitKeeps, FailureKeeps,
       LeavingKeeps DEF Runs
  <2>3. CASE UNCHANGED vars
    BY <2>3 DEF vars, IInv, TypeOK, OneRevision, TasksFit, FreshSees, At
  <2>4. QED
    BY <2>1, <2>2, <2>3 DEF Next
<1>3. QED
  BY <1>1, <1>2, PTL DEF Spec

\* Every variable keeps its shape.
THEOREM TypeCorrect == Spec => []TypeOK
<1>1. IInv => TypeOK
  BY DEF IInv
<1>2. QED
  BY <1>1, Invariance, PTL

\* Whatever syncs overlap, fail or die half-way, the site shows the whole tree
\* of one commit that checks ("one sync reads one revision").
THEOREM OneRevisionShown == Spec => []OneRevision
<1>1. IInv => OneRevision
  BY DEF IInv
<1>2. QED
  BY <1>1, Invariance, PTL

-----------------------------------------------------------------------------
(***************************************************************************)
(* One server.                                                             *)
(*                                                                         *)
(* Its syncs run one at a time and the branch only moves forward, so they  *)
(* resolve later and later commits: what is named is not later than what   *)
(* is shown, what is shown not later than what a sync resolved, and that   *)
(* not later than the branch.  A sync that finds its commit named stands   *)
(* at both ends of that chain.  Two servers break it (the run sync_skip).  *)
(***************************************************************************)
OneServer == \A s, t \in Servers : s = t

\* What is named, what is shown and what the branch is at.
InOrder ==
  /\ sync_state.revision # None => sync_state.revision <= built
  /\ built <= head

\* What a sync knows when no other one runs.
Alone(t) ==
  /\ t.sha # None => built <= t.sha /\ t.sha <= head
  /\ t.step # "record" => t.outcome = None
  /\ t.step = "commit" => t.seen = rows
  /\ t.step \in {"check", "download", "begin", "commit"} \/ t.outcome \in {"synced", "current"} =>
       t.sha \in Revisions /\ (t.expected # None => t.sha = t.expected)
  /\ t.outcome \in {"synced", "current"} => built = t.sha
  /\ t.outcome = "current" => sync_state.revision = t.sha

\* The inductive invariant of one server, over that of any number.
OneInv == IInv /\ InOrder /\ \A s \in Servers : task[s] # None => Alone(task[s])

\* The only server takes a step.
LEMMA OneKeeps ==
  ASSUME OneServer, IInv', InOrder', NEW s \in Servers, task'[s] # None => Alone(task[s])'
  PROVE  OneInv'
  BY DEF OneServer, OneInv

\* The numbers that are compared.
LEMMA Numbers ==
  ASSUME IInv
  PROVE  /\ built \in Nat /\ head \in Nat /\ head \in Revisions /\ Revisions \subseteq Nat
         /\ None \notin Revisions \union {"synced", "current", "failed"} /\ 0 \notin Revisions
         /\ sync_state.revision \in Revisions \union {None}
         /\ \A s \in Servers : task[s] # None => task[s] \in TaskType
  BY SyncAssumption DEF SyncAssumption, IInv, TypeOK, Revisions

\* What a sync becomes when it goes on to t.
LEMMA Becomes ==
  ASSUME IInv, NEW s \in Servers, NEW t, task' = [task EXCEPT ![s] = t]
  PROVE  task'[s] = t
  BY DEF IInv, TypeOK

\* A sync begins.
LEMMA OneStarts ==
  ASSUME OneServer, OneInv, IInv', NEW s \in Servers, Boot(s) \/ Poll(s) \/ Ask(s)
  PROVE  OneInv'
<1>1. UNCHANGED <<head, sync_state, built>>
  BY DEF Boot, Poll, Ask
<1>2. \E force, expected : task' = [task EXCEPT ![s] = Task(force, expected)]
  BY DEF Boot, Poll, Ask, Starts
<1>3. PICK force, expected : task'[s] = Task(force, expected)
  BY <1>2, Becomes DEF OneInv
<1>4. Alone(task[s])'
  BY <1>3, Numbers DEF Alone, Task, OneInv
<1> QED
  BY <1>1, <1>4, OneKeeps DEF OneInv, InOrder

\* A sync asks the branch.
LEMMA OneResolves ==
  ASSUME OneServer, OneInv, IInv', NEW s \in Servers, Resolve(s)
  PROVE  OneInv'
<1> DEFINE t == task[s]
<1>1. /\ UNCHANGED <<head, rows, sync_state, built>> /\ InOrder /\ Alone(t)
      /\ t \in TaskType /\ t.step = "resolve" /\ t.outcome = None
      /\ task \in [Servers -> TaskType \union {None}]
  BY Numbers DEF Resolve, At, OneInv, Alone, IInv, TypeOK
<1>2. CASE /\ t.expected \in {None, head}
           /\ task' = [task EXCEPT ![s].sha = head, ![s].step = "check"]
  <2>1. /\ task'[s].sha = head /\ task'[s].step = "check"
        /\ task'[s].outcome = None /\ task'[s].expected = t.expected
    BY <1>1, <1>2 DEF TaskType
  <2>2. head \in Revisions /\ head <= head /\ built <= head
    BY <1>1, Numbers DEF OneInv, InOrder
  <2>3. Alone(task[s])'
    BY <1>1, <1>2, <2>1, <2>2, Numbers DEF Alone, OneInv
  <2> QED
    BY <1>1, <2>3, OneKeeps DEF InOrder
<1>3. CASE task' = [task EXCEPT ![s].tries = @ + 1]
  <2>1. /\ task'[s].sha = t.sha /\ task'[s].step = "resolve"
        /\ task'[s].outcome = None /\ task'[s].expected = t.expected
    BY <1>1, <1>3 DEF TaskType
  <2> QED
    BY <1>1, <2>1, OneKeeps DEF Alone, InOrder
<1>4. CASE Ends(s, "failed")
  <2>1. task'[s].sha = t.sha /\ task'[s].step = "record" /\ task'[s].outcome = "failed"
    BY <1>1, <1>4 DEF TaskType, Ends
  <2> QED
    BY <1>1, <2>1, OneKeeps DEF Alone, InOrder
<1> QED
  BY <1>2, <1>3, <1>4 DEF Resolve

\* A sync that finds its commit named finds it shown.
LEMMA OneChecks ==
  ASSUME OneServer, OneInv, IInv', NEW s \in Servers, Check(s)
  PROVE  OneInv'
<1> DEFINE t == task[s]
<1>1. /\ UNCHANGED <<head, rows, sync_state, built>> /\ InOrder /\ Alone(t)
      /\ t \in TaskType /\ t.step = "check" /\ t.outcome = None
      /\ task \in [Servers -> TaskType \union {None}]
  BY Numbers DEF Check, At, OneInv, Alone, IInv, TypeOK
<1>2. t.sha \in Revisions /\ (t.expected # None => t.sha = t.expected) /\ built <= t.sha
  BY <1>1, Numbers DEF Alone, OneInv
<1>3. CASE IsCurrent(t) /\ Ends(s, "current")
  <2>1. /\ task'[s].sha = t.sha /\ task'[s].step = "record"
        /\ task'[s].outcome = "current" /\ task'[s].expected = t.expected
    BY <1>1, <1>3 DEF TaskType, Ends
  <2>2. sync_state.revision = t.sha /\ t.sha <= built
    BY <1>1, <1>2, <1>3, Numbers DEF IsCurrent, InOrder, OneInv
  <2>3. built = t.sha
    BY <1>2, <2>2, Numbers DEF OneInv
  <2> QED
    BY <1>1, <1>2, <2>1, <2>2, <2>3, OneKeeps DEF Alone, InOrder
<1>4. CASE Goes(s, "download")
  <2>1. /\ task'[s].sha = t.sha /\ task'[s].step = "download"
        /\ task'[s].outcome = None /\ task'[s].expected = t.expected
    BY <1>1, <1>4 DEF TaskType, Goes
  <2> QED
    BY <1>1, <1>2, <2>1, OneKeeps DEF Alone, InOrder
<1> QED
  BY <1>3, <1>4 DEF Check

\* A sync downloads, and its transaction reads.
LEMMA OneReads ==
  ASSUME OneServer, OneInv, IInv', NEW s \in Servers, Download(s) \/ Begin(s)
  PROVE  OneInv'
<1> DEFINE t == task[s]
<1>1. /\ UNCHANGED <<head, rows, sync_state, built>> /\ InOrder /\ Alone(t)
      /\ t \in TaskType /\ t.step \in {"download", "begin"} /\ t.outcome = None
      /\ task \in [Servers -> TaskType \union {None}]
  BY Numbers DEF Download, Begin, At, OneInv, Alone, IInv, TypeOK
<1>2. CASE Ends(s, "failed")
  <2>1. task'[s].sha = t.sha /\ task'[s].step = "record" /\ task'[s].outcome = "failed"
    BY <1>1, <1>2 DEF TaskType, Ends
  <2> QED
    BY <1>1, <2>1, OneKeeps DEF Alone, InOrder
<1>3. CASE Goes(s, "begin")
  <2>1. /\ task'[s].sha = t.sha /\ task'[s].step = "begin"
        /\ task'[s].outcome = None /\ task'[s].expected = t.expected
    BY <1>1, <1>3 DEF TaskType, Goes
  <2> QED
    BY <1>1, <2>1, OneKeeps DEF Alone, InOrder
<1>4. CASE Begin(s)
  <2>1. /\ task'[s].sha = t.sha /\ task'[s].step = "commit" /\ task'[s].seen = rows
        /\ task'[s].outcome = None /\ task'[s].expected = t.expected
    BY <1>1, <1>4 DEF TaskType, Begin
  <2> QED
    BY <1>1, <2>1, OneKeeps DEF Alone, InOrder
<1> QED
  BY <1>2, <1>3, <1>4 DEF Download

\* What one server commits is the tree of the commit it resolved.
LEMMA OneShows ==
  ASSUME OneInv, NEW s \in Servers, Commit(s)
  PROVE  /\ task[s].sha \in Revisions \ Broken /\ built <= task[s].sha /\ task[s].sha <= head
         /\ built' = task[s].sha /\ rows' = Trees[task[s].sha]
<1> DEFINE t == task[s]
<1>1. t # None /\ t \in TaskType /\ t.step = "commit" /\ Alone(t)
  BY Numbers DEF Commit, At, OneInv
<1>2. t.sha \in Revisions \ Broken /\ t.seen = rows /\ rows \in [Names -> Contents]
  BY <1>1 DEF OneInv, IInv, TasksFit, Alone, TypeOK
<1>3. built <= t.sha /\ t.sha <= head
  BY <1>1, <1>2, Numbers DEF Alone, OneInv
<1>4. rows' = Trees[t.sha]
  BY <1>2, IndexMakesTheTree DEF Commit
<1>5. built' = t.sha
  <2>1. ~Writes(t) => rows' = rows
    BY <1>2, IdleIndexKeeps DEF Commit
  <2> QED
    BY <1>4, <2>1 DEF Commit
<1> QED
  BY <1>2, <1>3, <1>4, <1>5

\* A sync commits.
LEMMA OneCommits ==
  ASSUME OneServer, OneInv, IInv', NEW s \in Servers, Commit(s)
  PROVE  OneInv'
<1> DEFINE t == task[s]
<1>1. /\ UNCHANGED <<head, sync_state>> /\ InOrder /\ Alone(t)
      /\ t \in TaskType /\ t.step = "commit" /\ Ends(s, "synced")
      /\ task \in [Servers -> TaskType \union {None}]
  BY Numbers DEF Commit, At, OneInv, IInv, TypeOK
<1>2. /\ t.sha \in Revisions /\ built <= t.sha /\ t.sha <= head /\ built' = t.sha
      /\ (t.expected # None => t.sha = t.expected)
  BY <1>1, OneShows DEF Alone
<1>3. /\ task'[s].sha = t.sha /\ task'[s].step = "record"
      /\ task'[s].outcome = "synced" /\ task'[s].expected = t.expected
  BY <1>1 DEF TaskType, Ends
<1>4. t.sha <= t.sha /\ InOrder'
  BY <1>1, <1>2, Numbers DEF InOrder, OneInv
<1>5. Alone(task[s])'
  BY <1>1, <1>2, <1>3, <1>4 DEF Alone
<1> QED
  BY <1>4, <1>5, OneKeeps

\* A sync fails.
LEMMA OneFails ==
  ASSUME OneServer, OneInv, IInv', NEW s \in Servers, Busy(s) \/ Fails(s)
  PROVE  OneInv'
<1>1. /\ UNCHANGED <<head, rows, sync_state, built>> /\ InOrder /\ Alone(task[s])
      /\ task[s] \in TaskType /\ Ends(s, "failed")
      /\ task \in [Servers -> TaskType \union {None}]
  BY Numbers DEF Busy, Fails, At, OneInv, IInv, TypeOK
<1>2. /\ task'[s].sha = task[s].sha /\ task'[s].step = "record"
      /\ task'[s].outcome = "failed"
  BY <1>1 DEF TaskType, Ends
<1> QED
  BY <1>1, <1>2, OneKeeps DEF Alone, InOrder

\* What a server that records a sync names: what is shown, or what was named.
LEMMA OneNames ==
  ASSUME OneInv, NEW s \in Servers, Record(s)
  PROVE  \/ sync_state'.revision = sync_state.revision
         \/ task[s].outcome = "synced" /\ sync_state'.revision = built /\ built \in Revisions
<1>1. Alone(task[s]) /\ sync_state' = Recorded(sync_state, task[s])
      /\ sync_state \in [revision : Revisions \union {None}, synced : BOOLEAN, error : BOOLEAN]
  BY DEF Record, At, OneInv, IInv, TypeOK
<1>2. CASE task[s].outcome = "synced"
  BY <1>1, <1>2 DEF Recorded, Alone
<1>3. CASE task[s].outcome # "synced"
  BY <1>1, <1>3 DEF Recorded
<1> QED
  BY <1>2, <1>3

\* A sync is over, or its server is.
LEMMA OneLeaves ==
  ASSUME OneServer, OneInv, IInv', NEW s \in Servers,
         Record(s) \/ RecordFails(s) \/ HangUp(s) \/ Crash(s)
  PROVE  OneInv'
<1>1. task' = [task EXCEPT ![s] = None] /\ UNCHANGED <<head, built>>
  BY DEF Record, RecordFails, HangUp, Crash, Leaves
<1>2. task'[s] = None
  BY <1>1, Becomes DEF OneInv
<1>3. sync_state'.revision \in {sync_state.revision, built}
  BY OneNames DEF RecordFails, HangUp, Crash
<1>4. built <= built
  BY Numbers DEF OneInv
<1> QED
  BY <1>1, <1>2, <1>3, <1>4, OneKeeps DEF OneInv, InOrder

\* The branch moves, or something that is not content is committed.
LEMMA OneWatches ==
  ASSUME OneServer, OneInv, IInv', Push \/ OthersCommit
  PROVE  OneInv'
<1>1. /\ UNCHANGED <<task, rows, sync_state, built>>
      /\ head' \in Nat /\ head <= head'
  BY Numbers DEF Push, OthersCommit, OneInv
<1>2. InOrder'
  BY <1>1, Numbers DEF OneInv, InOrder
<1>3. ASSUME NEW s \in Servers, task[s] # None
      PROVE  Alone(task[s])'
  <2>1. Alone(task[s]) /\ task[s] \in TaskType /\ None \notin Revisions /\ Revisions \subseteq Nat
    BY <1>3, Numbers DEF OneInv
  <2>2. task[s].sha # None => task[s].sha <= head'
    <3>1. task[s].sha # None => task[s].sha \in Nat
      BY <2>1 DEF TaskType
    <3>2. task[s].sha # None => task[s].sha <= head
      BY <2>1 DEF Alone
    <3> QED
      BY <1>1, <3>1, <3>2, Numbers DEF OneInv
  <2>3. task'[s] = task[s] /\ rows' = rows /\ built' = built /\ sync_state' = sync_state
    BY <1>1
  <2> QED
    BY <2>1, <2>2, <2>3 DEF Alone
<1> QED
  BY <1>1, <1>2, <1>3 DEF OneInv

\* Every step of one server keeps its invariant.
LEMMA OneStepKeeps ==
  ASSUME OneServer, OneInv, IInv', [Next]_vars
  PROVE  OneInv'
<1>1. CASE Push \/ OthersCommit
  BY <1>1, OneWatches
<1>2. ASSUME NEW s \in Servers,
             Runs(s) \/ Ask(s) \/ HangUp(s) \/ Crash(s) \/ Fails(s) \/ RecordFails(s)
      PROVE  OneInv'
  BY <1>2, OneStarts, OneResolves, OneChecks, OneReads, OneCommits, OneFails, OneLeaves DEF Runs
<1>3. CASE UNCHANGED vars
  BY <1>3 DEF vars, OneInv, InOrder, Alone
<1> QED
  BY <1>1, <1>2, <1>3 DEF Next

\* At first nothing is shown and nothing runs.
LEMMA OneInit ==
  ASSUME Init
  PROVE  OneInv
  BY InitHolds DEF Init, OneInv, InOrder

\* The invariant of one server holds, whatever fails and however often it dies.
THEOREM OneInvariance == OneServer => (Spec => []OneInv)
<1> SUFFICES ASSUME OneServer
             PROVE  Spec => []OneInv
  OBVIOUS
<1>1. Init => OneInv
  BY OneInit
<1>2. OneInv /\ IInv' /\ [Next]_vars => OneInv'
  BY OneStepKeeps
<1> QED
  BY <1>1, <1>2, Invariance, PTL DEF Spec

\* What a sync of one server finds current is what the database shows, though
\* the commit is named in a statement of its own after the index has committed,
\* and that one may fail (`is_current`).
THEOREM SkipsAreSound == OneServer => (Spec => []SkipIsSound)
<1> SUFFICES ASSUME OneServer
             PROVE  Spec => []SkipIsSound
  OBVIOUS
<1>1. OneInv => SkipIsSound
  BY Numbers DEF OneInv, IInv, OneRevision, Alone, SkipIsSound, At
<1> QED
  BY <1>1, OneInvariance, PTL

\* Who asks one server for the commit it pushed, and gets an answer, is shown
\* that commit, whatever the branch has moved to by then.
THEOREM ExpectedOnesAreShown == OneServer => (Spec => ExpectedIsShown)
<1> SUFFICES ASSUME OneServer
             PROVE  Spec => ExpectedIsShown
  OBVIOUS
<1>1. ASSUME OneInv, [Next]_vars, NEW s \in Servers, Answers(s), task[s].expected # None
      PROVE  sync_state'.revision = task[s].expected /\ rows' = Trees[task[s].expected]
  <2> DEFINE t == task[s]
  <2>1. /\ t # None /\ t.outcome \in {"synced", "current"} /\ Alone(t) /\ t \in TaskType
        /\ sync_state' = Recorded(sync_state, t)
    BY <1>1, Numbers DEF Answers, OneInv
  <2>2. t.sha = t.expected /\ t.sha \in Revisions /\ built = t.sha /\ rows = Trees[t.sha]
    BY <1>1, <2>1, Numbers DEF Alone, OneInv, IInv, OneRevision
  <2>3. rows' = rows
    <3>1. \A u \in Servers : ~Commit(u)
      BY <1>1, <2>1, Numbers DEF OneServer, Commit, At, Alone, OneInv
    <3> QED
      BY <1>1, <3>1 DEF Next, Runs, Push, OthersCommit, Boot, Poll, Resolve, Check, Download,
         Begin, Busy, Record, Ask, HangUp, Crash, Fails, RecordFails, vars
  <2>4. sync_state'.revision = t.sha
    BY <1>1, <2>1 DEF Recorded, Alone, OneInv, IInv, TypeOK
  <2> QED
    BY <2>2, <2>3, <2>4
<1>2. OneInv /\ [Next]_vars =>
        [\A s \in Servers : Answers(s) /\ task[s].expected # None =>
           /\ sync_state'.revision = task[s].expected
           /\ rows' = Trees[task[s].expected]]_vars
  BY <1>1
<1> QED
  BY <1>2, OneInvariance, PTL DEF ExpectedIsShown, Spec

\* One server keeps the promise of Materialized, step by step: a commit shows a
\* whole tree and never an earlier one, a record names the one that is shown,
\* and every other step, a failure or a crash between the two included, changes
\* neither.
THEOREM Materializes == OneServer => (Spec => ShowsOneRevision)
<1> SUFFICES ASSUME OneServer
             PROVE  Spec => ShowsOneRevision
  OBVIOUS
<1>1. Init => M!Init
  BY DEF Init, M!Init, M!Empty
<1>2. ASSUME OneInv, [Next]_vars
      PROVE  [M!Next]_<<built, rows, sync_state.revision>>
  <2>1. ASSUME NEW s \in Servers, Commit(s)
        PROVE  M!Show
    <3>1. task[s].sha \in Nat /\ task[s].sha >= built /\ sync_state' = sync_state
      BY <1>2, <2>1, OneShows, Numbers DEF OneInv, Commit
    <3> QED
      BY <1>2, <2>1, <3>1, OneShows DEF M!Show
  <2>2. ASSUME NEW s \in Servers, Record(s)
        PROVE  M!Name \/ UNCHANGED <<built, rows, sync_state.revision>>
    BY <1>2, <2>2, OneNames, Numbers DEF M!Name, Record, OneInv
  <2>3. CASE \/ UNCHANGED vars \/ Push \/ OthersCommit
             \/ \E s \in Servers :
                  \/ Boot(s) \/ Poll(s) \/ Resolve(s) \/ Check(s) \/ Download(s) \/ Begin(s)
                  \/ Busy(s) \/ Ask(s) \/ HangUp(s) \/ Crash(s) \/ Fails(s) \/ RecordFails(s)
    BY <2>3 DEF vars, Push, OthersCommit, Boot, Poll, Resolve, Check, Download, Begin, Busy,
       Ask, HangUp, Crash, Fails, RecordFails
  <2> QED
    BY <1>2, <2>1, <2>2, <2>3 DEF Next, Runs, M!Next
<1>3. OneInv /\ [Next]_vars => [M!Next]_<<built, rows, sync_state.revision>>
  BY <1>2
<1> QED
  BY <1>1, <1>3, OneInvariance, PTL DEF Spec, ShowsOneRevision, M!Spec
=============================================================================
