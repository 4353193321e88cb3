------------------------------- MODULE Backup -------------------------------
(***************************************************************************)
(* The metrics backup (crates/server/src/backup.rs and                     *)
(* crates/core/src/backup.rs): every closed day, as one file of a GitHub   *)
(* repository.                                                             *)
(*                                                                         *)
(* Each server passes now and then: it restores a database that was never  *)
(* backed up, then uploads the closed days the repository lacks.  While a  *)
(* deploy runs two servers pass over one database and one repository.      *)
(* A pass is cut at its awaits, and a write of a file at its two requests. *)
(*                                                                         *)
(* What the days count is the business of Metrics; here a day is a row     *)
(* with a number of views, open or closed.                                 *)
(***************************************************************************)
EXTENDS Naturals, FiniteSets, FiniteSetsExt

CONSTANTS
  Servers,      \* The processes that may run over one database.
  LastDay,      \* The days of the model are 1 .. LastDay.
  None,         \* No row, no file, no pass.
  MaxViews,     \* Bound: views counted on a day until it is closed.
  MaxLate,      \* Bound: views that reach a day already closed.
  MaxFails,     \* Bound: requests and statements that fail.
  MaxStops,     \* Bound: crashes and shutdowns.
  MaxLosses     \* Bound: losses of the volume that holds the database.

Days == 1 .. LastDay

Row == [views : Nat, closed : BOOLEAN]

Files == [Days -> Nat \union {None}]

\* A pass under way: the days it found to upload, the record of the first of
\* them, the file the repository showed for it, whether a write of it was
\* refused already, and the files downloaded for a restore.
PassType ==
  [step : {"exists", "has_backups", "download", "restore", "pending", "record",
           "read", "put", "note"},
   pending : SUBSET Days, bytes : Nat \union {None}, existing : Nat \union {None},
   refused : BOOLEAN, records : Files]

ASSUME BackupAssumption ==
  /\ {LastDay, MaxViews, MaxLate, MaxFails, MaxStops, MaxLosses} \subseteq Nat
  /\ None \notin Nat \union Row \union PassType

VARIABLES
  today,            \* The day in progress.
  since,            \* The first day the database's processes may have counted.
  daily,            \* The row of each day.
  metrics_backup,   \* The days noted as held by the repository.
  repo,             \* The repository: the file of each day.
  up,               \* The processes that run.
  state,            \* What a process keeps between two passes.
  pass              \* The pass each process has begun, if any.

\* History and bounds: the commits made for each day, the days a late view
\* reached, and how often the bounded things happened.
VARIABLES commits, late, fails, stops, losses

world == <<today, since, daily, up>>

history == <<commits, late, fails, stops, losses>>

vars == <<world, metrics_backup, repo, state, pass, history>>

NoRows == [d \in Days |-> None]

\* A process before its first pass.
NewState == [checked |-> FALSE, restored |-> FALSE, failed |-> FALSE]

NewPass == [step |-> "exists", pending |-> {}, bytes |-> None, existing |-> None,
            refused |-> FALSE, records |-> NoRows]

Init ==
  /\ today = 1
  /\ since = 1
  /\ daily = NoRows
  /\ metrics_backup = {}
  /\ repo = NoRows
  /\ up = Servers
  /\ state = [s \in Servers |-> NewState]
  /\ pass = [s \in Servers |-> None]
  /\ commits = [d \in Days |-> 0]
  /\ late = {}
  /\ fails = 0
  /\ stops = 0
  /\ losses = 0

IsClosed(d) == daily[d] # None /\ daily[d].closed

-----------------------------------------------------------------------------
(***************************************************************************)
(* The world: days and their flushes, processes and the volume.            *)
(***************************************************************************)
Midnight ==
  /\ today \in Days
  /\ today' = today + 1
  /\ UNCHANGED <<since, daily, up, metrics_backup, repo, state, pass, history>>

Views(d) == IF daily[d] = None THEN 0 ELSE daily[d].views

\* A flush counts a view of a day that is not closed: the one in progress, or
\* one that ended under the processes that run.
Count(d) ==
  /\ up # {}
  /\ since <= d /\ d <= today
  /\ ~IsClosed(d)
  /\ Views(d) < MaxViews
  /\ daily' = [daily EXCEPT ![d] = [views |-> Views(d) + 1, closed |-> FALSE]]
  /\ UNCHANGED <<today, since, up, metrics_backup, repo, state, pass, history>>

\* Mutant of Close: the day in progress is closed too.
CloseToday ==
  /\ up # {}
  /\ \E d \in Days : d <= today /\ daily[d] # None /\ ~daily[d].closed
  /\ daily' = [d \in Days |-> IF daily[d] # None /\ d <= today
                                THEN [daily[d] EXCEPT !.closed = TRUE]
                                ELSE daily[d]]
  /\ UNCHANGED <<today, since, up, metrics_backup, repo, state, pass, history>>

\* A flush closes the days that ended.
Close ==
  /\ up # {}
  /\ \E d \in Days : d < today /\ daily[d] # None /\ ~daily[d].closed
  /\ daily' = [d \in Days |-> IF daily[d] # None /\ d < today
                                THEN [daily[d] EXCEPT !.closed = TRUE]
                                ELSE daily[d]]
  /\ UNCHANGED <<today, since, up, metrics_backup, repo, state, pass, history>>

\* A flush that comes after the grace adds to a closed day.
Late(d) ==
  /\ up # {}
  /\ Cardinality(late) < MaxLate
  /\ IsClosed(d) /\ d \notin late
  /\ daily' = [daily EXCEPT ![d].views = @ + 1]
  /\ late' = late \union {d}
  /\ UNCHANGED <<today, since, up, metrics_backup, repo, state, pass, commits, fails, stops,
                 losses>>

Boot(s) ==
  /\ s \notin up
  /\ up' = up \union {s}
  /\ UNCHANGED <<today, since, daily, metrics_backup, repo, state, pass, history>>

\* A crash, or a shutdown that drops the pass where it is.
Stop(s) ==
  /\ s \in up
  /\ stops < MaxStops
  /\ stops' = stops + 1
  /\ up' = up \ {s}
  /\ state' = [state EXCEPT ![s] = NewState]
  /\ pass' = [pass EXCEPT ![s] = None]
  /\ UNCHANGED <<today, since, daily, metrics_backup, repo, commits, late, fails, losses>>

\* The volume is gone, and the processes over it.
LoseVolume ==
  /\ losses < MaxLosses
  /\ losses' = losses + 1
  /\ daily' = NoRows
  /\ since' = today
  /\ metrics_backup' = {}
  /\ up' = {}
  /\ state' = [s \in Servers |-> NewState]
  /\ pass' = [s \in Servers |-> None]
  /\ UNCHANGED <<today, repo, commits, late, fails, stops>>

-----------------------------------------------------------------------------
(***************************************************************************)
(* A pass.                                                                 *)
(***************************************************************************)
At(s, step) == pass[s] # None /\ pass[s].step = step

Goes(s, step) == pass' = [pass EXCEPT ![s].step = step]

\* The pass is over; the next waits an hour if this one failed.
Ends(s, failed) ==
  /\ pass' = [pass EXCEPT ![s] = None]
  /\ state' = [state EXCEPT ![s].failed = failed]

\* The ticker: a pass begins where the process got to before.
Begin(s) ==
  /\ s \in up /\ pass[s] = None /\ ~state[s].failed
  /\ pass' = [pass EXCEPT ![s] =
       [NewPass EXCEPT !.step = IF ~state[s].checked THEN "exists"
                                ELSE IF ~state[s].restored THEN "has_backups"
                                ELSE "pending"]]
  /\ UNCHANGED <<world, metrics_backup, repo, state, history>>

\* An hour has passed since a failed pass.
RetryAfter(s) ==
  /\ s \in up /\ state[s].failed
  /\ state' = [state EXCEPT ![s].failed = FALSE]
  /\ UNCHANGED <<world, metrics_backup, repo, pass, history>>

\* The repository answers, once per process.
Exists(s) ==
  /\ At(s, "exists")
  /\ state' = [state EXCEPT ![s].checked = TRUE]
  /\ Goes(s, IF state[s].restored THEN "pending" ELSE "has_backups")
  /\ UNCHANGED <<world, metrics_backup, repo, history>>

\* A database that was ever backed up or restored needs no restore.
HasBackups(s) ==
  /\ At(s, "has_backups")
  /\ IF metrics_backup = {}
       THEN Goes(s, "download") /\ UNCHANGED state
       ELSE Goes(s, "pending") /\ state' = [state EXCEPT ![s].restored = TRUE]
  /\ UNCHANGED <<world, metrics_backup, repo, history>>

\* Every file of the repository, from one tarball.
Download(s) ==
  /\ At(s, "download")
  /\ pass' = [pass EXCEPT ![s].records = repo, ![s].step = "restore"]
  /\ UNCHANGED <<world, metrics_backup, repo, state, history>>

\* The days of a restore that the database does not have.
NewDays(records) == {d \in Days : records[d] # None /\ daily[d] = None}

\* One transaction: a day the database already has keeps its own counts.
Restore(s) ==
  /\ At(s, "restore")
  /\ LET records == pass[s].records
     IN /\ daily' = [d \in Days |-> IF d \in NewDays(records)
                                      THEN [views |-> records[d], closed |-> TRUE]
                                      ELSE daily[d]]
        /\ metrics_backup' = metrics_backup \union NewDays(records)
  /\ pass' = [pass EXCEPT ![s].records = NoRows, ![s].step = "pending"]
  /\ state' = [state EXCEPT ![s].restored = TRUE]
  /\ UNCHANGED <<today, since, up, repo, history>>

\* Mutant of PendingBackups: only the day that has just ended.
Yesterday == {d \in Days : IsClosed(d) /\ d \notin metrics_backup /\ d + 1 = today}

\* Closed days not noted as held.
PendingBackups == {d \in Days : IsClosed(d) /\ d \notin metrics_backup}

\* On to the next day of a pass, or to its end.
Uploads(s, days) ==
  IF days = {}
    THEN Ends(s, FALSE)
    ELSE /\ pass' = [pass EXCEPT ![s] = [NewPass EXCEPT !.step = "record", !.pending = days]]
         /\ UNCHANGED state

Pending(s) ==
  /\ At(s, "pending")
  /\ Uploads(s, PendingBackups)
  /\ UNCHANGED <<world, metrics_backup, repo, history>>

\* The day being uploaded: the oldest.
Uploading(s) == Min(pass[s].pending)

\* Mutant of DayRecord: the day is noted as soon as it is read.
DayRecordNoted(s) ==
  /\ At(s, "record")
  /\ pass' = [pass EXCEPT ![s].bytes = daily[Uploading(s)].views, ![s].step = "read"]
  /\ metrics_backup' = metrics_backup \union {Uploading(s)}
  /\ UNCHANGED <<world, repo, state, history>>

\* The day's file is made of its rows, in one read transaction.  A day that was
\* closed when the pass found it still is.
DayRecord(s) ==
  /\ At(s, "record")
  /\ IsClosed(Uploading(s))
  /\ pass' = [pass EXCEPT ![s].bytes = daily[Uploading(s)].views, ![s].step = "read"]
  /\ UNCHANGED <<world, metrics_backup, repo, state, history>>

\* Mutant of Read: the file is read for its id only, and written regardless.
ReadId(s) ==
  /\ At(s, "read")
  /\ pass' = [pass EXCEPT ![s].existing = repo[Uploading(s)], ![s].step = "put"]
  /\ UNCHANGED <<world, metrics_backup, repo, state, history>>

\* The file is read first: the same bytes are left alone.
Read(s) ==
  /\ At(s, "read")
  /\ LET file == repo[Uploading(s)]
     IN pass' = [pass EXCEPT ![s].existing = file,
                             ![s].step = IF file = pass[s].bytes THEN "note" ELSE "put"]
  /\ UNCHANGED <<world, metrics_backup, repo, state, history>>

\* GitHub takes a write that names the file as it is.
Writes(s) ==
  /\ repo[Uploading(s)] = pass[s].existing
  /\ repo' = [repo EXCEPT ![Uploading(s)] = pass[s].bytes]
  /\ commits' = [commits EXCEPT ![Uploading(s)] = @ + 1]

Put(s) ==
  /\ At(s, "put")
  /\ Writes(s)
  /\ Goes(s, "note")
  /\ UNCHANGED <<world, metrics_backup, state, late, fails, stops, losses>>

\* A refused write reads again, once.
PutRefused(s) ==
  /\ At(s, "put")
  /\ repo[Uploading(s)] # pass[s].existing
  /\ IF pass[s].refused
       THEN Ends(s, TRUE)
       ELSE /\ pass' = [pass EXCEPT ![s].refused = TRUE, ![s].step = "read"]
            /\ UNCHANGED state
  /\ UNCHANGED <<world, metrics_backup, repo, history>>

\* The file is written and the answer lost.
AnswerLost(s) ==
  /\ At(s, "put")
  /\ Writes(s)
  /\ fails < MaxFails
  /\ fails' = fails + 1
  /\ Ends(s, TRUE)
  /\ UNCHANGED <<world, metrics_backup, late, stops, losses>>

RecordBackup(s) ==
  /\ At(s, "note")
  /\ metrics_backup' = metrics_backup \union {Uploading(s)}
  /\ Uploads(s, pass[s].pending \ {Uploading(s)})
  /\ UNCHANGED <<world, repo, history>>

\* Mutant of Fails: a restore that fails does not keep the pass from going on.
FailsOpen(s) ==
  /\ pass[s] # None
  /\ fails < MaxFails
  /\ fails' = fails + 1
  /\ IF pass[s].step \in {"download", "restore"}
       THEN Goes(s, "pending") /\ UNCHANGED state
       ELSE Ends(s, TRUE)
  /\ UNCHANGED <<world, metrics_backup, repo, commits, late, stops, losses>>

\* A request or a statement of the pass fails.
Fails(s) ==
  /\ pass[s] # None
  /\ fails < MaxFails
  /\ fails' = fails + 1
  /\ Ends(s, TRUE)
  /\ UNCHANGED <<world, metrics_backup, repo, commits, late, stops, losses>>

-----------------------------------------------------------------------------
\* What a process does of its own account.
Runs(s) ==
  \/ Boot(s) \/ Begin(s) \/ RetryAfter(s) \/ Exists(s) \/ HasBackups(s)
  \/ Download(s) \/ Restore(s) \/ Pending(s) \/ DayRecord(s) \/ Read(s)
  \/ Put(s) \/ PutRefused(s) \/ RecordBackup(s)

Next ==
  \/ Midnight \/ Close \/ LoseVolume
  \/ \E d \in Days : Count(d) \/ Late(d)
  \/ \E s \in Servers : Runs(s) \/ Stop(s) \/ AnswerLost(s) \/ Fails(s)

Spec == Init /\ [][Next]_vars

\* Containers are started again, tickers tick, an hour passes, and requests
\* are answered or time out.
FairSpec == Spec /\ \A s \in Servers : WF_vars(Runs(s))

-----------------------------------------------------------------------------
(***************************************************************************)
(* Properties.                                                             *)
(***************************************************************************)
\* A pass has days to upload from the record of the first to the note of the
\* last, and the bytes of that first day once they are made.
PassOK(p) ==
  /\ p.step \in {"record", "read", "put", "note"} <=> p.pending # {}
  /\ p.step \in {"read", "put", "note"} => p.bytes # None

\* The shape of every variable, and of a pass at each of its steps.
TypeOK ==
  /\ today \in 1 .. LastDay + 1 /\ since \in 1 .. today
  /\ daily \in [Days -> Row \union {None}]
  /\ metrics_backup \subseteq Days
  /\ repo \in Files
  /\ up \subseteq Servers
  /\ state \in [Servers -> [checked : BOOLEAN, restored : BOOLEAN, failed : BOOLEAN]]
  /\ pass \in [Servers -> PassType \union {None}]
  /\ \A s \in Servers : pass[s] # None => s \in up /\ PassOK(pass[s])
  /\ commits \in [Days -> Nat]
  /\ late \subseteq Days
  /\ {fails, stops, losses} \subseteq Nat

\* metrics_backup, "Closed days the metrics repository holds": a day noted is
\* closed and has a file, whatever fails, stops or is lost between the write
\* and the note.
NotedIsHeld == \A d \in metrics_backup : IsClosed(d) /\ repo[d] # None

\* A day that the database and the repository both have is closed, and its file
\* says what the database says, unless a late view reached it.
FilesAgree ==
  \A d \in Days :
    repo[d] # None /\ daily[d] # None =>
      /\ IsClosed(d)
      /\ d \notin late => daily[d].views = repo[d]

\* "The same bytes are not sent again, so the two servers of a deploy can both
\* pass": a day is committed once, through crashes, lost answers, a loss of the
\* database and two servers that upload it, unless a late view reached it.
OneCommitADay == \A d \in Days \ late : commits[d] <= 1

\* Every closed day is in the repository, again and again: whatever fails or
\* stops, the passes catch up with the days that closed meanwhile.
HeldInTheEnd == []<>(\A d \in Days : IsClosed(d) => repo[d] # None)

\* What the repository holds comes back after a loss of the database.
RestoredWhole == []<>(\A d \in Days : repo[d] # None => IsClosed(d))
=============================================================================
