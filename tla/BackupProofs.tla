---------------------------- MODULE BackupProofs ----------------------------
(***************************************************************************)
(* What Backup promises for every number of servers and days: whatever     *)
(* fails, stops or is lost, a day noted as held is held, what the database *)
(* and the repository both have agrees, and a day is committed once.       *)
(*                                                                         *)
(* The argument: a closed day keeps its counts unless a late view reaches  *)
(* it, so the bytes a pass carries stay those of its day (PassFits), and a *)
(* file that is there when they are written is those bytes already.        *)
(***************************************************************************)
EXTENDS Backup, WellFoundedInduction, TLAPS

\* Only days that ended are closed or have a file.
DaysEnded == \A d \in Days : IsClosed(d) \/ repo[d] # None => d < today

\* A day with a file that the running processes may have counted has a row.
FilesKnown == \A d \in Days : repo[d] # None /\ since <= d => daily[d] # None

\* A file is a day's first commit.
FilesCommitted == \A d \in Days : commits[d] = 0 <=> repo[d] = None

\* What a pass knows at each of its steps: its days are closed, the bytes it
\* carries are the day's counts, the file it would write differs, the day it
\* would note has a file, and what it would restore is what the repository has.
PassFits(p) ==
  LET day == Min(p.pending)
  IN /\ \A d \in p.pending : IsClosed(d)
     /\ p.step \in {"read", "put", "note"} /\ day \notin late => p.bytes = daily[day].views
     /\ p.step = "put" => p.existing # p.bytes
     /\ p.step = "note" => repo[day] # None
     /\ p.step = "restore" => \A d \in Days : daily[d] = None => p.records[d] = repo[d]

\* The inductive invariant.
IInv ==
  /\ TypeOK
  /\ NotedIsHeld
  /\ FilesAgree
  /\ OneCommitADay
  /\ DaysEnded
  /\ FilesKnown
  /\ FilesCommitted
  /\ \A s \in Servers : pass[s] # None => PassFits(pass[s])

-----------------------------------------------------------------------------
\* A set of naturals that is not empty has its minimum.
LEMMA MinIsLeast ==
  ASSUME NEW S \in SUBSET Nat, S # {}
  PROVE  Min(S) \in S
<1> DEFINE Below == {p \in Nat \X Nat : p[1] < p[2]}
<1>1. IsWellFoundedOn(Below, Nat)
  BY NatLessThanWellFounded DEF OpToRel
<1>2. PICK x \in S : \A y \in S : <<y, x>> \notin Below
  <2> HIDE DEF Below
  <2>1. QED
    BY <1>1, WFMin
<1>3. ASSUME NEW y \in S
      PROVE  x =< y
  <2>1. x \in Nat /\ y \in Nat /\ ~ y < x
    BY <1>2
  <2>2. QED
    BY <2>1
<1>4. QED
  BY <1>3 DEF Min

\* A pass that uploads has a day to upload.
LEMMA UploadingPends ==
  ASSUME NEW p \in PassType, PassOK(p), p.step \in {"record", "read", "put", "note"}
  PROVE  Min(p.pending) \in p.pending /\ Min(p.pending) \in Days
<1>1. p.pending \in SUBSET Days /\ p.pending # {}
  BY DEF PassType, PassOK
<1>2. Days \subseteq Nat
  BY BackupAssumption DEF Days, BackupAssumption
<1>3. QED
  BY <1>1, <1>2, MinIsLeast

-----------------------------------------------------------------------------
(***************************************************************************)
(* A pass that goes on, ends or begins.                                    *)
(***************************************************************************)

\* A step of one pass that writes no day and no file keeps the invariant, when
\* it notes only closed days with a file and leaves a pass that fits.
LEMMA PassMoves ==
  ASSUME IInv, NEW s \in Servers, NEW p \in PassType \union {None},
         p # None => s \in up /\ PassOK(p) /\ PassFits(p),
         pass' = [pass EXCEPT ![s] = p],
         UNCHANGED <<world, repo, commits, late>>,
         metrics_backup' \subseteq Days,
         \A d \in metrics_backup' : IsClosed(d) /\ repo[d] # None,
         state' \in [Servers -> [checked : BOOLEAN, restored : BOOLEAN, failed : BOOLEAN]],
         {fails', stops', losses'} \subseteq Nat
  PROVE  IInv'
<1>1. pass \in [Servers -> PassType \union {None}]
  BY DEF IInv, TypeOK
<1>2. /\ pass' \in [Servers -> PassType \union {None}]
      /\ pass'[s] = p
      /\ \A t \in Servers : t # s => pass'[t] = pass[t]
  BY <1>1
<1>3. TypeOK'
  BY <1>2 DEF IInv, TypeOK, PassOK, world
<1>4. NotedIsHeld' /\ FilesAgree' /\ OneCommitADay' /\ DaysEnded' /\ FilesKnown' /\ FilesCommitted'
  BY DEF IInv, NotedIsHeld, FilesAgree, OneCommitADay, DaysEnded, FilesKnown, FilesCommitted,
         IsClosed, world
<1>5. ASSUME NEW t \in Servers, pass'[t] # None
      PROVE  PassFits(pass[t])'
  <2>1. PassFits(pass'[t])
    BY <1>2, <1>5 DEF IInv
  <2>2. QED
    BY <2>1 DEF PassFits, IsClosed, world
<1>6. QED
  BY <1>3, <1>4, <1>5 DEF IInv

\* What a process at some step of its pass has.
LEMMA PassAt ==
  ASSUME IInv, NEW s \in Servers, pass[s] # None
  PROVE  s \in up /\ pass[s] \in PassType /\ PassOK(pass[s]) /\ PassFits(pass[s])
BY DEF IInv, TypeOK

\* Beginning a pass, and the hour after a failed one.
LEMMA BeginKeeps ==
  ASSUME IInv, NEW s \in Servers, Begin(s) \/ RetryAfter(s)
  PROVE  IInv'
<1>1. /\ state \in [Servers -> [checked : BOOLEAN, restored : BOOLEAN, failed : BOOLEAN]]
      /\ pass \in [Servers -> PassType \union {None}]
      /\ {fails, stops, losses} \subseteq Nat /\ metrics_backup \subseteq Days
      /\ \A d \in metrics_backup : IsClosed(d) /\ repo[d] # None
  BY DEF IInv, TypeOK, NotedIsHeld
<1>2. CASE Begin(s)
  <2> DEFINE step == IF ~state[s].checked THEN "exists"
                     ELSE IF ~state[s].restored THEN "has_backups" ELSE "pending"
             p == [NewPass EXCEPT !.step = step]
  <2>1. step \in {"exists", "has_backups", "pending"}
    OBVIOUS
  <2>2. /\ p \in PassType
        /\ p.step = step /\ p.pending = {}
    BY <2>1 DEF NewPass, PassType, NoRows, Files
  <2>3. pass' = [pass EXCEPT ![s] = p] /\ s \in up
    BY <1>2 DEF Begin
  <2> HIDE DEF step, p
  <2>4. PassOK(p) /\ PassFits(p)
    BY <2>1, <2>2 DEF PassOK, PassFits
  <2>5. QED
    BY <1>1, <1>2, <2>2, <2>3, <2>4, PassMoves DEF Begin, history
<1>3. CASE RetryAfter(s)
  <2>1. pass' = [pass EXCEPT ![s] = pass[s]]
    BY <1>1, <1>3 DEF RetryAfter
  <2>2. state' \in [Servers -> [checked : BOOLEAN, restored : BOOLEAN, failed : BOOLEAN]]
    BY <1>1, <1>3 DEF RetryAfter
  <2>3. pass[s] \in PassType \union {None}
    BY <1>1
  <2>4. pass[s] # None => s \in up /\ PassOK(pass[s]) /\ PassFits(pass[s])
    BY PassAt
  <2>5. QED
    BY <1>1, <1>3, <2>1, <2>2, <2>3, <2>4, PassMoves DEF RetryAfter, history
<1>4. QED
  BY <1>2, <1>3

LEMMA EndsTyped ==
  ASSUME IInv, NEW s \in Servers, NEW failed \in BOOLEAN, Ends(s, failed)
  PROVE  /\ pass' = [pass EXCEPT ![s] = None]
         /\ state' \in [Servers -> [checked : BOOLEAN, restored : BOOLEAN, failed : BOOLEAN]]
BY DEF Ends, IInv, TypeOK

\* The end of a pass that notes nothing.
LEMMA EndKeeps ==
  ASSUME IInv, NEW s \in Servers, NEW failed \in BOOLEAN, Ends(s, failed),
         UNCHANGED <<world, metrics_backup, repo, commits, late>>,
         {fails', stops', losses'} \subseteq Nat
  PROVE  IInv'
<1>1. /\ metrics_backup' \subseteq Days
      /\ \A d \in metrics_backup' : IsClosed(d) /\ repo[d] # None
  BY DEF IInv, TypeOK, NotedIsHeld
<1>2. QED
  BY <1>1, EndsTyped, PassMoves

\* The requests and reads before the days to upload are known.
LEMMA AskingKeeps ==
  ASSUME IInv, NEW s \in Servers, Exists(s) \/ HasBackups(s) \/ Download(s)
  PROVE  IInv'
<1>1. /\ s \in up /\ pass[s] \in PassType /\ PassOK(pass[s]) /\ PassFits(pass[s])
      /\ pass[s].step \in {"exists", "has_backups", "download"}
  BY PassAt DEF Exists, HasBackups, Download, At
<1>2. pass[s].pending = {}
  BY <1>1 DEF PassOK
<1>3. /\ {fails', stops', losses'} \subseteq Nat
      /\ metrics_backup' \subseteq Days
      /\ \A d \in metrics_backup' : IsClosed(d) /\ repo[d] # None
      /\ UNCHANGED <<world, repo, commits, late>>
      /\ state' \in [Servers -> [checked : BOOLEAN, restored : BOOLEAN, failed : BOOLEAN]]
  <2>1. /\ {fails, stops, losses} \subseteq Nat
        /\ metrics_backup \subseteq Days
        /\ \A d \in metrics_backup : IsClosed(d) /\ repo[d] # None
        /\ state \in [Servers -> [checked : BOOLEAN, restored : BOOLEAN, failed : BOOLEAN]]
    BY DEF IInv, TypeOK, NotedIsHeld
  <2>2. /\ UNCHANGED <<world, metrics_backup, repo, history>>
        /\ state' \in {state, [state EXCEPT ![s].checked = TRUE],
                       [state EXCEPT ![s].restored = TRUE]}
    BY DEF Exists, HasBackups, Download
  <2>3. QED
    BY <2>1, <2>2 DEF history
<1>4. \E step \in {"has_backups", "download", "restore", "pending"}, records \in Files :
        /\ step = "restore" => records = repo
        /\ pass' = [pass EXCEPT ![s] = [pass[s] EXCEPT !.step = step, !.records = records]]
  <2>1. pass[s].records \in Files /\ repo \in Files /\ pass \in [Servers -> PassType \union {None}]
    BY <1>1 DEF PassType, IInv, TypeOK
  <2>2. CASE Download(s)
    <3>1. pass' = [pass EXCEPT ![s] = [pass[s] EXCEPT !.step = "restore", !.records = repo]]
      BY <1>1, <2>1, <2>2 DEF Download, PassType
    <3>2. QED
      BY <2>1, <3>1
  <2>3. CASE Exists(s) \/ HasBackups(s)
    <3>1. PICK step \in {"has_backups", "download", "pending"} : Goes(s, step)
      BY <2>3 DEF Exists, HasBackups
    <3>2. pass' = [pass EXCEPT ![s] = [pass[s] EXCEPT !.step = step, !.records = pass[s].records]]
      BY <1>1, <2>1, <3>1 DEF Goes, PassType
    <3>3. QED
      BY <2>1, <3>2
  <2>4. QED
    BY <2>2, <2>3
<1>5. PICK step \in {"has_backups", "download", "restore", "pending"}, records \in Files :
        /\ step = "restore" => records = repo
        /\ pass' = [pass EXCEPT ![s] = [pass[s] EXCEPT !.step = step, !.records = records]]
  BY <1>4
<1> DEFINE p == [pass[s] EXCEPT !.step = step, !.records = records]
<1>6. p \in PassType /\ p.step = step /\ p.records = records /\ p.pending = {}
  BY <1>1, <1>2 DEF PassType
<1>7. pass' = [pass EXCEPT ![s] = p]
  BY <1>5
<1> HIDE DEF p
<1>8. PassOK(p) /\ PassFits(p)
  BY <1>5, <1>6 DEF PassOK, PassFits
<1>9. QED
  BY <1>1, <1>3, <1>6, <1>7, <1>8, PassMoves

\* The next day of a pass, or its end, when the days left are closed.
LEMMA UploadsKeeps ==
  ASSUME IInv, NEW s \in Servers, s \in up, NEW days \in SUBSET Days, Uploads(s, days),
         \A d \in days : IsClosed(d),
         UNCHANGED <<world, repo, history>>,
         metrics_backup' \subseteq Days,
         \A d \in metrics_backup' : IsClosed(d) /\ repo[d] # None
  PROVE  IInv'
<1>1. {fails', stops', losses'} \subseteq Nat
  BY DEF IInv, TypeOK, history
<1>2. CASE days = {}
  <2>1. Ends(s, FALSE)
    BY <1>2 DEF Uploads
  <2>2. UNCHANGED <<world, repo, commits, late>>
    BY DEF history
  <2>3. QED
    BY <1>1, <2>1, <2>2, EndsTyped, PassMoves
<1>3. CASE days # {}
  <2> DEFINE p == [NewPass EXCEPT !.step = "record", !.pending = days]
  <2>1. p \in PassType /\ p.step = "record" /\ p.pending = days
    BY DEF NewPass, PassType, NoRows, Files
  <2>2. /\ pass' = [pass EXCEPT ![s] = p]
        /\ state' \in [Servers -> [checked : BOOLEAN, restored : BOOLEAN, failed : BOOLEAN]]
    BY <1>3 DEF Uploads, IInv, TypeOK
  <2> HIDE DEF p
  <2>3. PassOK(p) /\ PassFits(p)
    BY <1>3, <2>1 DEF PassOK, PassFits
  <2>4. QED
    BY <1>1, <2>1, <2>2, <2>3, PassMoves DEF history
<1>4. QED
  BY <1>2, <1>3

\* Finding the days to upload, and noting the one uploaded.
LEMMA NotingKeeps ==
  ASSUME IInv, NEW s \in Servers, Pending(s) \/ RecordBackup(s)
  PROVE  IInv'
<1>1. /\ s \in up /\ pass[s] \in PassType /\ PassOK(pass[s]) /\ PassFits(pass[s])
      /\ metrics_backup \subseteq Days
      /\ \A d \in metrics_backup : IsClosed(d) /\ repo[d] # None
  BY PassAt DEF IInv, TypeOK, NotedIsHeld, Pending, RecordBackup, At
<1>2. CASE Pending(s)
  <2>1. PendingBackups \subseteq Days /\ \A d \in PendingBackups : IsClosed(d)
    BY DEF PendingBackups
  <2>2. QED
    BY <1>1, <1>2, <2>1, UploadsKeeps DEF Pending
<1>3. CASE RecordBackup(s)
  <2> DEFINE day == Uploading(s)
  <2>1. pass[s].step = "note" /\ day \in pass[s].pending /\ day \in Days
    BY <1>1, <1>3, UploadingPends DEF RecordBackup, At, Uploading
  <2>2. IsClosed(day) /\ repo[day] # None
    BY <1>1, <2>1 DEF PassFits, Uploading
  <2>3. /\ metrics_backup' = metrics_backup \union {day}
        /\ Uploads(s, pass[s].pending \ {day})
        /\ UNCHANGED <<world, repo, history>>
    BY <1>3 DEF RecordBackup
  <2> HIDE DEF day
  <2>4. /\ metrics_backup' \subseteq Days
        /\ \A d \in metrics_backup' : IsClosed(d) /\ repo[d] # None
    BY <1>1, <2>1, <2>2, <2>3
  <2>5. /\ pass[s].pending \ {day} \in SUBSET Days
        /\ \A d \in pass[s].pending \ {day} : IsClosed(d)
    BY <1>1 DEF PassType, PassFits
  <2>6. QED
    BY <1>1, <2>3, <2>4, <2>5, UploadsKeeps
<1>4. QED
  BY <1>2, <1>3

\* The file of the day, its look-up and a refused write.
LEMMA WritingKeeps ==
  ASSUME IInv, NEW s \in Servers, DayRecord(s) \/ Read(s) \/ PutRefused(s)
  PROVE  IInv'
<1> DEFINE day == Uploading(s)
<1>1. /\ s \in up /\ pass[s] \in PassType /\ PassOK(pass[s]) /\ PassFits(pass[s])
      /\ pass[s].step \in {"record", "read", "put"}
      /\ metrics_backup \subseteq Days
      /\ \A d \in metrics_backup : IsClosed(d) /\ repo[d] # None
      /\ {fails, stops, losses} \subseteq Nat
      /\ state \in [Servers -> [checked : BOOLEAN, restored : BOOLEAN, failed : BOOLEAN]]
      /\ daily \in [Days -> Row \union {None}] /\ repo \in Files
      /\ UNCHANGED <<world, metrics_backup, repo, history>>
  BY PassAt DEF IInv, TypeOK, NotedIsHeld, DayRecord, Read, PutRefused, At
<1>2. day \in pass[s].pending /\ day \in Days
  BY <1>1, UploadingPends DEF Uploading
<1>3. IsClosed(day) /\ daily[day] \in Row /\ daily[day].views \in Nat
  BY <1>1, <1>2 DEF PassFits, IsClosed, Row
<1>4. CASE DayRecord(s)
  <2> DEFINE p == [pass[s] EXCEPT !.bytes = daily[day].views, !.step = "read"]
  <2>1. /\ p \in PassType /\ p.step = "read" /\ p.pending = pass[s].pending
        /\ p.bytes = daily[day].views
    BY <1>1, <1>3 DEF PassType
  <2>2. pass' = [pass EXCEPT ![s] = p] /\ UNCHANGED state
    BY <1>4 DEF DayRecord, IInv, TypeOK
  <2> HIDE DEF p
  <2>3. PassOK(p) /\ PassFits(p)
    BY <1>1, <1>2, <1>3, <2>1, BackupAssumption
    DEF PassOK, PassFits, Uploading, BackupAssumption
  <2>4. QED
    BY <1>1, <2>1, <2>2, <2>3, PassMoves DEF history
<1>5. CASE Read(s)
  <2> DEFINE step == IF repo[day] = pass[s].bytes THEN "note" ELSE "put"
             p == [pass[s] EXCEPT !.existing = repo[day], !.step = step]
  <2>1. pass[s].step = "read" /\ pass[s].bytes # None
    BY <1>1, <1>5 DEF Read, At, PassOK
  <2>2. /\ p \in PassType /\ p.step = step /\ p.pending = pass[s].pending
        /\ p.bytes = pass[s].bytes /\ p.existing = repo[day]
    BY <1>1, <1>2 DEF PassType, Files
  <2>3. pass' = [pass EXCEPT ![s] = p] /\ UNCHANGED state
    BY <1>5 DEF Read, IInv, TypeOK
  <2> HIDE DEF p
  <2>4. PassOK(p) /\ PassFits(p)
    BY <1>1, <1>2, <2>1, <2>2 DEF PassOK, PassFits, Uploading
  <2>5. QED
    BY <1>1, <2>2, <2>3, <2>4, PassMoves DEF history
<1>6. CASE PutRefused(s)
  <2>1. CASE pass[s].refused
    <3>1. Ends(s, TRUE)
      BY <1>6, <2>1 DEF PutRefused
    <3>2. QED
      BY <1>1, <3>1, EndKeeps DEF history
  <2>2. CASE ~pass[s].refused
    <3> DEFINE p == [pass[s] EXCEPT !.refused = TRUE, !.step = "read"]
    <3>1. pass[s].step = "put" /\ pass[s].bytes # None
      BY <1>1, <1>6 DEF PutRefused, At, PassOK
    <3>2. /\ p \in PassType /\ p.step = "read" /\ p.pending = pass[s].pending
          /\ p.bytes = pass[s].bytes
      BY <1>1 DEF PassType
    <3>3. pass' = [pass EXCEPT ![s] = p] /\ UNCHANGED state
      BY <1>6, <2>2 DEF PutRefused, IInv, TypeOK
    <3> HIDE DEF p
    <3>4. PassOK(p) /\ PassFits(p)
      BY <1>1, <3>1, <3>2 DEF PassOK, PassFits
    <3>5. QED
      BY <1>1, <3>2, <3>3, <3>4, PassMoves DEF history
  <2>3. QED
    BY <2>1, <2>2
<1>7. QED
  BY <1>4, <1>5, <1>6

-----------------------------------------------------------------------------
(***************************************************************************)
(* Days that go on, end and are closed.                                    *)
(***************************************************************************)

\* Days may go on as they like, when closed ones stay so, with their counts
\* unless a late view reaches them, and no row appears for a day with a file.
LEMMA DaysMove ==
  ASSUME IInv,
         UNCHANGED <<since, up, metrics_backup, repo, state, pass, commits, fails, stops, losses>>,
         today' \in 1 .. LastDay + 1, today' >= today,
         daily' \in [Days -> Row \union {None}],
         late' \in SUBSET Days, late \subseteq late',
         \A d \in Days : daily[d] # None => daily'[d] # None,
         \A d \in Days : repo[d] # None /\ daily[d] = None => daily'[d] = None,
         \A d \in Days : IsClosed(d) => IsClosed(d)',
         \A d \in Days : IsClosed(d)' => d < today',
         \A d \in Days : IsClosed(d) /\ d \notin late' => daily'[d].views = daily[d].views
  PROVE  IInv'
<1>1. TypeOK'
  BY DEF IInv, TypeOK, PassOK
<1>2. NotedIsHeld'
  BY DEF IInv, NotedIsHeld, TypeOK
<1>3. FilesAgree'
  <2>1. ASSUME NEW d \in Days, repo[d] # None, daily'[d] # None
        PROVE  IsClosed(d)' /\ (d \notin late' => daily'[d].views = repo[d])
    <3>1. daily[d] # None
      BY <2>1
    <3>2. IsClosed(d) /\ (d \notin late => daily[d].views = repo[d])
      BY <2>1, <3>1 DEF IInv, FilesAgree
    <3>3. QED
      BY <3>2
  <2>2. QED
    BY <2>1 DEF FilesAgree
<1>4. OneCommitADay' /\ FilesKnown' /\ FilesCommitted'
  BY DEF IInv, OneCommitADay, FilesKnown, FilesCommitted
<1>5. DaysEnded'
  <2>1. \A d \in Days : d \in Nat
    BY BackupAssumption DEF Days, BackupAssumption
  <2>2. today \in Nat /\ today' \in Nat
    BY BackupAssumption DEF BackupAssumption, IInv, TypeOK
  <2>3. \A d \in Days : repo[d] # None => d < today'
    BY <2>1, <2>2 DEF IInv, DaysEnded
  <2>4. QED
    BY <2>3 DEF DaysEnded
<1>6. ASSUME NEW s \in Servers, pass[s] # None
      PROVE  PassFits(pass[s])'
  <2>1. /\ pass[s] \in PassType /\ PassOK(pass[s]) /\ PassFits(pass[s])
    BY <1>6, PassAt
  <2>2. pass[s].pending \subseteq Days
    BY <2>1 DEF PassType
  <2>3. \A d \in pass[s].pending : IsClosed(d)'
    BY <2>1, <2>2 DEF PassFits
  <2>4. ASSUME pass[s].step \in {"read", "put", "note"}, Min(pass[s].pending) \notin late'
        PROVE  pass[s].bytes = daily'[Min(pass[s].pending)].views
    BY <2>1, <2>4, UploadingPends DEF PassFits
  <2>5. QED
    BY <2>1, <2>3, <2>4 DEF PassFits
<1>7. QED
  BY <1>1, <1>2, <1>3, <1>4, <1>5, <1>6 DEF IInv

\* Midnight, a flush of the day in progress, of a day that ended and of a late
\* view.
LEMMA FlushKeeps ==
  ASSUME IInv, Midnight \/ Close \/ \E d \in Days : Count(d) \/ Late(d)
  PROVE  IInv'
<1>1. /\ Days \subseteq Nat /\ LastDay \in Nat
      /\ today \in 1 .. LastDay + 1 /\ daily \in [Days -> Row \union {None}]
      /\ late \in SUBSET Days
      /\ None \notin Row
      /\ \A d \in Days : IsClosed(d) \/ repo[d] # None => d < today
  BY BackupAssumption DEF Days, BackupAssumption, IInv, TypeOK, DaysEnded
<1>2. CASE Midnight
  <2>1. today' \in 1 .. LastDay + 1 /\ today' >= today
    BY <1>1, <1>2 DEF Midnight, Days
  <2>2. \A d \in Days : IsClosed(d) => d < today'
    BY <1>1, <1>2 DEF Midnight
  <2>3. UNCHANGED <<since, daily, up, metrics_backup, repo, state, pass, history>>
    BY <1>2 DEF Midnight
  <2>4. QED
    BY <1>1, <2>1, <2>2, <2>3, DaysMove DEF history, IsClosed
<1>3. ASSUME NEW day \in Days, Count(day)
      PROVE  IInv'
  <2> DEFINE row == [views |-> Views(day) + 1, closed |-> FALSE]
  <2>1. /\ daily' = [daily EXCEPT ![day] = row] /\ ~IsClosed(day) /\ since <= day
        /\ UNCHANGED <<today, since, up, metrics_backup, repo, state, pass, history>>
    BY <1>3 DEF Count
  <2>2. row \in Row /\ ~row.closed
    BY <1>1 DEF Views, Row
  <2>3. repo[day] = None
    BY <2>1 DEF IInv, FilesKnown, FilesAgree
  <2> HIDE DEF row
  <2>4. /\ daily' \in [Days -> Row \union {None}]
        /\ daily'[day] = row /\ row # None
        /\ \A d \in Days : d # day => daily'[d] = daily[d]
    BY <1>1, <2>1, <2>2
  <2>5. \A d \in Days : IsClosed(d)' <=> IsClosed(d)
    BY <2>1, <2>2, <2>4 DEF IsClosed
  <2>6. \A d \in Days : IsClosed(d) => daily'[d].views = daily[d].views
    BY <2>1, <2>4
  <2>7. /\ today' \in 1 .. LastDay + 1 /\ today' >= today
        /\ UNCHANGED <<since, up, metrics_backup, repo, state, pass, commits, late, fails, stops, losses>>
    BY <1>1, <2>1 DEF history
  <2>8. /\ \A d \in Days : daily[d] # None => daily'[d] # None
        /\ \A d \in Days : repo[d] # None /\ daily[d] = None => daily'[d] = None
    BY <2>3, <2>4
  <2>9. \A d \in Days : IsClosed(d)' => d < today'
    BY <1>1, <2>1, <2>5
  <2>10. QED
    BY <1>1, <2>4, <2>5, <2>6, <2>7, <2>8, <2>9, DaysMove
<1>4. CASE Close
  <2>1. /\ daily' = [d \in Days |-> IF daily[d] # None /\ d < today
                                      THEN [daily[d] EXCEPT !.closed = TRUE]
                                      ELSE daily[d]]
        /\ UNCHANGED <<today, since, up, metrics_backup, repo, state, pass, history>>
    BY <1>4 DEF Close
  <2>2. ASSUME NEW d \in Days
        PROVE  /\ daily'[d] \in Row \union {None}
               /\ daily'[d] = None <=> daily[d] = None
               /\ daily[d] # None => daily'[d].views = daily[d].views
               /\ IsClosed(d) => IsClosed(d)'
               /\ IsClosed(d)' => d < today
    <3>1. CASE daily[d] # None /\ d < today
      <4>1. daily[d] \in Row /\ daily'[d] = [daily[d] EXCEPT !.closed = TRUE]
        BY <1>1, <2>1, <3>1
      <4>2. daily'[d] \in Row /\ daily'[d].closed /\ daily'[d].views = daily[d].views
        BY <4>1 DEF Row
      <4>3. QED
        BY <1>1, <3>1, <4>2 DEF IsClosed
    <3>2. CASE ~(daily[d] # None /\ d < today)
      BY <1>1, <2>1, <3>2 DEF IsClosed
    <3>3. QED
      BY <3>1, <3>2
  <2>3. daily' \in [Days -> Row \union {None}]
    BY <2>1, <2>2
  <2>4. /\ today' \in 1 .. LastDay + 1 /\ today' >= today
        /\ UNCHANGED <<since, up, metrics_backup, repo, state, pass, commits, late, fails, stops, losses>>
    BY <1>1, <2>1 DEF history
  <2>5. /\ \A d \in Days : daily[d] # None => daily'[d] # None
        /\ \A d \in Days : repo[d] # None /\ daily[d] = None => daily'[d] = None
        /\ \A d \in Days : IsClosed(d) => IsClosed(d)'
        /\ \A d \in Days : IsClosed(d) => daily'[d].views = daily[d].views
    BY <2>2 DEF IsClosed
  <2>6. \A d \in Days : IsClosed(d)' => d < today'
    BY <2>1, <2>2
  <2>7. QED
    BY <1>1, <2>3, <2>4, <2>5, <2>6, DaysMove
<1>5. ASSUME NEW day \in Days, Late(day)
      PROVE  IInv'
  <2>1. /\ daily[day] \in Row /\ daily[day].closed
        /\ daily' = [daily EXCEPT ![day] = [daily[day] EXCEPT !.views = @ + 1]]
        /\ late' = late \union {day}
        /\ UNCHANGED <<today, since, up, metrics_backup, repo, state, pass, commits, fails, stops, losses>>
    BY <1>1, <1>5 DEF Late, IsClosed
  <2>2. [daily[day] EXCEPT !.views = @ + 1] \in Row /\ [daily[day] EXCEPT !.views = @ + 1].closed
    BY <2>1 DEF Row
  <2>3. /\ daily' \in [Days -> Row \union {None}]
        /\ daily'[day] \in Row /\ daily'[day].closed
        /\ \A d \in Days : d # day => daily'[d] = daily[d]
    BY <1>1, <2>1, <2>2
  <2>4. \A d \in Days : /\ IsClosed(d)' <=> IsClosed(d)
                        /\ daily'[d] = None <=> daily[d] = None
    BY <1>1, <2>1, <2>3 DEF IsClosed
  <2>5. \A d \in Days : d \notin late' => daily'[d] = daily[d]
    BY <2>1, <2>3
  <2>6. QED
    BY <1>1, <2>1, <2>3, <2>4, <2>5, DaysMove
<1>6. QED
  BY <1>2, <1>3, <1>4, <1>5

-----------------------------------------------------------------------------
(***************************************************************************)
(* Processes that come and go, and the volume that is lost.                *)
(***************************************************************************)
LEMMA ProcessKeeps ==
  ASSUME IInv, NEW s \in Servers, Boot(s) \/ Stop(s)
  PROVE  IInv'
<1>1. /\ up \subseteq Servers /\ stops \in Nat
      /\ state \in [Servers -> [checked : BOOLEAN, restored : BOOLEAN, failed : BOOLEAN]]
      /\ pass \in [Servers -> PassType \union {None}]
  BY DEF IInv, TypeOK
<1>2. /\ up' \in SUBSET Servers /\ stops' \in Nat
      /\ state' \in [Servers -> [checked : BOOLEAN, restored : BOOLEAN, failed : BOOLEAN]]
      /\ pass' \in [Servers -> PassType \union {None}]
      /\ \A t \in Servers : pass'[t] # None => pass'[t] = pass[t] /\ t \in up'
      /\ UNCHANGED <<today, since, daily, metrics_backup, repo, commits, late, fails, losses>>
  <2>1. CASE Boot(s)
    BY <1>1, <2>1 DEF Boot, history, IInv, TypeOK
  <2>2. CASE Stop(s)
    <3>1. NewState \in [checked : BOOLEAN, restored : BOOLEAN, failed : BOOLEAN]
      BY DEF NewState
    <3>2. /\ pass' = [pass EXCEPT ![s] = None]
          /\ state' = [state EXCEPT ![s] = NewState]
          /\ up' = up \ {s} /\ stops' = stops + 1
          /\ UNCHANGED <<today, since, daily, metrics_backup, repo, commits, late, fails, losses>>
      BY <2>2 DEF Stop
    <3>3. QED
      BY <1>1, <3>1, <3>2 DEF IInv, TypeOK
  <2>3. QED
    BY <2>1, <2>2
<1>3. TypeOK'
  BY <1>2 DEF IInv, TypeOK, PassOK
<1>4. NotedIsHeld' /\ FilesAgree' /\ OneCommitADay' /\ DaysEnded' /\ FilesKnown' /\ FilesCommitted'
  BY <1>2 DEF IInv, NotedIsHeld, FilesAgree, OneCommitADay, DaysEnded, FilesKnown, FilesCommitted, IsClosed
<1>5. ASSUME NEW t \in Servers, pass'[t] # None
      PROVE  PassFits(pass[t])'
  <2>1. PassFits(pass'[t])
    BY <1>2, <1>5 DEF IInv
  <2>2. QED
    BY <1>2, <2>1 DEF PassFits, IsClosed
<1>6. QED
  BY <1>3, <1>4, <1>5 DEF IInv

LEMMA LossKeeps ==
  ASSUME IInv, LoseVolume
  PROVE  IInv'
<1>1. \A d \in Days : daily'[d] = None
  BY DEF LoseVolume, NoRows
<1>2. LastDay \in Nat /\ today \in 1 .. LastDay + 1 /\ Days \subseteq Nat
  BY BackupAssumption DEF BackupAssumption, IInv, TypeOK, Days
<1>3. TypeOK'
  <2>1. since' \in 1 .. today'
    BY <1>2 DEF LoseVolume
  <2>2. QED
    BY <2>1 DEF IInv, TypeOK, LoseVolume, NoRows, NewState
<1>4. FilesKnown'
  <2>1. ASSUME NEW d \in Days, repo[d] # None
        PROVE  ~(today <= d)
    <3>1. d < today
      BY <2>1 DEF IInv, DaysEnded
    <3>2. d \in Nat /\ today \in Nat
      BY <1>2
    <3>3. QED
      BY <3>1, <3>2
  <2>2. QED
    BY <2>1 DEF FilesKnown, LoseVolume
<1>5. NotedIsHeld' /\ FilesAgree' /\ OneCommitADay' /\ DaysEnded' /\ FilesCommitted'
  BY <1>1 DEF LoseVolume, IInv, NotedIsHeld, FilesAgree, OneCommitADay, DaysEnded,
              FilesCommitted, IsClosed
<1>6. \A s \in Servers : pass'[s] = None
  BY DEF LoseVolume
<1>7. QED
  BY <1>3, <1>4, <1>5, <1>6 DEF IInv

-----------------------------------------------------------------------------
(***************************************************************************)
(* The two writes: the restored days, and a file.                          *)
(***************************************************************************)
LEMMA RestoreKeeps ==
  ASSUME IInv, NEW s \in Servers, Restore(s)
  PROVE  IInv'
<1> DEFINE new == NewDays(pass[s].records)
           p == [pass[s] EXCEPT !.records = NoRows, !.step = "pending"]
<1>1. /\ s \in up /\ pass[s] \in PassType /\ PassOK(pass[s]) /\ PassFits(pass[s])
      /\ pass[s].step = "restore" /\ pass[s].pending = {}
  BY PassAt DEF Restore, At, PassOK
<1>2. /\ pass \in [Servers -> PassType \union {None}]
      /\ daily \in [Days -> Row \union {None}] /\ repo \in Files
      /\ None \notin Row
  BY BackupAssumption DEF IInv, TypeOK, BackupAssumption
<1>3. /\ new \subseteq Days
      /\ \A d \in new : daily[d] = None /\ pass[s].records[d] = repo[d] /\ repo[d] # None
  BY <1>1 DEF NewDays, PassFits
<1>4. /\ metrics_backup' = metrics_backup \union new
      /\ pass' = [pass EXCEPT ![s] = p]
      /\ UNCHANGED <<today, since, up, repo, history>>
      /\ \A d \in Days : d \notin new => daily'[d] = daily[d]
  BY DEF Restore
<1>5. \A d \in new : daily'[d] = [views |-> repo[d], closed |-> TRUE]
  BY <1>3 DEF Restore
<1>6. daily' \in [Days -> Row \union {None}]
  <2>1. daily' = [d \in Days |-> daily'[d]]
    BY DEF Restore
  <2> HIDE DEF new
  <2>2. ASSUME NEW d \in new
        PROVE  daily'[d] \in Row
    <3>1. repo[d] \in Nat
      BY <1>2, <1>3 DEF Files
    <3>2. daily'[d] = [views |-> repo[d], closed |-> TRUE]
      BY <1>5
    <3>3. QED
      BY <3>1, <3>2 DEF Row
  <2>3. QED
    BY <1>2, <1>4, <2>1, <2>2
<1>7. p \in PassType /\ p.step = "pending" /\ p.pending = {}
  BY <1>1 DEF PassType, NoRows, Files
<1> HIDE DEF p, new
<1>8. /\ \A d \in new : IsClosed(d)' /\ daily'[d].views = repo[d]
      /\ \A d \in Days : d \notin new => IsClosed(d)' = IsClosed(d)
  <2>1. ASSUME NEW d \in new
        PROVE  IsClosed(d)' /\ daily'[d].views = repo[d]
    <3>1. daily'[d] = [views |-> repo[d], closed |-> TRUE]
      BY <1>5
    <3>2. daily'[d] \in Row
      BY <1>2, <1>3, <3>1 DEF Files, Row
    <3>3. daily'[d] # None
      BY <1>2, <3>2
    <3>4. QED
      BY <3>1, <3>3 DEF IsClosed
  <2>2. QED
    BY <1>4, <2>1 DEF IsClosed
<1>9. /\ pass' \in [Servers -> PassType \union {None}]
      /\ pass'[s] = p
      /\ \A t \in Servers : t # s => pass'[t] = pass[t]
  BY <1>2, <1>4, <1>7
<1>10. TypeOK'
  <2>1. state' \in [Servers -> [checked : BOOLEAN, restored : BOOLEAN, failed : BOOLEAN]]
    BY DEF IInv, TypeOK, Restore
  <2>2. PassOK(p)
    BY <1>7 DEF PassOK
  <2>3. \A t \in Servers : pass'[t] # None => t \in up' /\ PassOK(pass'[t])
    BY <1>1, <1>4, <1>9, <2>2 DEF IInv, TypeOK
  <2>4. metrics_backup' \subseteq Days
    BY <1>3, <1>4 DEF IInv, TypeOK
  <2>5. QED
    BY <1>4, <1>6, <1>9, <2>1, <2>3, <2>4 DEF IInv, TypeOK, history, PassOK
<1>11. NotedIsHeld'
  <2>1. \A d \in metrics_backup : d \in Days /\ d \notin new
    BY <1>3 DEF IInv, TypeOK, NotedIsHeld, IsClosed
  <2>2. QED
    BY <1>3, <1>4, <1>8, <2>1 DEF IInv, NotedIsHeld
<1>12. FilesAgree'
  <2>1. ASSUME NEW d \in Days, repo[d] # None, daily'[d] # None
        PROVE  IsClosed(d)' /\ (d \notin late => daily'[d].views = repo[d])
    <3>1. CASE d \in new
      BY <1>8, <3>1
    <3>2. CASE d \notin new
      BY <1>4, <1>8, <2>1, <3>2 DEF IInv, FilesAgree
    <3>3. QED
      BY <3>1, <3>2
  <2>2. QED
    BY <1>4, <2>1 DEF FilesAgree, history
<1>13. OneCommitADay' /\ FilesCommitted'
  BY <1>4 DEF IInv, OneCommitADay, FilesCommitted, history
<1>14. DaysEnded' /\ FilesKnown'
  BY <1>3, <1>4, <1>8 DEF IInv, DaysEnded, FilesKnown, IsClosed
<1>15. ASSUME NEW t \in Servers, pass'[t] # None
       PROVE  PassFits(pass[t])'
  <2>1. CASE t = s
    BY <1>7, <1>9, <2>1 DEF PassFits
  <2>2. CASE t # s
    <3>1. /\ pass[t] \in PassType /\ PassOK(pass[t]) /\ PassFits(pass[t])
          /\ pass'[t] = pass[t]
      BY <1>9, <1>15, <2>2, PassAt
    <3>2. pass[t].pending \subseteq Days
      BY <3>1 DEF PassType
    <3>3. \A d \in pass[t].pending : d \notin new /\ IsClosed(d)' /\ daily'[d] = daily[d]
      BY <1>3, <1>4, <1>8, <3>1, <3>2 DEF PassFits, IsClosed
    <3>4. pass[t].step \in {"read", "put", "note"} => Min(pass[t].pending) \in pass[t].pending
      BY <3>1, UploadingPends
    <3>5. \A d \in Days : daily'[d] = None => daily[d] = None
      BY <1>2, <1>3, <1>4
    <3>6. QED
      BY <1>4, <3>1, <3>3, <3>4, <3>5 DEF PassFits, history
  <2>3. QED
    BY <2>1, <2>2
<1>16. QED
  BY <1>10, <1>11, <1>12, <1>13, <1>14, <1>15 DEF IInv

\* A write that lands keeps the invariant, whether the pass goes on to note it
\* or does not hear of it.
LEMMA PutKeeps ==
  ASSUME IInv, NEW s \in Servers, Put(s) \/ AnswerLost(s)
  PROVE  IInv'
<1> DEFINE day == Uploading(s)
           old == pass[s]
<1>1. /\ s \in up /\ old \in PassType /\ PassOK(old) /\ PassFits(old)
      /\ old.step = "put" /\ old.bytes \in Nat /\ old.existing # old.bytes
  <2>1. /\ s \in up /\ old \in PassType /\ PassOK(old) /\ PassFits(old)
        /\ old.step = "put"
    BY PassAt DEF Put, AnswerLost, At
  <2>2. QED
    BY <2>1 DEF PassOK, PassFits, PassType
<1>2. day \in old.pending /\ day \in Days
  BY <1>1, UploadingPends DEF Uploading
<1>3. IsClosed(day) /\ (day \notin late => old.bytes = daily[day].views)
  BY <1>1, <1>2 DEF PassFits, Uploading
<1>4. /\ repo[day] = old.existing
      /\ repo' = [repo EXCEPT ![day] = old.bytes]
      /\ commits' = [commits EXCEPT ![day] = @ + 1]
      /\ UNCHANGED <<world, metrics_backup, late, stops, losses>>
  BY DEF Put, AnswerLost, Writes
<1>5. /\ state' \in [Servers -> [checked : BOOLEAN, restored : BOOLEAN, failed : BOOLEAN]]
      /\ fails' \in Nat
      /\ pass' = [pass EXCEPT ![s] = None] \/ pass' = [pass EXCEPT ![s].step = "note"]
  <2>1. CASE Put(s)
    BY <2>1 DEF Put, Goes, IInv, TypeOK
  <2>2. CASE AnswerLost(s)
    <3>1. Ends(s, TRUE) /\ fails' = fails + 1
      BY <2>2 DEF AnswerLost
    <3>2. /\ pass' = [pass EXCEPT ![s] = None]
          /\ state' \in [Servers -> [checked : BOOLEAN, restored : BOOLEAN, failed : BOOLEAN]]
      BY <3>1, EndsTyped
    <3>3. fails' \in Nat
      BY <3>1 DEF IInv, TypeOK
    <3>4. QED
      BY <3>2, <3>3
  <2>3. QED
    BY <2>1, <2>2
<1> DEFINE noted == [old EXCEPT !.step = "note"]
<1>6. PICK p \in {None, noted} : pass' = [pass EXCEPT ![s] = p]
  <2>1. pass \in [Servers -> PassType \union {None}]
    BY DEF IInv, TypeOK
  <2>2. QED
    BY <1>5, <2>1
<1>7. /\ noted \in PassType /\ noted.step = "note" /\ noted.pending = old.pending
      /\ noted.bytes = old.bytes
  BY <1>1 DEF PassType
<1> HIDE DEF day, noted
<1>8. /\ pass' \in [Servers -> PassType \union {None}]
      /\ pass'[s] = p
      /\ \A t \in Servers : t # s => pass'[t] = pass[t]
  BY <1>6, <1>7 DEF IInv, TypeOK
<1>9. /\ repo' \in Files /\ repo'[day] = old.bytes /\ repo'[day] # None
      /\ \A d \in Days : d # day => repo'[d] = repo[d]
  BY <1>1, <1>2, <1>4, BackupAssumption DEF IInv, TypeOK, Files, BackupAssumption
<1>10. /\ commits' \in [Days -> Nat] /\ commits'[day] = commits[day] + 1
       /\ \A d \in Days : d # day => commits'[d] = commits[d]
  BY <1>2, <1>4 DEF IInv, TypeOK
<1>11. TypeOK'
  <2>1. noted # None => PassOK(noted)
    BY <1>1, <1>2, <1>7, BackupAssumption DEF PassOK, BackupAssumption
  <2>2. \A t \in Servers : pass'[t] # None => t \in up' /\ PassOK(pass'[t])
    BY <1>1, <1>4, <1>6, <1>8, <2>1 DEF IInv, TypeOK, world
  <2>3. QED
    BY <1>4, <1>5, <1>8, <1>9, <1>10, <2>2 DEF IInv, TypeOK, world, PassOK
<1>12. NotedIsHeld'
  BY <1>4, <1>9 DEF IInv, TypeOK, NotedIsHeld, IsClosed, world
<1>13. FilesAgree'
  <2>1. ASSUME NEW d \in Days, repo'[d] # None, daily[d] # None
        PROVE  IsClosed(d) /\ (d \notin late => daily[d].views = repo'[d])
    <3>1. CASE d = day
      BY <1>3, <1>9, <3>1
    <3>2. CASE d # day
      <4>1. repo'[d] = repo[d]
        BY <1>9, <3>2
      <4>2. QED
        BY <2>1, <4>1 DEF IInv, FilesAgree
    <3>3. QED
      BY <3>1, <3>2
  <2>2. QED
    BY <1>4, <2>1 DEF FilesAgree, IsClosed, world
<1>14. OneCommitADay'
  <2>1. ASSUME day \notin late
        PROVE  repo[day] = None
    <3>1. repo[day] # old.bytes
      BY <1>1, <1>4
    <3>2. daily[day] # None
      BY <1>3 DEF IsClosed
    <3>3. QED
      BY <1>2, <1>3, <2>1, <3>1, <3>2 DEF IInv, FilesAgree
  <2>2. day \notin late => commits'[day] = 1
    BY <1>2, <1>10, <2>1 DEF IInv, FilesCommitted
  <2>3. \A d \in Days \ late : d # day => commits'[d] <= 1
    BY <1>10 DEF IInv, OneCommitADay
  <2>4. QED
    BY <1>4, <2>2, <2>3 DEF OneCommitADay
<1>15. FilesCommitted'
  <2>1. commits'[day] # 0
    BY <1>2, <1>10 DEF IInv, TypeOK
  <2>2. QED
    BY <1>9, <1>10, <2>1 DEF IInv, FilesCommitted
<1>16. DaysEnded' /\ FilesKnown'
  BY <1>2, <1>3, <1>4, <1>9 DEF IInv, DaysEnded, FilesKnown, IsClosed, world
<1>17. ASSUME NEW t \in Servers, pass'[t] # None
       PROVE  PassFits(pass[t])'
  <2>1. CASE t = s
    <3>1. pass'[t] = noted
      BY <1>6, <1>8, <1>17, <2>1
    <3>2. Min(noted.pending) = day
      BY <1>7 DEF day, Uploading
    <3>3. QED
      BY <1>1, <1>3, <1>4, <1>7, <1>9, <3>1, <3>2 DEF PassFits, IsClosed, world
  <2>2. CASE t # s
    <3>1. /\ pass[t] \in PassType /\ PassOK(pass[t]) /\ PassFits(pass[t])
          /\ pass'[t] = pass[t]
      BY <1>8, <1>17, <2>2, PassAt
    <3>2. pass[t].step = "note" => Min(pass[t].pending) \in Days
      BY <3>1, UploadingPends
    <3>3. pass[t].step = "note" => repo'[Min(pass[t].pending)] # None
      BY <1>9, <3>1, <3>2 DEF PassFits
    <3>4. pass[t].step = "restore" =>
            \A d \in Days : daily[d] = None => pass[t].records[d] = repo'[d]
      BY <1>3, <1>9, <3>1 DEF PassFits, IsClosed
    <3>5. QED
      BY <1>4, <3>1, <3>3, <3>4 DEF PassFits, IsClosed, world
  <2>3. QED
    BY <2>1, <2>2
<1>18. QED
  BY <1>11, <1>12, <1>13, <1>14, <1>15, <1>16, <1>17 DEF IInv

-----------------------------------------------------------------------------
(***************************************************************************)
(* The theorems.                                                           *)
(***************************************************************************)
LEMMA InitHolds == Init => IInv
<1> SUFFICES ASSUME Init PROVE IInv
  OBVIOUS
<1>1. LastDay \in Nat
  BY BackupAssumption DEF BackupAssumption
<1>2. TypeOK
  BY <1>1, BackupAssumption DEF Init, TypeOK, NoRows, NewState, Files, Days
<1>3. QED
  BY <1>2 DEF Init, IInv, NotedIsHeld, FilesAgree, OneCommitADay, DaysEnded, FilesKnown,
              FilesCommitted, IsClosed, NoRows

\* The invariant of a backup, whatever the servers and days.
THEOREM Invariance == Spec => []IInv
<1>1. ASSUME IInv, Next PROVE IInv'
  <2>1. CASE Midnight \/ Close \/ \E d \in Days : Count(d) \/ Late(d)
    BY <1>1, <2>1, FlushKeeps
  <2>2. CASE LoseVolume
    BY <1>1, <2>2, LossKeeps
  <2>3. ASSUME NEW s \in Servers, Runs(s) \/ Stop(s) \/ AnswerLost(s) \/ Fails(s)
        PROVE  IInv'
    <3>1. CASE Boot(s) \/ Stop(s)
      BY <1>1, <3>1, ProcessKeeps
    <3>2. CASE Begin(s) \/ RetryAfter(s)
      BY <1>1, <3>2, BeginKeeps
    <3>3. CASE Exists(s) \/ HasBackups(s) \/ Download(s)
      BY <1>1, <3>3, AskingKeeps
    <3>4. CASE Restore(s)
      BY <1>1, <3>4, RestoreKeeps
    <3>5. CASE Pending(s) \/ RecordBackup(s)
      BY <1>1, <3>5, NotingKeeps
    <3>6. CASE DayRecord(s) \/ Read(s) \/ PutRefused(s)
      BY <1>1, <3>6, WritingKeeps
    <3>7. CASE Put(s) \/ AnswerLost(s)
      BY <1>1, <3>7, PutKeeps
    <3>8. CASE Fails(s)
      <4>1. /\ Ends(s, TRUE) /\ fails' = fails + 1
            /\ UNCHANGED <<world, metrics_backup, repo, commits, late, stops, losses>>
        BY <3>8 DEF Fails
      <4>2. {fails', stops', losses'} \subseteq Nat
        BY <1>1, <4>1 DEF IInv, TypeOK
      <4>3. QED
        BY <1>1, <4>1, <4>2, EndKeeps
    <3>9. QED
      BY <2>3, <3>1, <3>2, <3>3, <3>4, <3>5, <3>6, <3>7, <3>8 DEF Runs
  <2>4. QED
    BY <1>1, <2>1, <2>2, <2>3 DEF Next
<1>2. IInv /\ UNCHANGED vars => IInv'
  BY DEF vars, world, history, IInv, TypeOK, NotedIsHeld, FilesAgree, OneCommitADay,
         DaysEnded, FilesKnown, FilesCommitted, PassFits, PassOK, IsClosed
<1>3. QED
  BY <1>1, <1>2, InitHolds, PTL DEF Spec

\* Every variable keeps its type.
THEOREM TypeCorrect == Spec => []TypeOK
<1>1. IInv => TypeOK
  BY DEF IInv
<1>2. QED
  BY <1>1, Invariance, PTL

\* A day noted as held is closed and has a file (crates/core/src/backup.rs,
\* record_backup and restore_days).
THEOREM NotedDaysAreHeld == Spec => []NotedIsHeld
<1>1. IInv => NotedIsHeld
  BY DEF IInv
<1>2. QED
  BY <1>1, Invariance, PTL

\* What the database and the repository both have agrees, but for late views.
THEOREM FilesSayWhatDaysCount == Spec => []FilesAgree
<1>1. IInv => FilesAgree
  BY DEF IInv
<1>2. QED
  BY <1>1, Invariance, PTL

\* No crash, lost answer, loss of the database or second server commits a day
\* twice (crates/server/src/backup.rs, Repo::write).
THEOREM DaysAreCommittedOnce == Spec => []OneCommitADay
<1>1. IInv => OneCommitADay
  BY DEF IInv
<1>2. QED
  BY <1>1, Invariance, PTL
=============================================================================
