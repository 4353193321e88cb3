----------------------------- MODULE EventsProofs -----------------------------
(***************************************************************************)
(* Theorems about Events, for any number of servers, watchers and kinds of *)
(* event, any retention and any bounds: a watcher misses nothing, and the  *)
(* name of an event is never the name of another.                          *)
(*                                                                         *)
(* The invariant says that the row written last stays, with the largest    *)
(* position and the largest name: an event that happens again is that row, *)
(* and pruning, which follows the write, never takes it.  So no name is    *)
(* given out twice, and whatever is written comes after every position     *)
(* that a watch of this stream was told.                                   *)
(***************************************************************************)
EXTENDS Events, TLAPS

\* Names and positions are in one order, and the row written last is there.
RowsFit ==
  /\ \A a, b \in rows : a.seq <= b.seq => a = b \/ (a.id < b.id /\ a.seq < b.seq)
  /\ rows # {} => \E row \in rows : row.seq = seq
  /\ \A row \in rows : row.seq <= seq

\* Every row is named, and no name is above that of the last row.
NamesFit ==
  /\ named \subseteq Nat \X Happenings
  /\ \A row \in rows : <<row.id, row.event>> \in named
  /\ \A name \in named : \E row \in rows : name[1] <= row.id

\* A watch follows this stream or one that was lost, and stands within it.
WatchesFit ==
  \A w \in Watchers :
    /\ follows[w] <= stream
    /\ position[w] # None /\ follows[w] = stream => position[w] <= seq

\* The inductive invariant.
IInv == TypeOK /\ RowsFit /\ NamesFit /\ WatchesFit /\ WatchMissesNothing /\ NamesStandForOne

-----------------------------------------------------------------------------
(***************************************************************************)
(* The table.                                                              *)
(***************************************************************************)
\* What Max chooses.
LEMMA MaxIsGreatest ==
  ASSUME NEW S, S \subseteq Nat, NEW m \in S, \A n \in S : n <= m
  PROVE  Max(S) = m
<1>1. m \in S /\ \A n \in S : m >= n
  OBVIOUS
<1>2. \A x \in S : (\A n \in S : x >= n) => x = m
  OBVIOUS
<1> QED
  BY <1>1, <1>2, Zenon DEF Max

\* A table with rows has one last row, with the largest name.
LEMMA LastRowIs ==
  ASSUME IInv, rows # {}
  PROVE  \E last \in rows :
           /\ LastRow = {last} /\ last.seq = seq /\ NextId(rows) = last.id + 1
           /\ \A row \in rows : row = last \/ (row.id < last.id /\ row.seq < last.seq)
           /\ \A name \in named : name[1] <= last.id
<1>1. PICK last \in rows : last.seq = seq
  BY DEF IInv, RowsFit
<1>2. \A row \in rows : row.id \in Nat /\ row.seq \in Nat
  BY EventsAssumption DEF IInv, TypeOK, Rows, Seqs, EventsAssumption
<1>3. \A row \in rows : row = last \/ (row.id < last.id /\ row.seq < last.seq)
  BY <1>1 DEF IInv, RowsFit
<1>4. LastRow = {last}
  BY <1>1, <1>2, <1>3 DEF LastRow, IInv, RowsFit
<1>5. Max({row.id : row \in rows}) = last.id
  <2> DEFINE ids == {row.id : row \in rows}
  <2>1. last.id \in ids /\ ids \subseteq Nat /\ \A id \in ids : id <= last.id
    BY <1>2, <1>3
  <2> HIDE DEF ids
  <2>2. Max(ids) = last.id
    BY <2>1, MaxIsGreatest
  <2> QED
    BY <2>2 DEF ids
<1>6. NextId(rows) = last.id + 1
  BY <1>5 DEF NextId
<1>7. ASSUME NEW name \in named
      PROVE  name[1] <= last.id
  <2>1. name[1] \in Nat
    BY DEF IInv, NamesFit
  <2>2. PICK row \in rows : name[1] <= row.id
    BY DEF IInv, NamesFit
  <2> QED
    BY <1>2, <1>3, <2>1, <2>2
<1> QED
  BY <1>1, <1>3, <1>4, <1>6, <1>7

\* A write leaves one row at the next position, of the event that was written;
\* the rows beside it were there, with smaller names; and its name is new, or
\* was the name of the same event.
LEMMA WriteMakesTheLast ==
  ASSUME IInv, NEW write \in Writes, seq < LastSeq
  PROVE  \E new \in Rows :
           /\ new \in Written(write) /\ new.seq = seq + 1
           /\ \A row \in Written(write) : row = new \/ (row \in rows /\ row.id < new.id)
           /\ \A name \in named : name[1] <= new.id /\ (name[1] = new.id => name[2] = new.event)
<1>1. /\ seq \in Nat /\ seq + 1 \in Seqs /\ rows \subseteq Rows
      /\ write.now \in Times /\ write.now \in Nat /\ write.event \in Happenings
  BY EventsAssumption DEF IInv, TypeOK, Seqs, Writes, Times, EventsAssumption
<1>2. write.now >= write.now - Retention
  BY <1>1, EventsAssumption DEF EventsAssumption
<1>3. CASE Repeated(write) # {}
  <2>1. rows # {}
    BY <1>3 DEF Repeated, LastRow
  <2>2. PICK last \in rows :
          /\ LastRow = {last}
          /\ \A row \in rows : row = last \/ row.id < last.id
          /\ \A name \in named : name[1] <= last.id
    BY <2>1, LastRowIs
  <2>3. Repeated(write) = {last} /\ last.event = write.event
    BY <1>3, <2>2 DEF Repeated
  <2> DEFINE new == Again(last, write)
  <2>4. /\ last \in Rows /\ new \in Rows /\ new.seq = seq + 1 /\ new.id = last.id
        /\ new.event = last.event /\ new.last_at = write.now
    <3>1. last \in Rows /\ last.count + 1 \in Nat \ {0}
      BY <1>1 DEF Rows
    <3> QED
      BY <1>1, <3>1 DEF Again, Rows
  <2>5. Written(write) = Kept({new} \union (rows \ {last}), write)
    BY <2>3 DEF Written
  <2> HIDE DEF new
  <2>6. new \in Written(write)
    BY <1>2, <2>4, <2>5 DEF Kept
  <2>7. \A row \in Written(write) : row = new \/ (row \in rows /\ row.id < new.id)
    BY <2>2, <2>4, <2>5 DEF Kept
  <2>8. ASSUME NEW name \in named, name[1] = last.id
        PROVE  name[2] = last.event
    <3> DEFINE its == <<last.id, last.event>>
    <3>1. its \in named /\ its[1] = last.id /\ its[2] = last.event
      BY DEF IInv, NamesFit
    <3> HIDE DEF its
    <3> QED
      BY <2>8, <3>1 DEF IInv, NamesStandForOne
  <2> QED
    BY <2>2, <2>4, <2>6, <2>7, <2>8
<1>4. CASE Repeated(write) = {}
  <2> DEFINE new == New(rows, write)
  <2>1. /\ NextId(rows) \in Nat \ {0}
        /\ \A row \in rows : row.id < NextId(rows)
        /\ \A name \in named : name[1] < NextId(rows)
    <3>1. CASE rows = {}
      BY <3>1 DEF NextId, IInv, NamesFit
    <3>2. CASE rows # {}
      <4>1. PICK last \in rows :
              /\ NextId(rows) = last.id + 1
              /\ \A row \in rows : row = last \/ row.id < last.id
              /\ \A name \in named : name[1] <= last.id
        BY <3>2, LastRowIs
      <4>2. last.id \in Nat /\ \A row \in rows : row.id \in Nat
        BY <1>1 DEF Rows
      <4>3. \A name \in named : name[1] \in Nat
        BY DEF IInv, NamesFit
      <4> QED
        BY <4>1, <4>2, <4>3
    <3> QED
      BY <3>1, <3>2
  <2>2. /\ new \in Rows /\ new.seq = seq + 1 /\ new.id = NextId(rows)
        /\ new.event = write.event /\ new.last_at = write.now
    BY <1>1, <2>1 DEF New, Rows
  <2>3. Written(write) = Kept(rows \union {new}, write)
    BY <1>4 DEF Written
  <2> HIDE DEF new
  <2>4. new \in Written(write)
    BY <1>2, <2>2, <2>3 DEF Kept
  <2>5. \A row \in Written(write) : row = new \/ (row \in rows /\ row.id < new.id)
    BY <2>1, <2>2, <2>3 DEF Kept
  <2>6. \A name \in named : name[1] <= new.id /\ name[1] # new.id
    <3>1. \A name \in named : name[1] \in Nat
      BY DEF IInv, NamesFit
    <3> QED
      BY <2>1, <2>2, <3>1
  <2> QED
    BY <2>2, <2>4, <2>5, <2>6
<1> QED
  BY <1>3, <1>4

-----------------------------------------------------------------------------
(***************************************************************************)
(* The steps.                                                              *)
(***************************************************************************)
\* A step that leaves the tables and the watches alone.
LEMMA ProcessKeeps ==
  ASSUME IInv, UNCHANGED <<tables, watches>>, clock' \in Times,
         phase' \in [Servers -> Phases], socket' \in Servers \union {None},
         writing' \in [Servers -> Writes \union {None}]
  PROVE  IInv'
<1>1. TypeOK'
  BY DEF IInv, TypeOK, tables, watches
<1>2. RowsFit' /\ NamesFit' /\ WatchesFit' /\ WatchMissesNothing' /\ NamesStandForOne'
  BY DEF IInv, RowsFit, NamesFit, WatchesFit, WatchMissesNothing, NamesStandForOne, tables, watches
<1> QED
  BY <1>1, <1>2 DEF IInv

\* A process begins, listens, is told to stop or ends, and what
\* happens to it waits to be written.
LEMMA LifeKeeps ==
  ASSUME IInv, NEW s \in Servers,
         Boot(s) \/ Happens(s) \/ Bind(s) \/ Stop(s) \/ Drop(s) \/ Exit(s)
  PROVE  IInv'
<1>1. UNCHANGED <<tables, watches>>
  BY DEF Boot, Happens, Bind, Stop, Drop, Exit
<1>2. clock \in Times /\ clock' = clock
  BY DEF IInv, TypeOK, Boot, Happens, Bind, Stop, Drop, Exit
<1>3. phase' \in [Servers -> Phases] /\ socket' \in Servers \union {None}
  BY DEF IInv, TypeOK, Phases, Goes, Closes, Boot, Happens, Bind, Stop, Drop, Exit, processes
<1>4. \A event \in Happenings : Records(s, event) => writing' \in [Servers -> Writes \union {None}]
  BY <1>2 DEF Records, Writes, IInv, TypeOK
<1>5. writing' \in [Servers -> Writes \union {None}]
  BY <1>4, EventsAssumption
     DEF IInv, TypeOK, EventsAssumption, Boot, Happens, Bind, Stop, Drop, Exit
<1> QED
  BY <1>1, <1>2, <1>3, <1>5, ProcessKeeps

\* The transaction that writes an event.
LEMMA RecordKeeps ==
  ASSUME IInv, NEW s \in Servers, Record(s)
  PROVE  IInv'
<1>1. /\ writing[s] \in Writes /\ seq < LastSeq /\ seq' = seq + 1 /\ seq \in Nat /\ seq' \in Seqs
      /\ rows' = Written(writing[s])
      /\ named' = named \union {<<row.id, row.event>> : row \in rows'}
      /\ writing' = [writing EXCEPT ![s] = None]
      /\ UNCHANGED <<clock, phase, socket, stream, position, follows, joined, printed>>
  BY EventsAssumption
     DEF Record, IInv, TypeOK, Seqs, EventsAssumption, processes, watches
<1>2. PICK new \in Rows :
        /\ new \in rows' /\ new.seq = seq + 1
        /\ \A row \in rows' : row = new \/ (row \in rows /\ row.id < new.id)
        /\ \A name \in named : name[1] <= new.id /\ (name[1] = new.id => name[2] = new.event)
  BY <1>1, WriteMakesTheLast
<1>3. \A row \in rows : row.seq \in Nat /\ row.seq <= seq
  BY EventsAssumption DEF IInv, TypeOK, RowsFit, Rows, Seqs, EventsAssumption
<1>4. TypeOK'
  BY <1>1, <1>2 DEF IInv, TypeOK
<1>5. RowsFit'
  BY <1>1, <1>2, <1>3 DEF IInv, RowsFit
<1>6. NamesFit'
  <2>1. named' \subseteq Nat \X Happenings
    <3>1. \A row \in rows' : row.id \in Nat /\ row.event \in Happenings
      BY <1>4 DEF TypeOK, Rows
    <3> QED
      BY <1>1, <3>1 DEF IInv, NamesFit
  <2>2. \A row \in rows' : row.id <= new.id
    <3>1. \A row \in rows' : row.id \in Nat
      BY <1>4 DEF TypeOK, Rows
    <3> QED
      BY <1>2, <3>1
  <2>3. \A name \in named' : name[1] <= new.id
    BY <1>1, <1>2, <2>2
  <2> QED
    BY <1>1, <1>2, <2>1, <2>3 DEF NamesFit
<1>7. WatchesFit'
  <2>1. ASSUME NEW w \in Watchers, position[w] # None, follows[w] = stream
        PROVE  position[w] <= seq'
    <3>1. position[w] \in Nat /\ position[w] <= seq
      BY <2>1, EventsAssumption DEF IInv, TypeOK, WatchesFit, Seqs, EventsAssumption
    <3> QED
      BY <1>1, <3>1
  <2> QED
    BY <1>1, <2>1 DEF IInv, WatchesFit
<1>8. WatchMissesNothing'
  <2> SUFFICES ASSUME NEW w \in Watchers, position[w] # None, follows[w] = stream,
                      NEW row \in rows', joined[w] < row.seq, row.seq <= position[w]
               PROVE  <<row.seq, row.count>> \in printed[w]
    BY <1>1 DEF WatchMissesNothing
  <2>1. position[w] \in Nat /\ position[w] <= seq
    BY EventsAssumption DEF IInv, TypeOK, WatchesFit, Seqs, EventsAssumption
  <2>2. row # new
    BY <1>1, <1>2, <2>1
  <2> QED
    BY <1>2, <2>2 DEF IInv, WatchMissesNothing
<1>9. NamesStandForOne'
  <2>1. \A row \in rows' : <<row.id, row.event>> \in named \union {<<new.id, new.event>>}
    BY <1>2 DEF IInv, NamesFit
  <2>2. named' \subseteq named \union {<<new.id, new.event>>}
    BY <1>1, <2>1
  <2> QED
    BY <1>2, <2>2 DEF IInv, NamesStandForOne
<1> QED
  BY <1>4, <1>5, <1>6, <1>7, <1>8, <1>9 DEF IInv

\* The stream begins again; no watch follows it yet.
LEMMA LoseKeeps ==
  ASSUME IInv, Lose
  PROVE  IInv'
<1>1. /\ rows' = {} /\ named' = {} /\ seq' = 0 /\ stream' = stream + 1 /\ stream \in Nat
      /\ stream' \in 0 .. Losses
      /\ UNCHANGED <<clock, phase, socket, writing, position, follows, joined, printed>>
  BY EventsAssumption DEF Lose, IInv, TypeOK, EventsAssumption, processes, watches
<1>2. \A w \in Watchers : follows[w] \in Nat /\ follows[w] <= stream
  BY DEF IInv, TypeOK, WatchesFit
<1>3. TypeOK'
  BY <1>1, EventsAssumption DEF IInv, TypeOK, Seqs, EventsAssumption
<1>4. RowsFit' /\ NamesFit' /\ NamesStandForOne' /\ WatchMissesNothing'
  BY <1>1 DEF RowsFit, NamesFit, NamesStandForOne, WatchMissesNothing
<1>5. WatchesFit'
  BY <1>1, <1>2 DEF WatchesFit
<1> QED
  BY <1>3, <1>4, <1>5 DEF IInv

\* A watch prints an answer.
LEMMA WatchKeeps ==
  ASSUME IInv, NEW w \in Watchers, List(w) \/ Poll(w)
  PROVE  IInv'
<1> DEFINE from == IF position[w] = None THEN 0 ELSE position[w]
           before == IF follows[w] = stream THEN printed[w] ELSE {}
           lines == {<<row.seq, row.count>> : row \in After(from)}
<1>1. /\ UNCHANGED <<clock, phase, socket, writing, rows, seq, stream, named>>
      /\ position' = [position EXCEPT ![w] = seq]
      /\ follows' = [follows EXCEPT ![w] = stream]
      /\ printed' = [printed EXCEPT ![w] = lines \union before]
  BY DEF List, Poll, Prints, PositionRead, processes, tables
<1>2. \/ position[w] = None /\ joined' = joined
      \/ /\ position[w] # None
         /\ joined' = [joined EXCEPT ![w] = IF follows[w] = stream THEN @ ELSE seq]
  BY DEF List, Poll
<1>3. /\ seq \in Seqs /\ seq \in Nat /\ stream \in 0 .. Losses /\ stream \in Nat
      /\ joined \in [Watchers -> Seqs] /\ joined[w] \in Nat
      /\ \A row \in rows : row.seq \in Seqs /\ row.seq \in Nat /\ row.count \in Nat
  BY EventsAssumption DEF IInv, TypeOK, Seqs, Rows, EventsAssumption
<1>4. TypeOK'
  <2>1. lines \in SUBSET (Seqs \X Nat) /\ before \in SUBSET (Seqs \X Nat)
    BY <1>3 DEF After, IInv, TypeOK
  <2>2. printed' \in [Watchers -> SUBSET (Seqs \X Nat)]
    BY <1>1, <2>1 DEF IInv, TypeOK
  <2>3. joined' \in [Watchers -> Seqs]
    BY <1>2, <1>3
  <2> QED
    BY <1>1, <1>3, <2>2, <2>3 DEF IInv, TypeOK
<1>5. RowsFit' /\ NamesFit' /\ NamesStandForOne'
  BY <1>1 DEF IInv, RowsFit, NamesFit, NamesStandForOne
<1>6. WatchesFit'
  BY <1>1, <1>3 DEF IInv, TypeOK, WatchesFit
<1>7. WatchMissesNothing'
  <2> SUFFICES ASSUME NEW v \in Watchers, position'[v] # None, follows'[v] = stream,
                      NEW row \in rows, joined'[v] < row.seq, row.seq <= position'[v]
               PROVE  <<row.seq, row.count>> \in printed'[v]
    BY <1>1 DEF WatchMissesNothing
  <2>1. CASE v # w
    BY <1>1, <1>2, <2>1 DEF IInv, TypeOK, WatchMissesNothing
  <2>2. CASE v = w
    <3>1. printed'[w] = lines \union before /\ position'[w] = seq
      BY <1>1 DEF IInv, TypeOK
    <3>2. CASE position[w] = None
      <4>1. row.seq > from
        BY <1>2, <1>3, <2>2, <3>2
      <4> QED
        BY <2>2, <3>1, <4>1 DEF After
    <3>3. CASE position[w] # None /\ follows[w] = stream
      <4>1. joined[w] < row.seq
        BY <1>2, <1>3, <2>2, <3>3
      <4>2. position[w] \in Nat
        BY <3>3, <1>3, EventsAssumption DEF IInv, TypeOK, Seqs, EventsAssumption
      <4>3. CASE row.seq <= position[w]
        BY <2>2, <3>1, <3>3, <4>1, <4>3 DEF IInv, WatchMissesNothing
      <4>4. CASE row.seq > from
        BY <2>2, <3>1, <4>4 DEF After
      <4> QED
        BY <1>3, <3>3, <4>2, <4>3, <4>4
    <3>4. CASE position[w] # None /\ follows[w] # stream
      BY <1>2, <1>3, <2>2, <3>1, <3>4
    <3> QED
      BY <3>2, <3>3, <3>4
  <2> QED
    BY <2>1, <2>2
<1> QED
  BY <1>4, <1>5, <1>6, <1>7 DEF IInv

-----------------------------------------------------------------------------
(***************************************************************************)
(* The theorems.                                                           *)
(***************************************************************************)
\* At first there is no row, no name and no position.
LEMMA InitHolds ==
  ASSUME Init
  PROVE  IInv
<1>1. TypeOK
  BY EventsAssumption DEF Init, TypeOK, Times, Seqs, Phases, EventsAssumption
<1> QED
  BY <1>1 DEF Init, IInv, RowsFit, NamesFit, WatchesFit, WatchMissesNothing, NamesStandForOne

\* The invariant holds however many servers write, die and are replaced.
THEOREM Invariance == Spec => []IInv
<1>1. Init => IInv
  BY InitHolds
<1>2. IInv /\ [Next]_vars => IInv'
  <2> SUFFICES ASSUME IInv, [Next]_vars PROVE IInv'
    OBVIOUS
  <2>1. CASE Tick
    <3>1. UNCHANGED <<tables, watches, phase, socket, writing>> /\ clock' \in Times
      BY <2>1, EventsAssumption DEF Tick, IInv, TypeOK, Times, EventsAssumption, processes
    <3> QED
      BY <3>1, ProcessKeeps DEF IInv, TypeOK
  <2>2. CASE Lose
    BY <2>2, LoseKeeps
  <2>3. ASSUME NEW s \in Servers,
               Boot(s) \/ Happens(s) \/ Bind(s) \/ Stop(s) \/ Record(s) \/ Drop(s) \/ Exit(s)
        PROVE  IInv'
    BY <2>3, LifeKeeps, RecordKeeps
  <2>4. ASSUME NEW w \in Watchers, List(w) \/ Poll(w)
        PROVE  IInv'
    BY <2>4, WatchKeeps
  <2>5. CASE UNCHANGED vars
    BY <2>5, ProcessKeeps DEF vars, processes, IInv, TypeOK
  <2> QED
    BY <2>1, <2>2, <2>3, <2>4, <2>5 DEF Next
<1>3. QED
  BY <1>1, <1>2, PTL DEF Spec

\* Every variable has its type.
THEOREM TypeCorrect == Spec => []TypeOK
<1>1. IInv => TypeOK
  BY DEF IInv
<1>2. QED
  BY <1>1, Invariance, PTL

\* What there is of the stream between where a watch joined it and where it
\* stands was printed as it is now, whatever is written again, pruned or lost
\* meanwhile (core/src/events.rs `events_after`, cmd/get.rs `watch`).
THEOREM WatchersMissNothing == Spec => []WatchMissesNothing
<1>1. IInv => WatchMissesNothing
  BY DEF IInv
<1>2. QED
  BY <1>1, Invariance, PTL

\* A name is never given out again for another event, though the table is
\* pruned and rowids are reused (core/src/events.rs `record_event_at`).
THEOREM NamesAreOnes == Spec => []NamesStandForOne
<1>1. IInv => NamesStandForOne
  BY DEF IInv
<1>2. QED
  BY <1>1, Invariance, PTL
=============================================================================
