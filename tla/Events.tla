-------------------------------- MODULE Events --------------------------------
(***************************************************************************)
(* What happened to the server, and those who watch it                     *)
(* (crates/core/src/events.rs, crates/cli/src/cmd/get.rs `watch`), over    *)
(* the life of its processes (crates/server/src/main.rs, listen.rs).       *)
(*                                                                         *)
(* Any number of servers share the table while a deploy overlaps; the one  *)
(* that booted last has the socket of the API.  Each write is one          *)
(* transaction that takes the write lock first, so here it is one step;    *)
(* the time it stamps was read before, as the write waits for that lock.   *)
(* A watch lists, then asks again and again for what came after the        *)
(* position of the last answer.                                            *)
(***************************************************************************)
EXTENDS Integers, FiniteSetsExt

CONSTANTS
  Servers,      \* The processes on the database.
  Watchers,     \* The command lines that watch.
  Happenings,   \* What may happen: type, reason, message and revision.
  Started,      \* The one of them that every process begins with,
  Stopped,      \* and the one that it ends with when it is told to stop.
  None,         \* Nothing to write, nothing listed yet.
  Retention,    \* RETENTION: how long an event is kept after it last happened.
  LastTime,     \* Bound: the end of time.
  LastSeq,      \* Bound: the writes of a stream.
  Losses        \* Bound: how often the database is lost.

Times == 0 .. LastTime

Seqs == 0 .. LastSeq

Phases == {"down", "booting", "listening", "stopping"}

\* Writes that wait for the write lock, and rows of the table `events`.
Writes == [event : Happenings, now : Times]

Rows == [id : Nat \ {0}, seq : Seqs, event : Happenings, count : Nat \ {0}, last_at : Times]

ASSUME EventsAssumption ==
  /\ Retention \in Nat /\ LastTime \in Nat /\ LastSeq \in Nat /\ Losses \in Nat
  /\ {Started, Stopped} \subseteq Happenings
  /\ None \notin Writes /\ None \notin Seqs /\ None \notin Servers

VARIABLES
  clock,
  phase,        \* How far each process is.
  socket,       \* Who listens at the path of the API's socket.
  writing,      \* What each is about to write.
  rows,         \* The table `events`.
  seq,          \* The table `event_seq`: the position of the stream.
  position      \* Where each watch stands, once it has listed.

\* History: the streams that were lost; of each watch, the stream it follows,
\* where it joined that, and the writes it printed; what each name stood for.
VARIABLES stream, follows, joined, printed, named

tables == <<rows, seq, stream, named>>

watches == <<position, follows, joined, printed>>

processes == <<phase, socket>>

vars == <<clock, processes, writing, tables, watches>>

Init ==
  /\ clock = 0
  /\ phase = [s \in Servers |-> "down"]
  /\ socket = None
  /\ writing = [s \in Servers |-> None]
  /\ rows = {}
  /\ seq = 0
  /\ position = [w \in Watchers |-> None]
  /\ stream = 0
  /\ follows = [w \in Watchers |-> 0]
  /\ joined = [w \in Watchers |-> 0]
  /\ printed = [w \in Watchers |-> {}]
  /\ named = {}

-----------------------------------------------------------------------------
(***************************************************************************)
(* The servers.                                                            *)
(***************************************************************************)
Tick ==
  /\ clock < LastTime
  /\ clock' = clock + 1
  /\ UNCHANGED <<processes, writing, tables, watches>>

\* `record_event` reads the time and waits for the write lock.
Records(s, event) == writing' = [writing EXCEPT ![s] = [event |-> event, now |-> clock]]

Goes(s, to) == phase' = [phase EXCEPT ![s] = to]

\* A process begins, with its first event.
Boot(s) ==
  /\ phase[s] = "down"
  /\ Goes(s, "booting")
  /\ Records(s, Started)
  /\ UNCHANGED <<clock, socket, tables, watches>>

\* A sync changed what is served or failed, or a backup was made.
Happens(s) ==
  /\ phase[s] \in {"booting", "listening"} /\ writing[s] = None
  /\ \E event \in Happenings \ {Started, Stopped} : Records(s, event)
  /\ UNCHANGED <<clock, processes, tables, watches>>

\* Booted, whether the first sync worked or not: the path is taken over from
\* the process that is being replaced, which goes on without it.
Bind(s) ==
  /\ phase[s] = "booting" /\ writing[s] = None
  /\ Goes(s, "listening")
  /\ socket' = s
  /\ UNCHANGED <<clock, writing, tables, watches>>

\* Whoever has the socket gives it up by ending; the path stays, dead.
Closes(s) == socket' = IF socket = s THEN None ELSE socket

\* Told to stop: it listens no more, then writes its last event.
Stop(s) ==
  /\ phase[s] = "listening" /\ writing[s] = None
  /\ Goes(s, "stopping")
  /\ Closes(s)
  /\ Records(s, Stopped)
  /\ UNCHANGED <<clock, tables, watches>>

\* The last row by position.
LastRow == {row \in rows : \A other \in rows : other.seq <= row.seq}

\* The last row, when the event is the same as that.
Repeated(write) == {row \in LastRow : row.event = write.event}

\* Mutant of Again: the row that happened again keeps its position.
AgainInPlace(row, write) == [row EXCEPT !.count = @ + 1, !.last_at = write.now]

\* The same event right after itself: it grows, at the next position.
Again(row, write) == [row EXCEPT !.seq = seq + 1, !.count = @ + 1, !.last_at = write.now]

\* SQLite's next rowid: one more than the largest there is.
NextId(table) == IF table = {} THEN 1 ELSE Max({row.id : row \in table}) + 1

New(table, write) ==
  [id |-> NextId(table), seq |-> seq + 1, event |-> write.event, count |-> 1,
   last_at |-> write.now]

\* What is old is deleted, by the time of the write.
Kept(table, write) == {row \in table : row.last_at >= write.now - Retention}

\* Mutant of Written: the table is pruned before the new row is in.
WrittenAfterPruning(write) ==
  LET kept == Kept(rows, write)
  IN IF Repeated(write) # {}
       THEN {Again(row, write) : row \in Repeated(write)} \union (kept \ Repeated(write))
       ELSE kept \union {New(kept, write)}

\* The table after a write.
Written(write) ==
  Kept(IF Repeated(write) # {}
         THEN {Again(row, write) : row \in Repeated(write)} \union (rows \ Repeated(write))
         ELSE rows \union {New(rows, write)},
       write)

\* The transaction, of whoever gets the write lock.
Record(s) ==
  /\ writing[s] # None
  /\ seq < LastSeq
  /\ seq' = seq + 1
  /\ rows' = Written(writing[s])
  /\ named' = named \union {<<row.id, row.event>> : row \in rows'}
  /\ writing' = [writing EXCEPT ![s] = None]
  /\ UNCHANGED <<clock, processes, stream, watches>>

\* An event that cannot be written is dropped (`record`).
Drop(s) ==
  /\ writing[s] # None
  /\ writing' = [writing EXCEPT ![s] = None]
  /\ UNCHANGED <<clock, processes, tables, watches>>

\* A process ends or dies; what it did not write is gone.
Exit(s) ==
  /\ phase[s] # "down"
  /\ Goes(s, "down")
  /\ Closes(s)
  /\ writing' = [writing EXCEPT ![s] = None]
  /\ UNCHANGED <<clock, tables, watches>>

Down == \A s \in Servers : phase[s] = "down"

\* The volume is lost between two processes: the stream begins again.
Lose ==
  /\ Down
  /\ stream < Losses
  /\ rows' = {}
  /\ seq' = 0
  /\ stream' = stream + 1
  /\ named' = {}
  /\ UNCHANGED <<clock, processes, writing, watches>>

-----------------------------------------------------------------------------
(***************************************************************************)
(* A watch.                                                                *)
(***************************************************************************)
\* `events`: what was written after a position, and the position of the stream,
\* in one read transaction.
After(after) == {row \in rows : row.seq > after}

\* Mutant of PositionRead: the position that the next write will have.
PositionNext(w) == seq + 1

\* The position that the answer says it was read at (`position`).
PositionRead(w) == seq

\* An answer is printed, and the watch goes on from its position.
Prints(w, answer) ==
  /\ position' = [position EXCEPT ![w] = PositionRead(w)]
  /\ follows' = [follows EXCEPT ![w] = stream]
  /\ printed' = [printed EXCEPT ![w] =
       {<<row.seq, row.count>> : row \in answer} \union (IF follows[w] = stream THEN @ ELSE {})]
  /\ UNCHANGED <<clock, processes, writing, tables>>

\* The first answer is the whole list.
List(w) ==
  /\ socket # None /\ position[w] = None
  /\ Prints(w, After(0))
  /\ UNCHANGED joined

\* What was written since.  A poll that fails changes nothing and is tried
\* again.  The position of a lost stream is given up for the new stream's.
Poll(w) ==
  /\ socket # None /\ position[w] # None
  /\ Prints(w, After(position[w]))
  /\ joined' = [joined EXCEPT ![w] = IF follows[w] = stream THEN @ ELSE seq]

-----------------------------------------------------------------------------
Next ==
  \/ Tick \/ Lose
  \/ \E s \in Servers :
       Boot(s) \/ Happens(s) \/ Bind(s) \/ Stop(s) \/ Record(s) \/ Drop(s) \/ Exit(s)
  \/ \E w \in Watchers : List(w) \/ Poll(w)

\* What runs the processes ends one that it told to stop, and starts one when
\* none runs.  A start gets as far as its first write and to the socket if
\* starts go on, and a server that is there again and again answers a watch at
\* last.  Nothing ends a process that only lost its socket, nor repeats a deploy
\* that failed.
Fairness ==
  /\ WF_vars(Down /\ \E s \in Servers : Boot(s))
  /\ \A s \in Servers :
       /\ WF_vars(phase[s] = "stopping" /\ Exit(s))
       /\ SF_vars(Record(s) \/ Drop(s)) /\ SF_vars(Bind(s))
  /\ \A w \in Watchers : SF_vars(List(w)) /\ SF_vars(Poll(w))

Spec == Init /\ [][Next]_vars /\ Fairness

-----------------------------------------------------------------------------
(***************************************************************************)
(* Properties.                                                             *)
(***************************************************************************)
TypeOK ==
  /\ clock \in Times
  /\ phase \in [Servers -> Phases]
  /\ socket \in Servers \union {None}
  /\ writing \in [Servers -> Writes \union {None}]
  /\ rows \subseteq Rows
  /\ seq \in Seqs
  /\ position \in [Watchers -> Seqs \union {None}]
  /\ stream \in 0 .. Losses
  /\ follows \in [Watchers -> 0 .. Losses]
  /\ joined \in [Watchers -> Seqs]
  /\ printed \in [Watchers -> SUBSET (Seqs \X Nat)]

\* A watch has printed every event that there is as it is now, from where it
\* joined the stream to where it stands: neither a new one nor one that
\* happened again slips past its position (`events`, `watch`).
WatchMissesNothing ==
  \A w \in Watchers :
    position[w] # None /\ follows[w] = stream =>
      \A row \in rows :
        joined[w] < row.seq /\ row.seq <= position[w] =>
          <<row.seq, row.count>> \in printed[w]

\* The name of an event is never the name of another one, though ids are
\* SQLite rowids, which a deleted last row would give out again: the table is
\* pruned only once the new row is in (`record_event_at`).
NamesStandForOne ==
  \A a, b \in named : a[1] = b[1] => a[2] = b[2]

\* A process serves the site, and nobody the API: a process took the socket
\* over and ended, and the one it took it from goes on.
Orphaned == socket = None /\ \E s \in Servers : phase[s] = "listening"

\* A watch comes to stand where the stream stands, again and again, whatever
\* restarts, fails or is lost on the way, unless a deploy that failed once it
\* had the socket has left the API to nobody for good (`watch`, `bind_unix`).
WatchCatchesUp ==
  \A w \in Watchers : <>[]Orphaned \/ []<>(position[w] = seq /\ follows[w] = stream)

\* While a process that was deployed goes on, so does its API: "a deploy that
\* cannot sync keeps the previous container serving" (`readyz`).
NeverOrphaned == ~Orphaned
=============================================================================
