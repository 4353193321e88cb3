------------------------------- MODULE Metrics -------------------------------
(***************************************************************************)
(* Page views without tracking (crates/server/src/metrics.rs and           *)
(* crates/core/src/metrics.rs).                                            *)
(*                                                                         *)
(* Every server process counts requests into a batch in memory and flushes *)
(* it every minute, and on shutdown, into the one SQLite database; while a *)
(* deploy runs there are two of them.  The first flush after a UTC day is  *)
(* GRACE over closes it: its visitors are counted, and its hashes and its  *)
(* salt deleted.                                                           *)
(*                                                                         *)
(* Time is a clock of ticks, one tick being FLUSH_EVERY (a minute) in the  *)
(* code.  A handler is cut where it awaits: another server's transaction,  *)
(* a tick or a stop may come between two of its steps, never inside one.   *)
(***************************************************************************)
EXTENDS Integers, FiniteSets, FiniteSetsExt, Functions

CONSTANTS
  Servers,          \* The processes that may run over one database.
  Visitors,         \* Distinct pairs of address and user agent.
  Bots,             \* User agents that name themselves tools or crawlers.
  Routes,           \* Paths of pages, with NOT_FOUND among them.
  NOT_FOUND,        \* The one route every 404 is counted under.
  Hosts,            \* Referring hosts other than the site's own.
  NoHost,           \* No referrer worth counting.
  None,             \* No request, no flush, no salt.
  DAY_TICKS,        \* Ticks in a day.
  GRACE,            \* Ticks a day stays open after midnight.
  FLUSH_EVERY,      \* Ticks between the starts of two flushes, at least.
  FLUSH_WITHIN,     \* Ticks between them at most: the ticker delays, never skips.
  REQUEST_TICKS,    \* Ticks a request may span before it is counted.
  WRITE_TICKS,      \* Ticks a flush may wait for the database's write lock.
  MAX_REFERRERS,    \* Distinct referring hosts kept between flushes.
  MAX_VISITORS,     \* Visitor hashes kept between flushes.
  MaxClock,         \* Bound: the last tick of the model.
  MaxVisits,        \* Bound: requests that arrive.
  MaxFails,         \* Bound: database writes that fail.
  MaxStops          \* Bound: crashes and shutdowns.

ASSUME MetricsAssumption ==
  /\ IsFiniteSet(Servers) /\ IsFiniteSet(Routes)
  /\ NOT_FOUND \in Routes
  /\ Bots \intersect Visitors = {}
  /\ NoHost \notin Hosts
  /\ DAY_TICKS \in Nat \ {0}
  /\ {GRACE, FLUSH_EVERY, FLUSH_WITHIN, REQUEST_TICKS, WRITE_TICKS} \subseteq Nat
  /\ FLUSH_EVERY <= FLUSH_WITHIN
  /\ {MAX_REFERRERS, MAX_VISITORS} \subseteq Nat
  /\ {MaxClock, MaxVisits, MaxFails, MaxStops} \subseteq Nat
  /\ GRACE <= DAY_TICKS /\ DAY_TICKS <= MaxClock

(***************************************************************************)
(* Days.  A day is the number of midnights since the epoch; the tables key *)
(* it as YYYY-MM-DD, whose order as text is the order of the numbers.      *)
(***************************************************************************)
day(t) == t \div DAY_TICKS

Days == {day(t) : t \in 0 .. MaxClock}

\* Mutant of OpenUntil: no grace, a day closes at midnight.
OpenUntilMidnight(t) == day(t)

\* The day a flush begun at t still keeps open, with everything after it.
OpenUntil(t) == day(t - GRACE)

(***************************************************************************)
(* Data.  A salt is the number of its creation, so that a salt created     *)
(* again for the same day is another salt; a hash is what it disguises.    *)
(* A view's count of zero stands for an absent key.                        *)
(***************************************************************************)
Hash == [who : Visitors, salt : Nat]

Sighting == [day : Days, route : Routes, hash : Hash]

Batch == [views     : [Days -> [Routes -> Nat]],
          referrers : [Days -> [Hosts -> Nat]],
          bots      : [Days -> Nat],
          visitors  : SUBSET Sighting]

NoViews == [d \in Days |-> [r \in Routes |-> 0]]

EmptyBatch == [views     |-> NoViews,
               referrers |-> [d \in Days |-> [h \in Hosts |-> 0]],
               bots      |-> [d \in Days |-> 0],
               visitors  |-> {}]

\* The counts of a batch, without whom they are of.
Counts == [views : [Days -> [Routes -> Nat]], referrers : [Days -> [Hosts -> Nat]],
           bots : [Days -> Nat]]

NoCounts == [views |-> NoViews, referrers |-> EmptyBatch.referrers,
             bots |-> EmptyBatch.bots]

Plus(f, g) == [x \in DOMAIN f |-> f[x] + g[x]]

PlusPlus(f, g) == [x \in DOMAIN f |-> Plus(f[x], g[x])]

\* A flush: what was taken out of memory and the moment it was taken.
Flush == [batch : Batch, now : 0 .. MaxClock, ticks : Nat]

\* The periodic flush and the one of a shutdown can be under way together.
Flushes == {"periodic", "final"}

\* A request before it is counted, and one that waits for the day's salt.
Request ==
  [day : Days, route : Routes, who : Visitors \union Bots,
   host : Hosts \union {NoHost}, step : {"respond"}, ticks : Nat]
    \union [day : Days, route : Routes, who : Visitors,
             host : Hosts \union {NoHost}, step : {"select"}, ticks : Nat]

\* The salt a server keeps, and the day it is of.
Salt == [day : Days, salt : Nat]

ASSUME NoneAssumption == None \notin Nat \union Hash \union Flush \union Request \union Salt

PageRow == [views : Nat, visitors : Nat]

NewDay == [views |-> 0, visitors |-> 0, bots |-> 0, closed |-> FALSE]

DailyColumns == {"views", "visitors", "bots", "closed"}

VARIABLES
  clock,       \* The wall clock, one for every container of the host.
  phase,       \* Where each process is in its life.
  request,     \* The request each server is answering, if any.
  batch,       \* What each server counted and did not take for a flush.
  cache,       \* The salt each server keeps for one day.
  flight,      \* The flushes each server has begun and not finished.
  idle,        \* Ticks since each server last began a flush.
  page_views,  \* The tables.
  daily,       \* A row per day in its domain.
  referrers,
  visitor_hashes,
  metrics_salt

\* History and bounds: what was counted, what went down with a process, who
\* was recognised, and how often the bounded things happened.
VARIABLES counted, lost, came, visits, salts, fails, stops

tables == <<page_views, daily, referrers, visitor_hashes, metrics_salt>>

memory == <<request, batch, cache, flight, idle>>

history == <<counted, lost, came, visits, salts, fails, stops>>

vars == <<clock, phase, memory, tables, history>>

Init ==
  /\ clock = DAY_TICKS - 1
  /\ phase = [s \in Servers |-> "up"]
  /\ request = [s \in Servers |-> None]
  /\ batch = [s \in Servers |-> EmptyBatch]
  /\ cache = [s \in Servers |-> None]
  /\ flight = [s \in Servers |-> [k \in Flushes |-> None]]
  /\ idle = [s \in Servers |-> 0]
  /\ page_views = [d \in Days |-> [r \in Routes |-> [views |-> 0, visitors |-> 0]]]
  /\ daily = [d \in {} |-> NewDay]
  /\ referrers = EmptyBatch.referrers
  /\ visitor_hashes = {}
  /\ metrics_salt = [d \in Days |-> None]
  /\ counted = NoCounts
  /\ lost = NoCounts
  /\ came = [d \in Days |-> {}]
  /\ visits = 0
  /\ salts = 0
  /\ fails = 0
  /\ stops = 0

-----------------------------------------------------------------------------
(***************************************************************************)
(* Counting a request.                                                     *)
(***************************************************************************)

\* What a request counts for: of a bot nothing but its day is kept.
Visits ==
  [who : Visitors, route : Routes, host : Hosts \union {NoHost}]
    \union [who : Bots, route : {NOT_FOUND}, host : {NoHost}]

\* The middleware notes the day before the page is built.
Arrive(s) ==
  /\ phase[s] = "up"
  /\ request[s] = None
  /\ visits < MaxVisits
  /\ \E v \in Visits :
       request' = [request EXCEPT ![s] =
         [day |-> day(clock), route |-> v.route, who |-> v.who, host |-> v.host,
          step |-> "respond", ticks |-> 0]]
  /\ visits' = visits + 1
  /\ UNCHANGED <<clock, phase, batch, cache, flight, idle, tables,
                 counted, lost, came, salts, fails, stops>>

\* A client that hangs up, or an answer that is neither a page nor a 404:
\* the handler is dropped where it awaits and counts nothing.
Abandon(s) ==
  /\ request[s] # None
  /\ request' = [request EXCEPT ![s] = None]
  /\ UNCHANGED <<clock, phase, batch, cache, flight, idle, tables, history>>

CountBot(s) ==
  /\ request[s] # None
  /\ request[s].step = "respond" /\ request[s].who \in Bots
  /\ LET d == request[s].day
     IN /\ batch' = [batch EXCEPT ![s].bots[d] = @ + 1]
        /\ counted' = [counted EXCEPT !.bots[d] = @ + 1]
  /\ request' = [request EXCEPT ![s] = None]
  /\ UNCHANGED <<clock, phase, cache, flight, idle, tables,
                 lost, came, visits, salts, fails, stops>>

DistinctReferrers(b) ==
  Cardinality({p \in Days \X Hosts : b.referrers[p[1]][p[2]] > 0})

\* Mutant of KeepsReferrer: one host more than the cap.
KeepsOneMore(b, d, h) ==
  /\ h # NoHost
  /\ \/ DistinctReferrers(b) <= MAX_REFERRERS
     \/ b.referrers[d][h] > 0

KeepsReferrer(b, d, h) ==
  /\ h # NoHost
  /\ \/ DistinctReferrers(b) < MAX_REFERRERS
     \/ b.referrers[d][h] > 0

WithHash(q, hash) == [day |-> q.day, route |-> q.route, hash |-> hash]

\* A batch with one more view, and with the hash it was recognised by, if any.
WithView(b, q, hash) ==
  [views     |-> [b.views EXCEPT ![q.day][q.route] = @ + 1],
   referrers |-> IF KeepsReferrer(b, q.day, q.host)
                   THEN [b.referrers EXCEPT ![q.day][q.host] = @ + 1]
                   ELSE b.referrers,
   bots      |-> b.bots,
   visitors  |-> IF hash # None /\ Cardinality(b.visitors) < MAX_VISITORS
                   THEN b.visitors \union {WithHash(q, hash)}
                   ELSE b.visitors]

\* The end of `count`, under the batch's lock.
CountView(s, hash) ==
  LET q == request[s]
  IN /\ batch' = [batch EXCEPT ![s] = WithView(batch[s], q, hash)]
     /\ counted' = [views     |-> [counted.views EXCEPT ![q.day][q.route] = @ + 1],
                    referrers |-> IF KeepsReferrer(batch[s], q.day, q.host)
                                    THEN [counted.referrers EXCEPT ![q.day][q.host] = @ + 1]
                                    ELSE counted.referrers,
                    bots      |-> counted.bots]
     /\ came' = IF hash # None /\ WithHash(q, hash) \in batch'[s].visitors
                  THEN [came EXCEPT ![q.day] = @ \union {<<q.route, q.who>>}]
                  ELSE came
     /\ request' = [request EXCEPT ![s] = None]

HasSalt(s) == cache[s] # None /\ cache[s].day = request[s].day

\* The salt of the day is in memory: hashed and counted without an await.
CountKnown(s) ==
  /\ request[s] # None
  /\ request[s].step = "respond" /\ request[s].who \notin Bots
  /\ HasSalt(s)
  /\ CountView(s, [who |-> request[s].who, salt |-> cache[s].salt])
  /\ UNCHANGED <<clock, phase, cache, flight, idle, tables,
                 lost, visits, salts, fails, stops>>

\* Mutant of InsertSalt: INSERT OR REPLACE, a second server's salt takes over.
ReplaceSalt(s) ==
  /\ request[s] # None
  /\ request[s].step = "respond" /\ request[s].who \notin Bots
  /\ ~HasSalt(s)
  /\ metrics_salt' = [metrics_salt EXCEPT ![request[s].day] = salts + 1]
  /\ salts' = salts + 1
  /\ request' = [request EXCEPT ![s].step = "select"]
  /\ UNCHANGED <<clock, phase, batch, cache, flight, idle, page_views, daily, referrers,
                 visitor_hashes, counted, lost, came, visits, fails, stops>>

\* INSERT OR IGNORE of the day's salt, a statement of its own.
InsertSalt(s) ==
  /\ request[s] # None
  /\ request[s].step = "respond" /\ request[s].who \notin Bots
  /\ ~HasSalt(s)
  /\ IF metrics_salt[request[s].day] = None
       THEN /\ metrics_salt' = [metrics_salt EXCEPT ![request[s].day] = salts + 1]
            /\ salts' = salts + 1
       ELSE UNCHANGED <<metrics_salt, salts>>
  /\ request' = [request EXCEPT ![s].step = "select"]
  /\ UNCHANGED <<clock, phase, batch, cache, flight, idle, page_views, daily, referrers,
                 visitor_hashes, counted, lost, came, visits, fails, stops>>

\* SELECT of the day's salt: a flush may have deleted it since the INSERT, and
\* then the view counts no visitor.
SelectSalt(s) ==
  /\ request[s] # None
  /\ request[s].step = "select"
  /\ LET d == request[s].day
         salt == metrics_salt[d]
     IN IF salt = None
          THEN CountView(s, None) /\ UNCHANGED cache
          ELSE /\ CountView(s, [who |-> request[s].who, salt |-> salt])
               /\ cache' = [cache EXCEPT ![s] = [day |-> d, salt |-> salt]]
  /\ UNCHANGED <<clock, phase, flight, idle, tables, lost, visits, salts, fails, stops>>

\* Either statement fails on a busy or broken database.
SaltFails(s) ==
  /\ request[s] # None
  /\ request[s].who \notin Bots
  /\ request[s].step = "respond" => ~HasSalt(s)
  /\ fails < MaxFails
  /\ CountView(s, None)
  /\ fails' = fails + 1
  /\ UNCHANGED <<clock, phase, cache, flight, idle, tables, lost, visits, salts, stops>>

-----------------------------------------------------------------------------
(***************************************************************************)
(* Flushing.                                                               *)
(***************************************************************************)

\* The batch leaves memory, and the clock is read, before the first await.
TakeBatch(s, k) ==
  /\ flight' = [flight EXCEPT ![s][k] = [batch |-> batch[s], now |-> clock, ticks |-> 0]]
  /\ batch' = [batch EXCEPT ![s] = EmptyBatch]

\* Mutant of PeriodicFlush: nothing counted, nothing flushed.
FlushUnlessEmpty(s) ==
  /\ phase[s] # "down"
  /\ idle[s] >= FLUSH_EVERY
  /\ flight[s]["periodic"] = None
  /\ IF batch[s] = EmptyBatch THEN UNCHANGED <<batch, flight>> ELSE TakeBatch(s, "periodic")
  /\ idle' = [idle EXCEPT ![s] = 0]
  /\ UNCHANGED <<clock, phase, request, cache, tables, history>>

PeriodicFlush(s) ==
  /\ phase[s] # "down"
  /\ idle[s] >= FLUSH_EVERY
  /\ flight[s]["periodic"] = None
  /\ TakeBatch(s, "periodic")
  /\ idle' = [idle EXCEPT ![s] = 0]
  /\ UNCHANGED <<clock, phase, request, cache, tables, history>>

IsOpen(table, d) == d \in DOMAIN table /\ ~table[d].closed

IsClosed(table, d) == d \in DOMAIN table /\ table[d].closed

\* The days the batch has a row of `daily` for: an entry is made for a view
\* of any route, and for a bot.
TouchedDays(b) ==
  {d \in Days : b.bots[d] > 0 \/ \E r \in Routes : b.views[d][r] > 0}

\* Mutant of PagesServed: the 404 bucket counts as a page.
AllServed(b, d) == MapThenSumSet(LAMBDA r : b.views[d][r], Routes)

\* The views a batch adds to a day: the 404 bucket is no page.
PagesServed(b, d) == MapThenSumSet(LAMBDA r : b.views[d][r], Routes \ {NOT_FOUND})

\* A row of daily with what a batch adds, and as it is closed.
RowPlus(row, views, bots) == [row EXCEPT !.views = @ + views, !.bots = @ + bots]

RowClosed(row, visitors) == [row EXCEPT !.closed = TRUE, !.visitors = visitors]

\* `daily` after the upserts of a batch.
DailyPlus(table, b) ==
  [d \in DOMAIN table \union TouchedDays(b) |->
     RowPlus(IF d \in DOMAIN table THEN table[d] ELSE NewDay,
             PagesServed(b, d), b.bots[d])]

\* `page_views` after the upserts of a batch.
PagesPlus(table, b) ==
  [d \in Days |-> [r \in Routes |->
     [table[d][r] EXCEPT !.views = @ + b.views[d][r]]]]

\* Mutant of Recorded: the day is not asked whether it is closed.
RecordedAlways(table, b) == b.visitors

\* The hashes a batch adds: none for a day already closed.
Recorded(table, b) == {v \in b.visitors : ~IsClosed(table, v.day)}

HashesOf(seen, d, routes) ==
  {v.hash : v \in {v \in seen : v.day = d /\ v.route \in routes}}

\* Mutant of Closing: closed days are closed again.
ClosingAgain(table, open) == {d \in DOMAIN table : d < open}

\* The days that ended and are still open.
Closing(table, open) == {d \in Days : IsOpen(table, d) /\ d < open}

\* The one transaction of a flush, batch and closing of days together.
Write(f) ==
  LET b == f.batch
      open == OpenUntil(f.now)
      rows == DailyPlus(daily, b)
      pages == PagesPlus(page_views, b)
      seen == visitor_hashes \union Recorded(rows, b)
      closing == Closing(rows, open)
  IN /\ page_views' = [d \in Days |-> [r \in Routes |->
          IF d \in closing
            THEN [pages[d][r] EXCEPT !.visitors = Cardinality(HashesOf(seen, d, {r}))]
            ELSE pages[d][r]]]
     /\ daily' = [d \in DOMAIN rows |->
          IF d \in closing
            THEN RowClosed(rows[d], Cardinality(HashesOf(seen, d, Routes \ {NOT_FOUND})))
            ELSE rows[d]]
     /\ referrers' = PlusPlus(referrers, b.referrers)
     /\ visitor_hashes' = {v \in seen : ~(v.day < open)}
     /\ metrics_salt' = [d \in Days |-> IF d < open THEN None ELSE metrics_salt[d]]

FlushCommits(s, k) ==
  /\ flight[s][k] # None
  /\ Write(flight[s][k])
  /\ flight' = [flight EXCEPT ![s][k] = None]
  /\ UNCHANGED <<clock, phase, request, batch, cache, idle, history>>

\* Mutant of Merge: a key counted meanwhile is overwritten, not added to.
MergeReplacing(b, taken) ==
  [b EXCEPT !.views = [d \in Days |-> [r \in Routes |->
                         IF taken.views[d][r] > 0 THEN taken.views[d][r] ELSE @[d][r]]],
            !.visitors = @ \union taken.visitors]

\* Mutant of Merge: the referrers of the failed flush are forgotten.
MergeForgetting(b, taken) ==
  [views     |-> PlusPlus(b.views, taken.views),
   referrers |-> b.referrers,
   bots      |-> Plus(b.bots, taken.bots),
   visitors  |-> b.visitors \union taken.visitors]

\* What a failed flush held is added back to what was counted meanwhile.
Merge(b, taken) ==
  [views     |-> PlusPlus(b.views, taken.views),
   referrers |-> PlusPlus(b.referrers, taken.referrers),
   bots      |-> Plus(b.bots, taken.bots),
   visitors  |-> b.visitors \union taken.visitors]

FlushFails(s, k) ==
  /\ flight[s][k] # None
  /\ fails < MaxFails
  /\ batch' = [batch EXCEPT ![s] = Merge(batch[s], flight[s][k].batch)]
  /\ flight' = [flight EXCEPT ![s][k] = None]
  /\ fails' = fails + 1
  /\ UNCHANGED <<clock, phase, request, cache, idle, tables,
                 counted, lost, came, visits, salts, stops>>

-----------------------------------------------------------------------------
(***************************************************************************)
(* The life of a process.                                                  *)
(***************************************************************************)

\* SIGTERM: no new requests; the ones under way are answered.
Terminate(s) ==
  /\ phase[s] = "up"
  /\ stops < MaxStops
  /\ phase' = [phase EXCEPT ![s] = "draining"]
  /\ stops' = stops + 1
  /\ UNCHANGED <<clock, memory, tables, counted, lost, came, visits, salts, fails>>

\* Both servers have drained: the last flush, beside the periodic task's.
FinalFlush(s) ==
  /\ phase[s] = "draining"
  /\ request[s] = None
  /\ phase' = [phase EXCEPT ![s] = "stopping"]
  /\ TakeBatch(s, "final")
  /\ UNCHANGED <<clock, request, cache, idle, tables, history>>

\* Everything a process holds that no table does.
Held(s) ==
  LET in(k) == IF flight[s][k] = None THEN EmptyBatch ELSE flight[s][k].batch
  IN Merge(batch[s], Merge(in("periodic"), in("final")))

Dies(s) ==
  /\ phase' = [phase EXCEPT ![s] = "down"]
  /\ lost' = [views     |-> PlusPlus(lost.views, Held(s).views),
              referrers |-> PlusPlus(lost.referrers, Held(s).referrers),
              bots      |-> Plus(lost.bots, Held(s).bots)]
  /\ request' = [request EXCEPT ![s] = None]
  /\ batch' = [batch EXCEPT ![s] = EmptyBatch]
  /\ cache' = [cache EXCEPT ![s] = None]
  /\ flight' = [flight EXCEPT ![s] = [k \in Flushes |-> None]]
  /\ idle' = [idle EXCEPT ![s] = 0]

\* The runtime ends with `main` and drops the periodic task where it is.
Exit(s) ==
  /\ phase[s] = "stopping"
  /\ flight[s]["final"] = None
  /\ Dies(s)
  /\ UNCHANGED <<clock, tables, counted, came, visits, salts, fails, stops>>

\* SIGKILL, a panic of the host, or a drain that outlasts the container's.
Crash(s) ==
  /\ phase[s] # "down"
  /\ stops < MaxStops
  /\ Dies(s)
  /\ stops' = stops + 1
  /\ UNCHANGED <<clock, tables, counted, came, visits, salts, fails>>

Boot(s) ==
  /\ phase[s] = "down"
  /\ phase' = [phase EXCEPT ![s] = "up"]
  /\ UNCHANGED <<clock, memory, tables, history>>

-----------------------------------------------------------------------------
(***************************************************************************)
(* Time passes once nothing is overdue: a running server begins a flush    *)
(* within FLUSH_WITHIN of its last, neither a request nor a write outlasts *)
(* its bound, and a shutdown with nothing to wait for goes on.  At         *)
(* MaxClock the date stands still and the timers do not.                   *)
(***************************************************************************)
\* The steps of a shutdown that wait for nothing.
Leaving(s) ==
  \/ phase[s] = "draining" /\ request[s] = None
  \/ phase[s] = "stopping" /\ flight[s]["final"] = None

Punctual(s) ==
  /\ ~Leaving(s)
  /\ phase[s] # "down" => idle[s] < FLUSH_WITHIN
  /\ request[s] # None => request[s].ticks < REQUEST_TICKS
  /\ \A k \in Flushes : flight[s][k] # None => flight[s][k].ticks < WRITE_TICKS

Tick ==
  /\ \A s \in Servers : Punctual(s)
  /\ clock' = IF clock < MaxClock THEN clock + 1 ELSE clock
  /\ idle' = [s \in Servers |-> IF phase[s] = "down" THEN 0 ELSE idle[s] + 1]
  /\ request' = [s \in Servers |->
       IF request[s] = None THEN None ELSE [request[s] EXCEPT !.ticks = @ + 1]]
  /\ flight' = [s \in Servers |-> [k \in Flushes |->
       IF flight[s][k] = None THEN None ELSE [flight[s][k] EXCEPT !.ticks = @ + 1]]]
  /\ UNCHANGED <<phase, batch, cache, tables, history>>

\* What a running process owes: to answer, to flush, to stop when told to, and
\* to be started again by its container.
Owed(s) ==
  \/ CountBot(s) \/ CountKnown(s) \/ InsertSalt(s) \/ SelectSalt(s)
  \/ PeriodicFlush(s) \/ FlushCommits(s, "periodic") \/ FlushCommits(s, "final")
  \/ FinalFlush(s) \/ Exit(s) \/ Boot(s)

\* What the world may do: clients, a failing database, operators, the kernel.
Environment(s) ==
  \/ Arrive(s) \/ Abandon(s)
  \/ SaltFails(s) \/ FlushFails(s, "periodic") \/ FlushFails(s, "final")
  \/ Terminate(s) \/ Crash(s)

Next == Tick \/ \E s \in Servers : Owed(s) \/ Environment(s)

Spec == Init /\ [][Next]_vars

\* The runtimes poll their tasks, SQLite answers, containers restart and time
\* passes; the environment owes nothing.  No server needs fairness of its own:
\* time waits for each of them.
Fairness == WF_vars(Tick) /\ WF_vars(\E s \in Servers : Owed(s))

FairSpec == Spec /\ Fairness

-----------------------------------------------------------------------------
(***************************************************************************)
(* What `hldr top` reads, each answer in a transaction of its own.         *)
(***************************************************************************)
\* `Since`: the last days, today with them, or every day; a longer period of
\* days would read the same.
All == 0

Sinces == {All} \union 1 .. Cardinality(Days)

\* A day that some table has a row of.
KeptDays ==
  DOMAIN daily
    \union {d \in Days : \E r \in Routes : page_views[d][r].views > 0}
    \union {d \in Days : \E h \in Hosts : referrers[d][h] > 0}

\* `period` and `days`: all of it begins with the first day kept, and ends today.
DaysOf(since) ==
  LET from == IF since # All THEN day(clock) - since + 1
              ELSE Min(KeptDays \union {day(clock)})
  IN from .. day(clock)

\* The visitors of an open day are the hashes it holds so far.
DailyVisitors(d) ==
  IF daily[d].closed THEN daily[d].visitors
  ELSE Cardinality({v.hash : v \in {v \in visitor_hashes : v.day = d /\ v.route # NOT_FOUND}})

DailyViews(d) == daily[d].views

\* The totals of `daily_metrics`; a day without a row counts nothing.
DailyMetrics(days) ==
  LET kept == days \intersect DOMAIN daily
  IN [views    |-> SumFunction([d \in kept |-> DailyViews(d)]),
      visitors |-> SumFunction([d \in kept |-> DailyVisitors(d)])]

\* `page_metrics`: the days of a page, each open or closed.
PageVisitors(d, r) ==
  IF IsClosed(daily, d) THEN page_views[d][r].visitors
  ELSE Cardinality({v \in visitor_hashes : v.day = d /\ v.route = r})

PageMetrics(days) ==
  [r \in Routes |->
    [views    |-> SumFunction([d \in days \intersect Days |-> page_views[d][r].views]),
     visitors |-> SumFunction([d \in days \intersect Days |-> PageVisitors(d, r)])]]

-----------------------------------------------------------------------------
(***************************************************************************)
(* Properties.                                                             *)
(***************************************************************************)

\* A row of daily.
IsDailyRow(row) ==
  /\ row = [c \in DailyColumns |-> row[c]]
  /\ row.views \in Nat
  /\ row.visitors \in Nat
  /\ row.bots \in Nat
  /\ row.closed \in BOOLEAN

\* The shape of every variable: what each table, batch and request may hold.
TypeOK ==
  /\ clock \in 0 .. MaxClock
  /\ phase \in [Servers -> {"up", "draining", "stopping", "down"}]
  /\ request \in [Servers -> Request \union {None}]
  /\ batch \in [Servers -> Batch]
  /\ cache \in [Servers -> Salt \union {None}]
  /\ flight \in [Servers -> [Flushes -> Flush \union {None}]]
  /\ idle \in [Servers -> Nat]
  /\ page_views \in [Days -> [Routes -> PageRow]]
  /\ daily = [d \in DOMAIN daily |-> daily[d]] /\ DOMAIN daily \subseteq Days
  /\ \A d \in DOMAIN daily : IsDailyRow(daily[d])
  /\ referrers \in [Days -> [Hosts -> Nat]]
  /\ visitor_hashes \subseteq Sighting
  /\ metrics_salt \in [Days -> Nat \union {None}]
  /\ counted \in Counts
  /\ lost \in Counts
  /\ came \in [Days -> SUBSET (Routes \X Visitors)]
  /\ {visits, salts, fails, stops} \subseteq Nat

\* A hash is kept only while its day is open: every row of visitor_hashes
\* belongs to a day that has a row of daily, and that row is not closed
\* (migrations/0009_metrics.sql, the statements of flush_metrics_at).
HashesDieWithTheirDay ==
  \A v \in visitor_hashes : IsOpen(daily, v.day)

\* Every view, every bot and every referral kept is in a table, in a memory or
\* went down with a process, exactly once, however flushes fail, merge back,
\* overlap and stop half-way ("Every write is additive").
CountsConserved ==
  LET held == FoldSet(LAMBDA s, b : Merge(Held(s), b), EmptyBatch, Servers)
      bots == [d \in Days |-> IF d \in DOMAIN daily THEN daily[d].bots ELSE 0]
      views == [d \in Days |-> [r \in Routes |-> page_views[d][r].views]]
  IN counted = [views     |-> PlusPlus(lost.views, PlusPlus(views, held.views)),
                referrers |-> PlusPlus(lost.referrers, PlusPlus(referrers, held.referrers)),
                bots      |-> Plus(lost.bots, Plus(bots, held.bots))]

\* What a server keeps in memory between flushes is bounded, whatever clients
\* send: by the caps, and by as much again for every write that failed, since a
\* batch merged back is not cut to them.
MemoryBounded ==
  \A s \in Servers :
    /\ DistinctReferrers(batch[s]) <= MAX_REFERRERS * (1 + fails)
    /\ Cardinality(batch[s].visitors) <= MAX_VISITORS * (1 + fails)

\* What the private API answers of any period agrees with itself: the views of
\* its days are those of its pages, and its visitors, of open days and closed
\* ones, are at least those of the best page and at most those of all pages
\* together; and nothing that is kept is left out of the whole period.
TablesAgree ==
  /\ KeptDays \subseteq DaysOf(All)
  /\ \A since \in Sinces :
       LET days == DaysOf(since)
           items == Restrict(PageMetrics(days), Routes \ {NOT_FOUND})
           total == DailyMetrics(days)
       IN /\ total.views = SumFunction([r \in DOMAIN items |-> items[r].views])
          /\ \A r \in DOMAIN items : items[r].visitors <= total.visitors
          /\ total.visitors <= SumFunction([r \in DOMAIN items |-> items[r].visitors])

\* Whom a day recognised, on the given routes.
Came(d, routes) == {p[2] : p \in {p \in came[d] : p[1] \in routes}}

\* A closed day counts every visitor once, whichever servers saw the visitor
\* and however many salts the day had: its visitors are at most those who
\* came, and exactly those when nothing counted on that day was lost.
VisitorsCountedOnce ==
  \A d \in Days : IsClosed(daily, d) =>
    LET pages == Routes \ {NOT_FOUND}
    IN /\ daily[d].visitors <= Cardinality(Came(d, pages))
       /\ lost.views[d] = NoViews[d] => daily[d].visitors = Cardinality(Came(d, pages))

\* A day once closed never opens again, and the visitors counted for it and
\* for each of its pages never change: there is no hash left to count again.
ClosedVisitorsFrozen ==
  [][\A d \in Days : IsClosed(daily, d) =>
       /\ IsClosed(daily', d)
       /\ daily'[d].visitors = daily[d].visitors
       /\ \A r \in Routes : page_views'[d][r].visitors = page_views[d][r].visitors]_vars

\* "A server flushes what it counted before midnight within a minute, so none
\* of it reaches a closed day" (core/src/metrics.rs, GRACE).
NothingReachesClosedDay ==
  [][\A d \in Days : IsClosed(daily, d) =>
       /\ daily'[d] = daily[d]
       /\ page_views'[d] = page_views[d]
       /\ referrers'[d] = referrers[d]]_vars

\* "Counts are flushed every minute and on shutdown" (README): a server that
\* stops on its own account, none of its writes failing, leaves nothing behind.
GracefulStopLosesNothing ==
  [][\A s \in Servers : phase[s] = "stopping" /\ phase'[s] = "down" /\ fails = 0
       /\ stops' = stops => lost' = lost]_vars

\* A day that has a row and whose grace is over is closed in the end.
EndedDaysClose ==
  \A d \in Days : (d \in DOMAIN daily /\ d < OpenUntil(clock)) ~> IsClosed(daily, d)
=============================================================================
