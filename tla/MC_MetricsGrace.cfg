\* Punctual timing: midnight after tick 4, the grace of day 0 over at tick 9;
\* one write may fail, and neither a request nor a write spans a whole tick.
SPECIFICATION FairSpec
CONSTANTS
  Servers = {s1, s2}
  Visitors = {v1}
  Bots = {}
  Routes = {home, notfound}
  NOT_FOUND = notfound
  Hosts = {}
  NoHost = NoHost
  None = None
  DAY_TICKS = 5
  GRACE = 4
  FLUSH_EVERY = 1
  FLUSH_WITHIN = 1
  REQUEST_TICKS = 1
  WRITE_TICKS = 1
  MAX_REFERRERS = 1
  MAX_VISITORS = 2
  MaxClock = 9
  MaxVisits = 2
  MaxFails = 1
  MaxStops = 0
INVARIANTS
  VisitorsCountedOnce
PROPERTIES
  NothingReachesClosedDay
  EndedDaysClose
