\* Hostile timing: a day of two ticks with a grace of one, a request or a write
\* that spans a day or a tick, a failed write and a stop.
SPECIFICATION Spec
CONSTANTS
  Servers = {s1, s2}
  Visitors = {v1}
  Bots = {}
  Routes = {home, notfound}
  NOT_FOUND = notfound
  Hosts = {}
  NoHost = NoHost
  None = None
  DAY_TICKS = 2
  GRACE = 1
  FLUSH_EVERY = 1
  FLUSH_WITHIN = 1
  REQUEST_TICKS = 2
  WRITE_TICKS = 1
  MAX_REFERRERS = 1
  MAX_VISITORS = 2
  MaxClock = 3
  MaxVisits = 2
  MaxFails = 1
  MaxStops = 1
SYMMETRY Symmetry
INVARIANTS
  HashesDieWithTheirDay
  CountsConserved
  TablesAgree
PROPERTIES
  ClosedVisitorsFrozen
