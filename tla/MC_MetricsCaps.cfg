\* One server at the limits of its memory: one referring host and one visitor
\* fill a batch, three requests come, and one write may fail.
SPECIFICATION Spec
CONSTANTS
  Servers = {s1}
  Visitors = {v1, v2}
  Bots = {bot}
  Routes = {home, notfound}
  NOT_FOUND = notfound
  Hosts = {h1, h2}
  NoHost = NoHost
  None = None
  DAY_TICKS = 2
  GRACE = 1
  FLUSH_EVERY = 1
  FLUSH_WITHIN = 1
  REQUEST_TICKS = 1
  WRITE_TICKS = 1
  MAX_REFERRERS = 1
  MAX_VISITORS = 1
  MaxClock = 2
  MaxVisits = 3
  MaxFails = 1
  MaxStops = 0
SYMMETRY Symmetry
INVARIANTS
  CountsConserved
  MemoryBounded
