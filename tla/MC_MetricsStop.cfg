\* A shutdown while a periodic flush is under way; no write fails.
SPECIFICATION Spec
CONSTANTS
  Servers = {s1, s2}
  Visitors = {v1}
  Bots = {bot}
  Routes = {home, notfound}
  NOT_FOUND = notfound
  Hosts = {}
  NoHost = NoHost
  None = None
  DAY_TICKS = 2
  GRACE = 1
  FLUSH_EVERY = 1
  FLUSH_WITHIN = 1
  REQUEST_TICKS = 2
  WRITE_TICKS = 1
  MAX_REFERRERS = 1
  MAX_VISITORS = 2
  MaxClock = 3
  MaxVisits = 2
  MaxFails = 0
  MaxStops = 1
SYMMETRY Symmetry
PROPERTIES
  GracefulStopLosesNothing
