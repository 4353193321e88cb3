\* Two servers, one watch: the watches do not meet.
SPECIFICATION Spec
CONSTANTS
  Servers = {s1, s2}
  Watchers = {w}
  Happenings = {started, stopped, failed}
  Started = started
  Stopped = stopped
  None = None
  Retention = 0
  LastTime = 1
  LastSeq = 2
  Losses = 1
INVARIANTS
  WatchMissesNothing
  NamesStandForOne
PROPERTIES
  WatchCatchesUp
