\* The two servers of a deploy, fair, two days, a late view, a failure, a stop
\* and a loss of the volume.
SPECIFICATION FairSpec
CONSTANTS
  Servers = {s1, s2}
  LastDay = 2
  None = None
  MaxViews = 1
  MaxLate = 1
  MaxFails = 1
  MaxStops = 1
  MaxLosses = 1
INVARIANTS
  NotedIsHeld
  FilesAgree
  OneCommitADay
PROPERTIES
  RestoredWhole
  HeldInTheEnd
