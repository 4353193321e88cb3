SPECIFICATION Spec
CONSTANTS
  Runs = {r1, r2}
  None = None
  Pasted = Pasted
  Age = 1
  LastToken = 2
  LastStart = 3
  LastTime = 7
  Life = 4
  SessionLife = 4
  CodeLife = 2
  Timeout = 1
  RenewAhead = 3
  Grace = 2
  Interval = 1
INVARIANTS
  SpentOnce
  HandedTokenLives
PROPERTIES
  OnlyDeadSessionsGo
  PaceKept
  EveryRunEnds
CHECK_DEADLOCK FALSE
