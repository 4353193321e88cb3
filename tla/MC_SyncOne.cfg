\* One server: four commits, the third broken, failures, crashes and a client.
SPECIFICATION FairSpec
CONSTANTS
  nav = nav
  page = page
  post = post
  a = a
  b = b
  c = c
  Servers = {s1}
  Names = {nav, page, post}
  Singletons = {nav}
  Absent = Absent
  LastRevision = 4
  Trees <- McTrees
  Broken = {3}
  PATIENCE = 1
  None = None
  MaxFails = 2
  MaxStops = 2
  MaxAsks = 2
INVARIANTS
  SkipIsSound
PROPERTIES
  ExpectedIsShown
  ShowsOneRevision
  Converges
