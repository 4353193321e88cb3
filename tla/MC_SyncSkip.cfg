\* The two servers of a deploy: no failure, no crash.
SPECIFICATION Spec
CONSTANTS
  nav = nav
  page = page
  post = post
  a = a
  b = b
  c = c
  Servers = {s1, s2}
  Names = {nav, page, post}
  Singletons = {nav}
  Absent = Absent
  LastRevision = 4
  Trees <- McTrees
  Broken = {3}
  PATIENCE = 1
  None = None
  MaxFails = 0
  MaxStops = 0
  MaxAsks = 0
INVARIANTS
  SkipIsSound
