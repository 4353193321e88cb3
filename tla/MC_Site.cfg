SPECIFICATION Spec
CONSTANTS
  None = None
  Trees <- MCTrees
  Cookies <- MCCookies
  Paths <- MCPaths
INVARIANTS
  PagesAnswer
  LinksLead
  EveryValueShows
  TypesServed
  ReadyServes
  CrossedAnswers
