\* Two writers and somebody who pushes, over a branch of up to four commits.
SPECIFICATION Spec
CONSTANTS
  p = p
  q = q
  t = t
  u = u
  Names <- MCNames
  Texts <- MCTexts
  Absent = Absent
  Inline = Inline
  Kept = Kept
  Commands <- MCCommands
  Initial <- MCInitial
  Pushed <- MCPushed
  Writers = {w1, w2}
  None = None
  LastCommit = 4
SYMMETRY Symmetry
INVARIANTS
  AnswersAreTrue
PROPERTIES
  MovesFromItsParent
  Atomic
  EveryWriteChanges
  PagesStayWhole
