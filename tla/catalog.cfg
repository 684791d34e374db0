SPECIFICATION FairSpec
CONSTANTS
  t1 = t1  t2 = t2  plain = plain  caps = caps
  p1 = p1  p2 = p2  p3 = p3  p4 = p4  p5 = p5  i1 = i1  u1 = u1  u2 = u2
  Titles = {t1, t2}
  Names = {plain, caps}
  Fold <- MCFold
  Lists <- MCLists
  Picks <- MCPicks
  Wishes <- MCWishes
  Library <- MCLibrary
  Calibre <- MCCalibre
  Editors = {u1, u2}
  Edited = {1}
  MaxEdits = 2
  None = None
INVARIANTS FilesUnderTheirBook RequestAnswered
PROPERTIES  IndexFollows ListsServed
