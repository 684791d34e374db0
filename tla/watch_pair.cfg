SPECIFICATION Spec
CONSTANTS
  e1 = e1  p1 = p1  e2 = e2  x1 = x1
  b1 = b1  b2 = b2
  c1 = c1  c2 = c2
  epub = epub  pdf = pdf
  pa = pa  pb = pb  pc1 = pc1
  Releases = {e1, p1}
  Books = {b1, b2}
  Formats = {epub, pdf}
  Paths = {pa, pb, pc1}
  Ids = {d1, d2}
  Clients = {c1}
  Workers = {w1, w2}
  BookOf <- MCBookOf
  FormatOf <- MCFormatOf
  Manual = {}
  Dest <- MCDest
  Verifies <- ByTitle
  FirstRow = c1
  ReadsBack = {}
  SharedDir = {}
  Mode = "hardlink"
  SameVolume = TRUE
  MaxFaults = 1
  None = None
  Unheld = Unheld
SYMMETRY Symmetry
INVARIANTS FileRowHasFile OwnDownload  HistoryTruthful
