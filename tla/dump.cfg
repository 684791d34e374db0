SPECIFICATION FairSpec
CONSTANTS
  MaxKey = 6
  Batch = 2
  AppendOnly = TRUE
  MaxCrashes = 2
  MaxImports = 1
INVARIANTS LastIsIngested Complete
PROPERTIES ResumesUncrashed
