SPECIFICATION FairSpec
CONSTANTS
  j1 = j1  j2 = j2  j3 = j3
  f1 = f1  f2 = f2
  o1 = o1  o2 = o2  o3 = o3
  Jobs = {j1, j3}
  Sources = {f1, f2}
  Outs = {o1, o2, o3}
  SourceOf <- MCSourceOf
  OutOf <- MCOutOf
  Workers = {w1, w2}
  SourcesStay = FALSE
  MaxFaults = 1
  None = None
INVARIANTS ConvertedOnceEach DoneWrote 
PROPERTIES SoundJobsEnd
