SPECIFICATION FairSpec
CONSTANTS
  i1 = i1  i2 = i2
  g1 = g1  g2 = g2  g3 = g3
  Guids = {g1, g2, g3}
  Indexers = {i1, i2}
  Order <- MCOrder
  Offers <- MCOffers
  Wanted = {g1, g2}
  Escapes = {i1}
  JobOrder <- MCJobs
  JobFlushFails = TRUE
  Workers = {w1, w2}
  Searchers = {s1}
  None = None
INVARIANTS OneGrabPerRow LockGuardsPending
 
