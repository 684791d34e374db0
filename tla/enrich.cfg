SPECIFICATION FairSpec
CONSTANTS
  w1 = w1
  NBooks = 3
  Works = {w1}
  WorkOf <- MCWorkOf
  GoogleHas = {1}
  Mirrored = {2}
  Slugs <- MCSlugs
  Shelved <- MCShelved
  Requested = {2}
  MaxOld = 2
  MaxEdits = 1
  None = None
INVARIANTS TypeOK
PROPERTIES UserTextKept OutageHarmless 
