SPECIFICATION FairSpec
CONSTANTS
  epub = epub  pdf = pdf  link = link  other = other
  b1 = b1  b2 = b2  i1 = i1  i2 = i2  c1 = c1  c2 = c2  n1 = n1  n2 = n2
  Books = {b1, b2}
  Releases = {epub, pdf, link, other}
  Indexers = {i1, i2}
  Clients = {c1}
  Names = {n1, n2}
  Facts <- MCFacts
  BookOf <- MCBookOf
  FileFormats <- MCFileFormats
  OnFeed <- MCOnFeed
  Results <- MCResults
  RowOrder <- MCRowOrder
  StartKinds = {"qbittorrent", "transmission", "sabnzbd", "nzbget"}
  EditKinds = {"deluge"}
  Priorities = {1, 2}
  MaxEdits = 1
  None = None
  NoId = NoId
  NoFormat = NoFormat
  Nothing = Nothing
CHECK_DEADLOCK FALSE
INVARIANTS SearchPicksBest
PROPERTIES LifecycleSpec OwnedNotRegrabbed GrabsEnd MissingIsServed
