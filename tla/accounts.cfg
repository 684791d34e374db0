SPECIFICATION FairSpec
CONSTANTS
  Names = {n1, n2}
  Subjects = {s1, s2}
  Requests = {r1, r2}
  MaxRenames = 1
  None = None
  Devices = {d1, d2}
  Positions = {0, 1}
  Places = {0, 1}
  Books = {b1, b2}
  NoRow = NoRow
INVARIANTS TypeOK
PROPERTIES LastAdminKept  EveryoneGetsIn ReportsSettle EditsCompose
