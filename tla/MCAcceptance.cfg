SPECIFICATION Spec
CONSTANTS
  Users = {u1, u2}
  Requests = {p1, p2}
  None = None
  Stock = 1
  Times = {0, 1, 2}
  Begin = 1
  End = 2
  DaySeconds = 2
  Radix = 4
  MaxIds = 2
  MaxFaults = 1
SYMMETRY Symmetry
INVARIANTS
  TypeOK
  UniqueIds
  OversoldOnlyByOpenRun
PROPERTY LifeRefined
