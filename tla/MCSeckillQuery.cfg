SPECIFICATION SpecQ
CONSTANTS
  Users = {u1}
  Consumers = {c1, c2}
  None = None
  Stock = 2
  MaxDeliveries = 3
  OwnScanLimit = 1
  ClaimWindow = 2
  ClaimBatch = 2
  Backlog = 0
  MaxFaults = 0
  MaxReplays = 1
  MaxBackfills = 0
SYMMETRY Symmetry
INVARIANTS
  RedisLedger
  MissedIsSettled
  LockExcludes
PROPERTIES
  NeverTakenBack
  SaleRefined
