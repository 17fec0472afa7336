SPECIFICATION Spec
CONSTANTS
  Users = {u1, u2}
  Consumers = {c1, c2}
  None = None
  Stock = 1
  MaxDeliveries = 3
  OwnScanLimit = 1
  ClaimWindow = 2
  ClaimBatch = 1
  Backlog = 0
  MaxFaults = 1
  MaxReplays = 0
  MaxBackfills = 1
SYMMETRY Symmetry
INVARIANTS
  TypeOK
  RowsAreAccepted
  UnsettledIsProcessing
PROPERTY LifeRefined
