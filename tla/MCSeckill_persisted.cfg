SPECIFICATION Spec
CONSTANTS
  Users = {u1}
  Consumers = {c1, c2, c3}
  None = None
  Stock = 1
  MaxDeliveries = 3
  OwnScanLimit = 1
  ClaimWindow = 2
  ClaimBatch = 1
  Backlog = 0
  MaxFaults = 0
  MaxReplays = 0
  MaxBackfills = 0
PROPERTY PersistedIsSuccess
