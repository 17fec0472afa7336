SPECIFICATION Spec
CONSTANTS
  Users = {u1, u2}
  Consumers = {c1, c2}
  None = None
  Stock = 2
  MaxDeliveries = 5
  OwnScanLimit = 1
  ClaimWindow = 1
  ClaimBatch = 1
  Backlog = 0
  MaxFaults = 1
  MaxReplays = 0
  MaxBackfills = 0
PROPERTY ForeignIsNotHidden
