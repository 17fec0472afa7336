SPECIFICATION FairSpec
CONSTANTS
  Users = {u1}
  Consumers = {c1, c2}
  None = None
  Stock = 2
  MaxDeliveries = 2
  OwnScanLimit = 2
  ClaimWindow = 3
  ClaimBatch = 1
  Backlog = 1
  MaxFaults = 1
  MaxReplays = 1
  MaxBackfills = 0
INVARIANTS
  DbLedger
  NoEntryLost
  NoPoisonByRetry
PROPERTY Drained
