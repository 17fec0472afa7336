SPECIFICATION FairSpec
CONSTANTS
  Users = {u1, u2}
  Requests = {p1}
  Schedulers = {t1}
  None = None
  Stock = 2
  TimeoutBatch = 1
  OutboxBatch = 1
  MaxFaults = 1
PROPERTIES
  Closed
  Returned
