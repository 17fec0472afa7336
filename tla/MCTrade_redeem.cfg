SPECIFICATION Spec
CONSTANTS
  Users = {u1}
  Requests = {p1, p2}
  Schedulers = {t1}
  None = None
  Stock = 1
  TimeoutBatch = 1
  OutboxBatch = 1
  MaxFaults = 0
PROPERTY RedeemIsIdempotent
