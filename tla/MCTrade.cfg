SPECIFICATION Spec
CONSTANTS
  Users = {u1, u2}
  Requests = {p1, p2}
  Schedulers = {t1, t2}
  None = None
  Stock = 1
  TimeoutBatch = 2
  OutboxBatch = 2
  MaxFaults = 2
SYMMETRY Symmetry
INVARIANTS
  TypeOK
  StockBalance
  AnswersTrue
  NoneForgotten
PROPERTY LifeRefined
