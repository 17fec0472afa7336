SPECIFICATION Spec
CONSTANTS
  Fans = {u1, u2}
  Readers = {u1}
  Requests = {p1, p2}
  Gets = {g1, g2}
  None = None
  Page = 2
  Backlog = 3
  EarlyFans = {u1}
  MaxOps = 2
  Times = {1, 6}
  MaxFaults = 1
SYMMETRY Symmetry
INVARIANTS
  TypeOK
  LikesDrift
  FollowedIsShared
  NeverSkips
  NeverRepeats
