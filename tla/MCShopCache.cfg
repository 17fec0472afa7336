SPECIFICATION FairSpec
CONSTANTS
  Readers = {r1, r2}
  Slots = {s1}
  None = None
  Orphan = Orphan
  MaxVersion = 3
  MaxFaults = 2
INVARIANTS
  TypeOK
  SingleFlight
PROPERTIES
  NeverMissing
  Converged
  NeverOlder
