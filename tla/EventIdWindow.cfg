\* Three ids against two entries: an id can leave by age and by the limit.
CONSTANTS
  Ids = {e1, e2, e3}
  MaxEntries = 2
  Window = 2
  MaxTime = 6
  MaxDelivered = 5
SPECIFICATION Spec
SYMMETRY Perms
INVARIANTS
  TypeOK
  HoldsTheRecent
  NeverTwice
PROPERTIES
  KeepsThePromise
CHECK_DEADLOCK TRUE
