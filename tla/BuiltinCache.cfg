\* Two threads, and a clock that is set back once.
CONSTANTS
  Threads = {t1, t2}
  Keys = {k1, k2}
  Values = {a, b}
  None = None
  Ttls <- ThreeTtls
  MaxTime = 3
  MaxBack = 1
SPECIFICATION Spec
SYMMETRY Perms
INVARIANTS
  TypeOK
  GoneStaysGone
PROPERTIES
  KeepsTheStore
\* Once closed, the cache is used no more.
CHECK_DEADLOCK FALSE
