\* Two threads or tasks, keys published and removed, and a cache that is cleared.
CONSTANTS
  Verifiers = {v1, v2}
  Kids = {k1}
  None = None
  Cooldown = 2
  Timeout = 1
  MaxAges = {0, 2}
  MaxTime = 4
  MaxCalls = 3
  MaxClears = 1
SPECIFICATION Spec
INVARIANTS
  TypeOK
  RemovedKeyStops
  RotationNoticed
PROPERTIES
  RefetchCoolsDown
  EveryVerificationEnds
\* Every verification the bounds allow may be over.
CHECK_DEADLOCK FALSE
