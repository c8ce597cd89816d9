\* Two threads, one of which clears the cache while the other reads it.
CONSTANTS
  Verifiers = {v1, v2}
  Kids = {k1}
  None = None
  Cooldown = 2
  Timeout = 1
  MaxAges = {2}
  MaxTime = 1
  MaxCalls = 2
  MaxClears = 1
SPECIFICATION Spec
INVARIANTS
  OnlyDocumentedErrors
\* Every verification the bounds allow may be over.
CHECK_DEADLOCK FALSE
