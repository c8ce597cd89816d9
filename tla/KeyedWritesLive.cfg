\* One call of every kind, with every retry it may make.
CONSTANTS
  Calls = {c1}
  CallerKeys = {k1}
  NoKey = NoKey
  Malformed = Malformed
  Retries = 2
  MaxCrashes = 1
  MaxUpgrades = 1
SPECIFICATION Spec
PROPERTIES
  EveryCallReturns
\* Every call may be over.
CHECK_DEADLOCK FALSE
