\* One consumption while Space is upgraded.
CONSTANTS
  Calls = {c1}
  CallerKeys = {k1}
  NoKey = NoKey
  Malformed = Malformed
  Retries = 1
  MaxCrashes = 0
  MaxUpgrades = 1
SPECIFICATION UpgradeSpec
INVARIANTS
  AtMostOnce
\* Every call may be over.
CHECK_DEADLOCK FALSE
