\* Two writes, with keys of their own or with one key of the caller, one of them
\* perhaps a revert_consumption, and a restart of the process.
CONSTANTS
  Calls = {c1, c2}
  CallerKeys = {k1}
  NoKey = NoKey
  Malformed = Malformed
  Retries = 1
  MaxCrashes = 1
  MaxUpgrades = 0
SPECIFICATION KeyedSpec
SYMMETRY Perms
INVARIANTS
  TypeOK
  AtMostOnce
  RefusedMeansNothing
  ConfirmedBeforeSending
  NothingWritten
PROPERTIES
  RepeatsOnlyWhenHonoured
  KeepsThePromise
\* Every call may be over.
CHECK_DEADLOCK FALSE
