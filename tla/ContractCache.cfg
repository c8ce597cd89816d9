\* Two threads about one user, twice, and one task of an event loop about two.
CONSTANTS
  u1 = u1  u2 = u2  u3 = u3
  f1 = f1  f2 = f2  f3 = f3
  t1 = t1  t2 = t2  t3 = t3
  Settings <- ThreadsAndLoop
  Bounds <- SmallBounds
  h1 = h1  h2 = h2  h3 = h3
  None = None
  MaxUsage = 1
SPECIFICATION Spec
SYMMETRY Perms
INVARIANTS
  TypeOK
  FreshAtRest
  RereadIsRecent
  NothingFromBefore
  ReadYourWrites
\* Every change the bounds allow may have happened.
CHECK_DEADLOCK FALSE
