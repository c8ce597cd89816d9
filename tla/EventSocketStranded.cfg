\* Space cannot be reached when the socket connects again.
CONSTANTS
  MaxEvents = 1
  MaxDrops = 1
  MaxCalls = 2
SPECIFICATION Spec
INVARIANTS
  NeverStranded
\* The calls, events and connections the bounds allow may be over.
CHECK_DEADLOCK FALSE
