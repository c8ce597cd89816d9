\* Connections that break and fail, handlers that raise, events on both
\* namespaces, on threads and on an event loop.
CONSTANTS
  MaxEvents = 2
  MaxDrops = 1
  MaxCalls = 3
SPECIFICATION Spec
INVARIANTS
  TypeOK
  FreshWhenQuiet
  HeardOnce
  ListenerJoins
  ClosedStaysClosed
PROPERTIES
  LossAnnounced
\* The calls, events and connections the bounds allow may be over.
CHECK_DEADLOCK FALSE
