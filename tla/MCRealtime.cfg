\* One browser that connects three times, buffers that overflow, one event that
\* the subscriber filter rejects.
SPECIFICATION FairSpec
CONSTANTS
  c1 = c1
  Clients = {c1}
  MaxEvents = 5
  MaxConns = 3
  BufferSize = 2
  Match = {1, 2, 3, 5}
  HasStore = TRUE
INVARIANTS
  AtMostOncePerConnection
  NoGap
PROPERTIES
  OrderPreserved
  EventuallyDelivered
  ShutdownCompletes
  ImplementsContract
CHECK_DEADLOCK FALSE
