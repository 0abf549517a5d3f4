SPECIFICATION Spec
CONSTANTS
  Instance = {i1, i2}
  Conn = {c1, c2, c3}
  Requests = 3
  Keepalive = 1
  Concurrency = 1
  Busy = Busy
  None = None
INVARIANTS
  TypeOK
  AtMostOnce
PROPERTIES
  ImplementsDelivery
CHECK_DEADLOCK FALSE
