SPECIFICATION Spec
CONSTANTS
  Conn = {c1, c2}
  WorkBuf = {b1, b2}
  Request <- Requests
  Node = {0, 1, 2}
  K = 2
  NearestTo <- Nearest
  Fraud <- Frauds2
  Procs = 2
  None = None
INVARIANTS
  TypeOK
  BuffersExclusive
  StringsAreLive
PROPERTIES
  ImplementsService
CHECK_DEADLOCK TRUE
