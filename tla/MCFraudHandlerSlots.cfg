SPECIFICATION Spec
CONSTANTS
  Conn = {c1, c2, c3}
  WorkBuf = {b1, b2, b3}
  Request <- OneRequest
  Node = {0, 1, 2}
  K = 2
  NearestTo <- Nearest
  Fraud <- Frauds2
  Procs = 2
  None = None
INVARIANTS
  OneSlotPerProc
CHECK_DEADLOCK TRUE
