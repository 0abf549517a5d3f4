SPECIFICATION Spec
CONSTANTS
  Node = {n1, n2, n3, n4, n5}
  Distances = {0, 1, 2}
  None = None
INVARIANTS
  TypeOK
  HeapOrdered
PROPERTIES
  ImplementsQueue
  SiftsEnd
CHECK_DEADLOCK TRUE
