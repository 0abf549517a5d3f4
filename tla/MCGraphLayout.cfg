SPECIFICATION Spec
CONSTANTS
  N = 4
  M = 2
  Built <- SmallGraphs
  None = None
INVARIANTS
  TypeOK
  FinalizeKeepsLayers
  NumbersAreDense
  NearerFirst
  SameGraphRenamed
CHECK_DEADLOCK TRUE
