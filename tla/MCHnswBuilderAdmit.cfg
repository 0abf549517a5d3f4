SPECIFICATION Spec
CONSTANTS
  N = 4
  M = 1
  M0 = 2
  EfC = 3
  MarkMod = 3
  Frauds = {1, 2}
  RawLevels = {0}
  Point <- Plane
  Dist2 <- PlaneDistance
  Inputs <- Outlier
INVARIANTS
  NewNodeReachable
CHECK_DEADLOCK TRUE
