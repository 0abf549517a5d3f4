SPECIFICATION Spec
CONSTANTS
  N = 2
  M = 1
  M0 = 2
  EfC = 2
  MarkMod = 3
  Frauds = {1}
  RawLevels = {0, 385}
  Point <- Line
  Dist2 <- SquaredDistance
  Inputs <- TwoRecords
INVARIANTS
  LevelsCapped
CHECK_DEADLOCK TRUE
