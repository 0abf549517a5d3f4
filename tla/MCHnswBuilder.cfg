SPECIFICATION Spec
CONSTANTS
  N = 4
  M = 1
  M0 = 2
  EfC = 2
  MarkMod = 3
  Frauds = {1, 2}
  RawLevels = {0, 1, 2}
  Point <- Line
  Dist2 <- SquaredDistance
  Inputs <- FourRecords
INVARIANTS
  TypeOK
  LayersMatchLevels
  EntryOnTop
  LinksAreLocal
  NoDeadEnd
  SearchKeepsNearest
PROPERTIES
  NearestLinkKept
  BuildCompletes
CHECK_DEADLOCK TRUE
