SPECIFICATION Spec
CONSTANTS
  Instance = {a1}
  Builds = 1
  MaxRecords = 4
  Graphs <- SmallGraphs
  VectorDim = 3
  HeaderSize = 8
  Align = 8
  ByteSpans = {1, 8, 64}
  None = None
PROPERTIES
  RefusedIsNotShipped
CHECK_DEADLOCK FALSE
