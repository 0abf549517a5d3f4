SPECIFICATION Spec
CONSTANTS
  N = 5
  QueryEf = 3
  K = 2
  GenMod = 3
  MaxDist = 2
  Graphs <- MCGraphs
INVARIANTS
  TypeOK
  WorstTracked
  KeepsNearest
  LocallyComplete
  ExactWhenSmall
  AnswersAreNearest
  NeverWorseThanEntry
  RecallIsHonest
PROPERTIES
  FreshStart
  QueryReturns
CHECK_DEADLOCK TRUE
