CONSTANTS
  Capacity = 1
  NumWorkers = 1
  NumLines = 3
  Matches <- PowersOfTwo
  Interrupts <- OnlyMain
  SpawnFailures = FALSE
SPECIFICATION FairSpec
CHECK_DEADLOCK FALSE
PROPERTIES
  SigintShutsDown
