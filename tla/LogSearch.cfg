CONSTANTS
  Capacity = 2
  NumWorkers = 2
  NumLines = 4
  Matches <- PowersOfTwo
  Interrupts <- EveryThread
  SpawnFailures = TRUE
SPECIFICATION FairSpec
CHECK_DEADLOCK FALSE
INVARIANTS
  TypeOK
  RingHoldsLines
  NoLostWakeup
  MatchesConserved
  TotalComplete
PROPERTIES
  SearchEnds
