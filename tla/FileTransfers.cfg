CONSTANTS
  Slots = {c1, c2}
  MaxSessions = 2
  MaxFileQueue = 2
  MaxReceived = 1
  Files = {f1}
  NoRequest = NoRequest
  Interrupts = TRUE
SPECIFICATION FairSpec
INVARIANTS
  TypeOK
  PermitsConserved
  RingConsistent
  NothingLost
PROPERTIES
  ImplementsFifo
  QueuedIsTransferred
  SendersReturn
  ShutdownCompletes
