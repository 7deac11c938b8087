CONSTANTS
  Slots = {c1, c2}
  MaxSessions = 3
  MaxFileQueue = 1
  MaxReceived = 1
  Files = {f1}
  NoRequest = NoRequest
  Interrupts = FALSE
SPECIFICATION Spec
SYMMETRY EntrySymmetry
PROPERTIES
  DeliveredToAddressee
