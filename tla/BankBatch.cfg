CONSTANTS
  MaxClients = 2
  MaxBatch = 2
  MaxStarts = 1
  Named = {0}
  Credits = {1}
  SigintAt = {}
  CrashAt = {}
SPECIFICATION Spec
INVARIANTS
  ServesOwnAccount
