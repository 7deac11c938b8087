CONSTANTS
  MaxClients = 2
  MaxBatch = 1
  MaxStarts = 2
  Named = {0, 1}
  Credits = {1, 2}
  SigintAt <- OutsideLog
  CrashAt <- OutsideLog
  Sats = {s1, s2}
  Engs = {e1, e2}
  Ranks = {1, 2}
  Numbers = {1, 2}
  Texts <- PairTexts
  MaxCycles = 1000
  Procs = {p1, p2}
  Dir = dir
  File = file
  MaxCommands = 3
  SIDs = {1, 2}
  Codes = {c1, c2}
  MaxStudents = 3
  MaxCourses = 2
  MaxRegistered = 3
  GSIZE = 2
  RobotIds = {1, 2, 3, 4}
  Nobot = 0
  TypeOf <- FourTypes
  HitpointsOf <- SmallHitpoints
  DamagesOf <- SmallDamages
  FileNames = {f1}
  MaxReceived = 1
  MaxInbox = 2
  MaxCommandsSent = 1
  Configs <- TwoConfigs
  MaxEntries = 7
  Keys = {1, 2, 3}
  Values = {1, 2}
  HashOf <- ThreeHashes
  CAPACITY = 3
  MaxTable = 5
  ConfigFiles <- TwoConfigFiles
  MaxTasks = 6
SPECIFICATION AllSpec
INVARIANTS
  TypesOK
  
  
  
  SchedulesNext
  
  AppendsWhole
  
  RobotsCounted
  DevicesAccounted
  LookupsRight
  ExecutedInOrder
PROPERTIES
  ImplementsLedger
  
  ChildrenEnd
  KernelMemoryKept
  
CHECK_DEADLOCK FALSE
