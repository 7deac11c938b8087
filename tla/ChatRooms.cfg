CONSTANTS
  MaxConns = 2
  MaxClients = 2
  MaxFds = 2
  MaxRooms = 1
  MaxUsersPerRoom = 2
  MaxCommands = 4
  RoomNames = {r1, r2}
  Usernames = {u1, u2}
  Empty = Empty
  Commands = {"join", "leave", "broadcast", "whisper"}
  Departures = FALSE
  Interrupts = FALSE
  SpawnFailures = FALSE
SPECIFICATION FairSpec
INVARIANTS
  TypeOK
  MembershipAgrees
PROPERTIES
  ImplementsDirectory
  CommandCompletes
