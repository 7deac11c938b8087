CONSTANTS
  MaxConns = 2
  MaxClients = 2
  MaxFds = 2
  MaxRooms = 1
  MaxUsersPerRoom = 2
  MaxCommands = 3
  RoomNames = {r1}
  Usernames = {u1, u2}
  Empty = Empty
  Commands = {"join", "broadcast", "exit"}
  Departures = FALSE
  Interrupts = FALSE
  SpawnFailures = FALSE
SPECIFICATION FairSpec
CHECK_DEADLOCK FALSE
PROPERTIES
  BroadcastCompletes
