CONSTANTS
  MaxConns = 2
  MaxClients = 2
  MaxFds = 2
  MaxRooms = 1
  MaxUsersPerRoom = 2
  MaxCommands = 2
  RoomNames = {r1}
  Usernames = {u1, u2}
  Empty = Empty
  Commands = {"join", "exit"}
  Departures = TRUE
  Interrupts = TRUE
  SpawnFailures = TRUE
SPECIFICATION FairSpec
PROPERTIES
  LostHandlersEnd
  ShutdownCompletes
