CONSTANTS
  MaxConns = 2
  MaxClients = 1
  MaxFds = 2
  MaxRooms = 1
  MaxUsersPerRoom = 2
  MaxCommands = 1
  RoomNames = {r1}
  Usernames = {u1, u2}
  Empty = Empty
  Commands = {}
  Departures = TRUE
  Interrupts = FALSE
  SpawnFailures = FALSE
SPECIFICATION Spec
PROPERTIES
  CleansOwnSession
