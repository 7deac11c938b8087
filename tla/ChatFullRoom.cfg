CONSTANTS
  MaxConns = 2
  MaxClients = 2
  MaxFds = 2
  MaxRooms = 1
  MaxUsersPerRoom = 1
  MaxCommands = 2
  RoomNames = {r1}
  Usernames = {u1, u2}
  Empty = Empty
  Commands = {"join"}
  Departures = FALSE
  Interrupts = FALSE
  SpawnFailures = FALSE
SPECIFICATION Spec
INVARIANTS
  RoomCapacity
