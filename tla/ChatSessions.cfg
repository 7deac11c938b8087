CONSTANTS
  MaxConns = 3
  MaxClients = 2
  MaxFds = 2
  MaxRooms = 1
  MaxUsersPerRoom = 3
  MaxCommands = 2
  RoomNames = {r1}
  Usernames = {u1, u2}
  Empty = Empty
  Commands = {"join", "exit"}
  Departures = TRUE
  Interrupts = FALSE
  SpawnFailures = TRUE
SPECIFICATION Spec
SYMMETRY NameSymmetry
INVARIANTS
  UniqueUsernames
  RoomsWellFormed
  NoSocketLeak
