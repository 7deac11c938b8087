----------------------------- MODULE ChatServer -----------------------------
(***************************************************************************)
(* Sessions, rooms and locks of the chat server                            *)
(* (System Programming/Final/Final Project/server/server.c).               *)
(*                                                                         *)
(* Thread Main runs main(): it accepts connections, puts each one in the   *)
(* first free entry of clients[] and starts a handler thread for it.       *)
(* Thread k \in Conns runs client_handler() for the k-th connection.       *)
(* Every step of a thread is what the code does between two operations on  *)
(* clients_mutex or rooms_mutex: a critical section that calls nothing     *)
(* that locks is one step; one that locks again inside (broadcast_to_room, *)
(* cleanup_client) is split there, with the mutex held in between.  Reads  *)
(* of shared state without a lock are steps of their own.                  *)
(*                                                                         *)
(* Left out: log_event (it takes only log_mutex, last in the lock order)   *)
(* and the bytes sent to clients, which change no state of the server.     *)
(* File transfers are the subject of module FileQueue.                     *)
(***************************************************************************)
EXTENDS Integers, FiniteSets

CONSTANTS
  MaxConns,          (* bound: connections the network ever makes            *)
  MaxClients,        (* MAX_CLIENTS, entries of clients[]                    *)
  MaxFds,            (* bound: descriptors the process can have open         *)
  MaxRooms,          (* MAX_ROOMS                                            *)
  MaxUsersPerRoom,   (* MAX_USERS_PER_ROOM                                   *)
  Usernames,         (* the valid user names clients choose from             *)
  RoomNames,         (* the valid room names clients choose from             *)
  Empty,             (* the empty string, as a user or a room name           *)
  Commands,          (* the commands clients send                            *)
  Departures,        (* whether connections may be lost                      *)
  Interrupts,        (* whether SIGINT may arrive                            *)
  SpawnFailures,     (* whether pthread_create may fail                      *)
  MaxCommands        (* bound: commands received on one connection           *)

ASSUME ChatBounds ==
  /\ MaxConns \in Nat \ {0} /\ MaxClients \in Nat \ {0} /\ MaxFds \in Nat \ {0}
  /\ MaxRooms \in Nat \ {0} /\ MaxUsersPerRoom \in Nat \ {0}
  /\ MaxCommands \in Nat
ASSUME ChatNames ==
  /\ IsFiniteSet(RoomNames)
  /\ Empty \notin Usernames /\ Empty \notin RoomNames
  /\ Commands \subseteq {"join", "leave", "broadcast", "whisper", "exit"}
  /\ Departures \in BOOLEAN /\ Interrupts \in BOOLEAN /\ SpawnFailures \in BOOLEAN

Main    == 0
Conns   == 1 .. MaxConns
Threads == {Main} \cup Conns
Slots   == 1 .. MaxClients
Fds     == 1 .. MaxFds
NoSlot  == 0
NoConn  == 0            (* a closed descriptor                            *)
NoFd    == 0
Free    == -1           (* an unlocked mutex                              *)

VARIABLES
  clients,          (* clients[]; thread is the owner, thread_id             *)
  rooms,            (* rooms[], by name; users counts the entries of users[] *)
  fds,              (* the connection behind each descriptor                 *)
  clients_mutex, rooms_mutex,   (* the thread that holds it, or Free         *)
  server_running,
  accepted,         (* connections made so far                               *)
  newfd,            (* main's client_socket                                  *)
  pc,               (* where each thread is                                  *)
  slot,             (* its local client pointer                              *)
  peer,             (* the connection its recv() reads from                  *)
  name,             (* the name in its command buffer                        *)
  room_name,        (* leave_room's copy of current_room                     *)
  leaveRet, cleanRet,           (* where leave_room, cleanup_client return   *)
  received          (* commands received so far                              *)

shared == <<clients, rooms, fds>>
locks  == <<clients_mutex, rooms_mutex>>
server == <<server_running, accepted, newfd>>
locals == <<slot, peer, name, room_name, leaveRet, cleanRet, received>>
vars   == <<shared, locks, server, pc, locals>>
-----------------------------------------------------------------------------
Labels == { "none", "accept", "alloc", "spawn", "shutdown", "exited",
            "login", "loginrecv", "loginlock", "loop", "recv",
            "joinfull", "joinread", "joinadd", "leave", "leavelock",
            "bcast", "bcastfind", "bcastsend", "whisper",
            "cleanup", "cleanlock", "cleanclose", "done" }

Client == [active: BOOLEAN, sock: Fds \cup {NoFd}, user: Usernames \cup {Empty},
           room: RoomNames \cup {Empty}, thread: Conns \cup {NoConn}]
Room   == [active: BOOLEAN, users: [Slots -> Nat]]

TypeOK ==
  /\ clients \in [Slots -> Client]
  /\ rooms \in [RoomNames -> Room]
  /\ fds \in [Fds -> Conns \cup {NoConn}]
  /\ clients_mutex \in Threads \cup {Free}
  /\ rooms_mutex \in Threads \cup {Free}
  /\ server_running \in BOOLEAN
  /\ accepted \in 0 .. MaxConns
  /\ newfd \in Fds \cup {NoFd}
  /\ pc \in [Threads -> Labels]
  /\ slot \in [Threads -> Slots \cup {NoSlot}]
  /\ peer \in [Threads -> Conns \cup {NoConn}]
  /\ name \in [Threads -> Usernames \cup RoomNames \cup {Empty}]
  /\ room_name \in [Threads -> RoomNames \cup {Empty}]
  /\ leaveRet \in [Threads -> {"loop", "joinadd", "cleanclose"}]
  /\ cleanRet \in [Threads -> {"cleanup", "done", "accept"}]
  /\ received \in [Conns -> 0 .. MaxCommands]

NoClient == [active |-> FALSE, sock |-> NoFd, user |-> Empty, room |-> Empty,
             thread |-> NoConn]
NoRoom   == [active |-> FALSE, users |-> [s \in Slots |-> 0]]

Init ==
  /\ clients = [s \in Slots |-> NoClient]
  /\ rooms = [n \in RoomNames |-> NoRoom]
  /\ fds = [f \in Fds |-> NoConn]
  /\ clients_mutex = Free /\ rooms_mutex = Free
  /\ server_running = TRUE /\ accepted = 0 /\ newfd = NoFd
  /\ pc = [t \in Threads |-> IF t = Main THEN "accept" ELSE "none"]
  /\ slot = [t \in Threads |-> NoSlot]
  /\ peer = [t \in Threads |-> NoConn]
  /\ name = [t \in Threads |-> Empty]
  /\ room_name = [t \in Threads |-> Empty]
  /\ leaveRet = [t \in Threads |-> "loop"]
  /\ cleanRet = [t \in Threads |-> "done"]
  /\ received = [k \in Conns |-> 0]
-----------------------------------------------------------------------------
(* Helpers.  A thread whose process has exited takes no step. *)
At(t, l)   == pc[t] = l /\ pc[Main] # "exited"
Goto(t, l) == pc' = [pc EXCEPT ![t] = l]
Mine(t)    == clients[slot[t]]

(* A critical section that makes no call that locks: the mutex is free when *)
(* it starts and free again when it ends.                                   *)
LockClients == clients_mutex = Free /\ UNCHANGED locks
LockRooms   == rooms_mutex = Free /\ UNCHANGED locks

(* The number of entries of a room's users[], user_count. *)
UserCount(n) == Cardinality({e \in Slots \X (1 .. MaxConns) : e[2] <= rooms[n].users[e[1]]})

(* The users of room n with one more entry for slot s. *)
With(n, s) == [rooms[n].users EXCEPT ![s] = @ + 1]
(* The lowest free descriptor, which accept() returns; the first free slot. *)
LowestFd(f)    == fds[f] = NoConn /\ \A g \in Fds : g < f => fds[g] # NoConn
FirstFree(s)   == ~clients[s].active /\ \A r \in Slots : r < s => clients[r].active
-----------------------------------------------------------------------------
(* Faulty variants of the operations below, one for each property that the   *)
(* passing runs check; none of them is part of the specification.            *)

(* RejectConnection that does not close the rejected socket. *)
RejectUnclosed ==
  /\ At(Main, "alloc")
  /\ LockClients
  /\ \A s \in Slots : clients[s].active
  /\ newfd' = NoFd
  /\ Goto(Main, "accept")
  /\ UNCHANGED <<shared, server_running, accepted, locals>>

(* CheckUsername that looks only at the entries before its own. *)
CheckEarlierEntries(t) ==
  /\ At(t, "loginlock")
  /\ LockClients
  /\ IF \E s \in Slots : s < slot[t] /\ clients[s].active /\ clients[s].user = name[t]
     THEN Goto(t, "login") /\ UNCHANGED clients
     ELSE /\ clients' = [clients EXCEPT ![slot[t]].user = name[t]]
          /\ Goto(t, "loop")
  /\ UNCHANGED <<rooms, fds, server, locals>>

(* CheckUsername that returns with clients_mutex held when the name is free. *)
CheckKeepsLock(t) ==
  /\ At(t, "loginlock")
  /\ clients_mutex = Free
  /\ IF \E s \in Slots : clients[s].active /\ clients[s].user = name[t]
     THEN Goto(t, "login") /\ UNCHANGED <<clients, clients_mutex>>
     ELSE /\ clients' = [clients EXCEPT ![slot[t]].user = name[t]]
          /\ clients_mutex' = t
          /\ Goto(t, "loop")
  /\ UNCHANGED <<rooms, fds, rooms_mutex, server, locals>>

(* LeaveRoom that forgets current_room only when others stay in the room. *)
LeaveRoomStale(t) ==
  /\ At(t, "leavelock")
  /\ LockRooms
  /\ LET left == [rooms[room_name[t]].users EXCEPT ![slot[t]] = 0]
         others == \E s \in Slots : left[s] > 0
     IN  /\ rooms' = [rooms EXCEPT ![room_name[t]] = [active |-> others, users |-> left]]
         /\ clients' = IF others THEN [clients EXCEPT ![slot[t]].room = Empty] ELSE clients
  /\ Goto(t, leaveRet[t])
  /\ UNCHANGED <<fds, server, locals>>

(* JoinAdd that creates rooms beyond MAX_ROOMS. *)
JoinUnbounded(t) ==
  /\ At(t, "joinadd")
  /\ LockRooms
  /\ rooms' = [rooms EXCEPT ![name[t]] =
                 [active |-> TRUE, users |-> With(name[t], slot[t])]]
  /\ clients' = [clients EXCEPT ![slot[t]].room = name[t]]
  /\ Goto(t, "loop")
  /\ UNCHANGED <<fds, server, locals>>

(* Without, with user_count lowered once too often. *)
WithoutTwice(n, s) == [rooms[n].users EXCEPT ![s] = @ - 2]

(* LeaveRoom that does not free a room it leaves empty. *)
LeaveRoomOpen(t) ==
  /\ At(t, "leavelock")
  /\ LockRooms
  /\ rooms' = IF room_name[t] = Empty THEN rooms
              ELSE [rooms EXCEPT ![room_name[t]].users[slot[t]] = 0]
  /\ clients' = [clients EXCEPT ![slot[t]].room = Empty]
  /\ Goto(t, leaveRet[t])
  /\ UNCHANGED <<fds, server, locals>>

(* BroadcastSend that does not release rooms_mutex. *)
BroadcastKeepsLock(t) ==
  /\ At(t, "bcastsend")
  /\ Goto(t, "loop")
  /\ UNCHANGED <<shared, locks, server, locals>>

(* CleanClose that does not release clients_mutex. *)
CleanKeepsLock(t) ==
  /\ At(t, "cleanclose")
  /\ fds' = [fds EXCEPT ![Mine(t).sock] = NoConn]
  /\ clients' = [clients EXCEPT ![slot[t]] =
                   [@ EXCEPT !.active = FALSE, !.user = Empty, !.room = Empty]]
  /\ Goto(t, cleanRet[t])
  /\ cleanRet' = [cleanRet EXCEPT ![t] = "done"]
  /\ UNCHANGED <<rooms, locks, server, slot, peer, name, room_name, leaveRet,
                 received>>
-----------------------------------------------------------------------------
(* The thread that accepts connections. *)

(* accept() returns a descriptor for the next connection. *)
Accept ==
  /\ At(Main, "accept") /\ server_running
  /\ accepted < MaxConns
  /\ \E f \in Fds : /\ LowestFd(f)
                    /\ fds' = [fds EXCEPT ![f] = accepted + 1]
                    /\ newfd' = f
  /\ accepted' = accepted + 1
  /\ Goto(Main, "alloc")
  /\ UNCHANGED <<clients, rooms, locks, server_running, locals>>

(* No entry of clients[] is free: SERVER_FULL, the connection is closed. *)
RejectConnection ==
  /\ At(Main, "alloc")
  /\ LockClients
  /\ \A s \in Slots : clients[s].active
  /\ fds' = [fds EXCEPT ![newfd] = NoConn]
  /\ newfd' = NoFd
  /\ Goto(Main, "accept")
  /\ UNCHANGED <<clients, rooms, server_running, accepted, locals>>

(* The first free entry becomes the new client's. *)
Register ==
  /\ At(Main, "alloc")
  /\ LockClients
  /\ \E s \in Slots :
       /\ FirstFree(s)
       /\ clients' = [clients EXCEPT ![s] =
                        [@ EXCEPT !.active = TRUE, !.sock = newfd, !.user = Empty,
                                  !.room = Empty, !.thread = accepted]]
       /\ slot' = [slot EXCEPT ![Main] = s]
  /\ newfd' = NoFd
  /\ Goto(Main, "spawn")
  /\ UNCHANGED <<rooms, fds, server_running, accepted, peer, name, room_name,
                 leaveRet, cleanRet, received>>

(* pthread_create starts the handler of the entry just registered. *)
StartHandler ==
  /\ At(Main, "spawn")
  /\ pc' = [pc EXCEPT ![Main] = "accept", ![accepted] = "login"]
  /\ slot' = [slot EXCEPT ![Main] = NoSlot, ![accepted] = slot[Main]]
  /\ UNCHANGED <<shared, locks, server, peer, name, room_name, leaveRet,
                 cleanRet, received>>

(* pthread_create fails: main itself cleans the entry up. *)
SpawnFails ==
  /\ SpawnFailures
  /\ At(Main, "spawn")
  /\ cleanRet' = [cleanRet EXCEPT ![Main] = "accept"]
  /\ Goto(Main, "cleanup")
  /\ UNCHANGED <<shared, locks, server, slot, peer, name, room_name,
                 leaveRet, received>>

(* SIGINT, at any moment: server_running is cleared and accept() fails. *)
HandleSigint ==
  /\ Interrupts /\ server_running
  /\ pc[Main] # "exited"
  /\ server_running' = FALSE
  /\ UNCHANGED <<shared, locks, accepted, newfd, pc, locals>>

(* main leaves its loop: every active client is told, closed and marked     *)
(* inactive under clients_mutex.                                            *)
ShutdownServer ==
  /\ At(Main, "accept") /\ ~server_running
  /\ LockClients
  /\ clients' = [s \in Slots |-> [clients[s] EXCEPT !.active = FALSE]]
  /\ fds' = [f \in Fds |-> IF \E s \in Slots : clients[s].active /\ clients[s].sock = f
                           THEN NoConn ELSE fds[f]]
  /\ Goto(Main, "shutdown")
  /\ UNCHANGED <<rooms, server, locals>>

(* main returns and the process exits with every thread that still runs. *)
ProcessExit ==
  /\ At(Main, "shutdown")
  /\ Goto(Main, "exited")
  /\ UNCHANGED <<shared, locks, server, locals>>
-----------------------------------------------------------------------------
(* The handler: login. *)

(* The login loop calls recv() on the entry's socket while the server runs. *)
AwaitUsername(t) ==
  /\ At(t, "login")
  /\ IF server_running
     THEN /\ peer' = [peer EXCEPT ![t] = fds[Mine(t).sock]]
          /\ Goto(t, "loginrecv")
          /\ UNCHANGED cleanRet
     ELSE /\ cleanRet' = [cleanRet EXCEPT ![t] = "done"]
          /\ Goto(t, "cleanup")
          /\ UNCHANGED peer
  /\ UNCHANGED <<shared, locks, server, slot, name, room_name, leaveRet,
                 received>>

(* A user name arrives (an invalid one only repeats the loop). *)
ReceiveUsername(t, u) ==
  /\ At(t, "loginrecv")
  /\ peer[t] # NoConn
  /\ received[t] < MaxCommands
  /\ received' = [received EXCEPT ![t] = @ + 1]
  /\ name' = [name EXCEPT ![t] = u]
  /\ Goto(t, "loginlock")
  /\ UNCHANGED <<shared, locks, server, slot, peer, room_name, leaveRet,
                 cleanRet>>

(* recv() fails during login: one cleanup, and the thread returns. *)
LoginLost(t) ==
  /\ At(t, "loginrecv")
  /\ Departures \/ peer[t] = NoConn
  /\ cleanRet' = [cleanRet EXCEPT ![t] = "done"]
  /\ Goto(t, "cleanup")
  /\ UNCHANGED <<shared, locks, server, slot, peer, name, room_name,
                 leaveRet, received>>

(* The name is looked up among the active entries and taken in one section. *)
CheckUsername(t) ==
  /\ At(t, "loginlock")
  /\ LockClients
  /\ IF \E s \in Slots : clients[s].active /\ clients[s].user = name[t]
     THEN Goto(t, "login") /\ UNCHANGED clients
     ELSE /\ clients' = [clients EXCEPT ![slot[t]].user = name[t]]
          /\ Goto(t, "loop")
  /\ UNCHANGED <<rooms, fds, server, locals>>
-----------------------------------------------------------------------------
(* The handler: the command loop. *)

(* The loop test, and the call of recv() on the entry's socket. *)
AwaitCommand(t) ==
  /\ At(t, "loop")
  /\ IF server_running /\ Mine(t).active
     THEN /\ peer' = [peer EXCEPT ![t] = fds[Mine(t).sock]]
          /\ Goto(t, "recv")
          /\ UNCHANGED cleanRet
     ELSE /\ cleanRet' = [cleanRet EXCEPT ![t] = "done"]
          /\ Goto(t, "cleanup")
          /\ UNCHANGED peer
  /\ UNCHANGED <<shared, locks, server, slot, name, room_name, leaveRet,
                 received>>

(* recv() fails: a first cleanup in the loop, a second one after it. *)
ConnectionLost(t) ==
  /\ At(t, "recv")
  /\ Departures \/ peer[t] = NoConn
  /\ cleanRet' = [cleanRet EXCEPT ![t] = "cleanup"]
  /\ Goto(t, "cleanup")
  /\ UNCHANGED <<shared, locks, server, slot, peer, name, room_name,
                 leaveRet, received>>

(* A command c is received. *)
Receive(t, c) ==
  /\ At(t, "recv")
  /\ c \in Commands
  /\ peer[t] # NoConn
  /\ received[t] < MaxCommands
  /\ received' = [received EXCEPT ![t] = @ + 1]
  /\ UNCHANGED <<rooms, clients, locks, server, slot, peer, room_name>>

(* /join n: rejected at once when n is the current room. *)
Join(t, n) ==
  /\ Receive(t, "join")
  /\ name' = [name EXCEPT ![t] = n]
  /\ Goto(t, IF Mine(t).room = n THEN "loop" ELSE "joinfull")
  /\ UNCHANGED <<fds, leaveRet, cleanRet>>

(* /leave: rejected when the client is in no room. *)
Leave(t) ==
  /\ Receive(t, "leave")
  /\ leaveRet' = [leaveRet EXCEPT ![t] = "loop"]
  /\ Goto(t, IF Mine(t).room = Empty THEN "loop" ELSE "leave")
  /\ UNCHANGED <<fds, name, cleanRet>>

(* /broadcast: rejected when the client is in no room. *)
Broadcast(t) ==
  /\ Receive(t, "broadcast")
  /\ Goto(t, IF Mine(t).room = Empty THEN "loop" ELSE "bcast")
  /\ UNCHANGED <<fds, name, leaveRet, cleanRet>>

(* /whisper u: rejected when u is the client's own name. *)
Whisper(t, u) ==
  /\ Receive(t, "whisper")
  /\ name' = [name EXCEPT ![t] = u]
  /\ Goto(t, IF Mine(t).user = u THEN "loop" ELSE "whisper")
  /\ UNCHANGED <<fds, leaveRet, cleanRet>>

(* /exit: the socket is closed here, then the loop is left for the cleanup. *)
Exit(t) ==
  /\ Receive(t, "exit")
  /\ fds' = [fds EXCEPT ![Mine(t).sock] = NoConn]
  /\ cleanRet' = [cleanRet EXCEPT ![t] = "done"]
  /\ Goto(t, "cleanup")
  /\ UNCHANGED <<name, leaveRet>>
-----------------------------------------------------------------------------
(* The handler: joining and leaving. *)

(* The full-room test has a critical section of its own. *)
JoinFull(t) ==
  /\ At(t, "joinfull")
  /\ LockRooms
  /\ Goto(t, IF rooms[name[t]].active /\ UserCount(name[t]) >= MaxUsersPerRoom
             THEN "loop" ELSE "joinread")
  /\ UNCHANGED <<shared, server, locals>>

(* join_room first leaves the room the client is in. *)
JoinRead(t) ==
  /\ At(t, "joinread")
  /\ LockClients
  /\ leaveRet' = [leaveRet EXCEPT ![t] = "joinadd"]
  /\ Goto(t, IF Mine(t).room = Empty THEN "joinadd" ELSE "leave")
  /\ UNCHANGED <<shared, server, slot, peer, name, room_name, cleanRet,
                 received>>

(* No such room and no free entry in rooms[]: INVALID_ROOM. *)
JoinNoRoom(t) ==
  /\ At(t, "joinadd")
  /\ LockRooms
  /\ ~rooms[name[t]].active
  /\ Cardinality({n \in RoomNames : rooms[n].active}) >= MaxRooms
  /\ Goto(t, "loop")
  /\ UNCHANGED <<shared, server, locals>>

(* The room is found or created, and the client becomes one of its users. *)
JoinAdd(t) ==
  /\ At(t, "joinadd")
  /\ LockRooms
  /\ \/ rooms[name[t]].active
     \/ Cardinality({n \in RoomNames : rooms[n].active}) < MaxRooms
  /\ rooms' = [rooms EXCEPT ![name[t]] =
                 [active |-> TRUE, users |-> With(name[t], slot[t])]]
  /\ clients' = [clients EXCEPT ![slot[t]].room = name[t]]
  /\ Goto(t, "loop")
  /\ UNCHANGED <<fds, server, locals>>

(* leave_room copies current_room before it takes rooms_mutex. *)
LeaveRead(t) ==
  /\ At(t, "leave")
  /\ room_name' = [room_name EXCEPT ![t] = Mine(t).room]
  /\ Goto(t, "leavelock")
  /\ UNCHANGED <<shared, locks, server, slot, peer, name, leaveRet,
                 cleanRet, received>>

(* The users of room n once every entry of slot s is gone. *)
Without(n, s) == [rooms[n].users EXCEPT ![s] = 0]

(* All entries of the client are removed; a room left empty is freed. *)
LeaveRoom(t) ==
  /\ At(t, "leavelock")
  /\ LockRooms
  /\ LET n == room_name[t]
     IN  rooms' = IF n = Empty \/ ~rooms[n].active THEN rooms
                  ELSE [rooms EXCEPT ![n] =
                          [active |-> \E s \in Slots : Without(n, slot[t])[s] > 0,
                           users |-> Without(n, slot[t])]]
  /\ clients' = [clients EXCEPT ![slot[t]].room = Empty]
  /\ Goto(t, leaveRet[t])
  /\ UNCHANGED <<fds, server, locals>>
-----------------------------------------------------------------------------
(* The handler: messages. *)

(* broadcast_to_room holds rooms_mutex from here to BroadcastSend.  It looks *)
(* for the room by the entry's current_room, of which it has a pointer.      *)
BroadcastLock(t) ==
  /\ At(t, "bcast")
  /\ rooms_mutex = Free
  /\ IF Mine(t).room # Empty /\ rooms[Mine(t).room].active
     THEN rooms_mutex' = t /\ Goto(t, "bcastfind")
     ELSE UNCHANGED rooms_mutex /\ Goto(t, "loop")
  /\ UNCHANGED <<shared, clients_mutex, server, locals>>

(* find_client_by_socket takes clients_mutex while rooms_mutex is held. *)
BroadcastFind(t) ==
  /\ At(t, "bcastfind")
  /\ LockClients
  /\ Goto(t, "bcastsend")
  /\ UNCHANGED <<shared, server, locals>>

(* The message is sent to the other users; rooms_mutex is released. *)
BroadcastSend(t) ==
  /\ At(t, "bcastsend")
  /\ rooms_mutex' = Free
  /\ Goto(t, "loop")
  /\ UNCHANGED <<shared, clients_mutex, server, locals>>

(* find_client_by_username; the whisper is sent after the mutex is released. *)
WhisperFind(t) ==
  /\ At(t, "whisper")
  /\ LockClients
  /\ Goto(t, "loop")
  /\ UNCHANGED <<shared, server, locals>>
-----------------------------------------------------------------------------
(* cleanup_client, run by a handler or by main. *)

(* Where a cleanup returns to: after the loop's one, the final one. *)
AfterClean(t) ==
  /\ Goto(t, cleanRet[t])
  /\ cleanRet' = [cleanRet EXCEPT ![t] = "done"]

(* The test of active is made without a lock. *)
CleanCheck(t) ==
  /\ At(t, "cleanup")
  /\ IF Mine(t).active
     THEN Goto(t, "cleanlock") /\ UNCHANGED cleanRet
     ELSE AfterClean(t)
  /\ UNCHANGED <<shared, locks, server, slot, peer, name, room_name,
                 leaveRet, received>>

(* clients_mutex is taken and kept while leave_room takes rooms_mutex. *)
CleanLock(t) ==
  /\ At(t, "cleanlock")
  /\ clients_mutex = Free
  /\ clients_mutex' = t
  /\ leaveRet' = [leaveRet EXCEPT ![t] = "cleanclose"]
  /\ Goto(t, IF Mine(t).room = Empty THEN "cleanclose" ELSE "leave")
  /\ UNCHANGED <<shared, rooms_mutex, server, slot, peer, name, room_name,
                 cleanRet, received>>

(* The socket is closed (once more after /exit) and the entry freed. *)
CleanClose(t) ==
  /\ At(t, "cleanclose")
  /\ fds' = [fds EXCEPT ![Mine(t).sock] = NoConn]
  /\ clients' = [clients EXCEPT ![slot[t]] =
                   [@ EXCEPT !.active = FALSE, !.user = Empty, !.room = Empty]]
  /\ clients_mutex' = Free
  /\ AfterClean(t)
  /\ UNCHANGED <<rooms, rooms_mutex, server, slot, peer, name, room_name,
                 leaveRet, received>>
-----------------------------------------------------------------------------
(* Steps of the server's own code, which a running thread takes by itself; *)
(* those that wait for the network or a signal are not among them.         *)
HandlerStep(t) ==
  \/ AwaitUsername(t) \/ CheckUsername(t) \/ AwaitCommand(t)
  \/ JoinFull(t) \/ JoinRead(t) \/ JoinNoRoom(t) \/ JoinAdd(t)
  \/ LeaveRead(t) \/ LeaveRoom(t)
  \/ BroadcastLock(t) \/ BroadcastFind(t) \/ BroadcastSend(t)
  \/ WhisperFind(t)

CleanupStep(t) == CleanCheck(t) \/ CleanLock(t) \/ CleanClose(t)

MainStep ==
  RejectConnection \/ Register \/ StartHandler \/ ShutdownServer \/ ProcessExit

Network(t) ==
  \/ \E u \in Usernames : ReceiveUsername(t, u) \/ Whisper(t, u)
  \/ \E n \in RoomNames : Join(t, n)
  \/ Leave(t) \/ Broadcast(t) \/ Exit(t)
  \/ LoginLost(t) \/ ConnectionLost(t)

(* Every handler has ended or waits for a command that never comes, and no   *)
(* more connections are made; or the process has exited.                     *)
Quiet ==
  /\ \/ pc[Main] = "exited"
     \/ /\ pc[Main] = "accept" /\ accepted = MaxConns
        /\ \A k \in Conns :
             \/ pc[k] \in {"none", "done"}
             \/ pc[k] \in {"recv", "loginrecv"} /\ peer[k] # NoConn
                  /\ received[k] = MaxCommands
  /\ UNCHANGED vars

Next ==
  \/ Accept \/ HandleSigint \/ SpawnFails \/ MainStep
  \/ CleanupStep(Main) \/ LeaveRead(Main) \/ LeaveRoom(Main)
  \/ \E t \in Conns : HandlerStep(t) \/ CleanupStep(t) \/ Network(t)
  \/ Quiet

Spec == Init /\ [][Next]_vars

(* A thread that can run keeps running: the scheduler is fair to threads.  *)
(* Nothing is assumed of the network, of signals or of SpawnFails.         *)
Fairness ==
  /\ WF_vars(MainStep)
  /\ WF_vars(CleanupStep(Main) \/ LeaveRead(Main) \/ LeaveRoom(Main))
  /\ \A t \in Conns : WF_vars(HandlerStep(t) \/ CleanupStep(t))

FairSpec == Spec /\ Fairness
-----------------------------------------------------------------------------
(* Properties.                                                             *)

(* Two active clients never have the same user name, whatever connections  *)
(* log in, break and reuse entries at the same time: the lookup and the    *)
(* assignment are one critical section (server.c:186-209).                 *)
UniqueUsernames ==
  \A r, s \in Slots :
    clients[r].active /\ clients[s].active /\ clients[r].user = clients[s].user
      => r = s \/ clients[r].user = Empty

(* A room is in use exactly as long as it has users, and never more rooms  *)
(* are in use than rooms[] has entries: leave_room frees a room it empties *)
(* and create_room's search and the first entry are one critical section   *)
(* (server.c:487-529, 583-607), even when two threads act for one entry.   *)
RoomsWellFormed ==
  /\ \A n \in RoomNames : rooms[n].active <=> \E s \in Slots : rooms[n].users[s] > 0
  /\ Cardinality({n \in RoomNames : rooms[n].active}) <= MaxRooms

(* No socket is forgotten: a descriptor that is open belongs to an active  *)
(* entry, or main has just accepted it.  Entries are freed and reused with *)
(* their socket closed, whichever thread does it (server.c:111-118,        *)
(* 121-130, 675-683, 696-709).                                             *)
NoSocketLeak ==
  \A f \in Fds : fds[f] # NoConn =>
    f = newfd \/ \E s \in Slots : clients[s].active /\ clients[s].sock = f

(* The control state that types and the three properties above rest on: a   *)
(* thread that acts for an entry has one, with a socket, and the name in a  *)
(* thread's buffer is of the kind its next steps use it as.                 *)
Placed ==
  /\ newfd # NoFd <=> pc[Main] = "alloc"
  /\ pc[Main] \in {"alloc", "spawn"} => accepted \in Conns
  /\ pc[Main] \in {"spawn", "cleanup", "cleanlock", "leave", "leavelock", "cleanclose"}
       => slot[Main] \in Slots
  /\ \A t \in Conns :
       /\ pc[t] # "none" => slot[t] \in Slots
       /\ pc[t] = "loginlock" => name[t] \in Usernames
       /\ \/ pc[t] \in {"joinfull", "joinread", "joinadd"}
          \/ pc[t] \in {"leave", "leavelock"} /\ leaveRet[t] = "joinadd"
          => name[t] \in RoomNames
  /\ \A t \in Threads : slot[t] \in Slots => clients[slot[t]].sock \in Fds

(* The inductive invariant of sessions and rooms. *)
ChatInv == TypeOK /\ Placed /\ UniqueUsernames /\ RoomsWellFormed /\ NoSocketLeak

(* As long as nobody departs, what a client believes and what the rooms    *)
(* hold agree: it has one entry in users[] of its current room and none in *)
(* any other, through every interleaving of joins, moves and leaves        *)
(* (server.c:462-529, 571-607).                                            *)
MembershipAgrees ==
  \A s \in Slots, n \in RoomNames :
    rooms[n].users[s] = (IF clients[s].room = n THEN 1 ELSE 0)

(* The rooms as a directory: which room holds an entry for each slot.      *)
MemberOf(s) ==
  IF \E n \in RoomNames : rooms[n].users[s] > 0
  THEN CHOOSE n \in RoomNames : rooms[n].users[s] > 0
  ELSE Empty

Directory == INSTANCE RoomDirectory
               WITH Users <- Slots, Rooms <- RoomNames, Nowhere <- Empty,
                    MaxOpen <- MaxRooms, member <- [s \in Slots |-> MemberOf(s)]

(* As long as nobody departs, the rooms behave as the directory: a move is *)
(* a departure and an entry, rooms open and close with their users and     *)
(* MAX_ROOMS is kept (server.c:449-529, 583-607).                          *)
ImplementsDirectory == Directory!Spec

(* Room users[] never holds more than MAX_USERS_PER_ROOM users, as the     *)
(* full-room test of /join is there to ensure (server.c:256).              *)
RoomCapacity == \A n \in RoomNames : UserCount(n) <= MaxUsersPerRoom

(* A command that was received is eventually answered: the handler comes   *)
(* back to its loop or ends (server.c:222-368).                            *)
CommandCompletes ==
  \A t \in Conns :
    pc[t] \in {"joinfull", "leave", "bcast", "whisper"} ~>
      pc[t] \in {"recv", "cleanup", "done"}

(* A broadcast that has found its room is eventually sent to the users of  *)
(* the room (server.c:388-410).                                            *)
BroadcastCompletes ==
  \A t \in Conns : pc[t] = "bcastfind" ~> pc[t] # "bcastfind"

(* A handler whose connection is gone eventually ends, with all it still   *)
(* has to clean up (server.c:222-228, 370, 688-712).                       *)
LostHandlersEnd ==
  \A t \in Conns : pc[t] = "cleanup" ~> pc[t] = "done" \/ pc[Main] = "exited"

(* After SIGINT the server does shut down and exit (server.c:141-159).     *)
ShutdownCompletes == ~server_running ~> pc[Main] = "exited"

(* An entry is freed only for the client that uses it: when a handler      *)
(* cleans up, the session it ends is its own (server.c:688).               *)
CleansOwnSession ==
  [][\A t \in Conns : CleanClose(t) => clients[slot[t]].thread = t]_vars
=============================================================================
