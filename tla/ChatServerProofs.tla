-------------------------- MODULE ChatServerProofs --------------------------
(* Proofs about the sessions and rooms of the chat server, for any number of *)
(* connections, entries, descriptors, rooms and users, with connections that *)
(* are lost, thread starts that fail and SIGINT at any moment.               *)
EXTENDS ChatServer, FiniteSetTheorems, TLAPS

USE DEF shared, locks, server, locals, At, Goto
-----------------------------------------------------------------------------
(* The threads and what is not one. *)
LEMMA Numbers ==
  /\ Main \in Threads /\ Main \notin Conns /\ Conns \subseteq Threads
  /\ NoSlot \notin Slots /\ NoFd \notin Fds /\ NoConn \notin Conns
  BY DEF Main, Threads, Conns, Slots, Fds, NoSlot, NoFd, NoConn

-----------------------------------------------------------------------------
(* Every step keeps the types and the control state. *)
LEMMA AcceptPlaced ==
  ASSUME TypeOK, Placed, Accept
  PROVE  TypeOK' /\ Placed'
  <1> USE Numbers DEF Accept, LowestFd
  <1>0. PICK f \in Fds : /\ fds' = [fds EXCEPT ![f] = accepted + 1]
                        /\ newfd' = f
    OBVIOUS
  <1>a. accepted \in Nat /\ accepted + 1 \in 1 .. MaxConns
    BY ChatBounds DEF TypeOK
  <1>1. TypeOK'
    <2>1. fds' \in [Fds -> Conns \cup {NoConn}]
      BY <1>0, <1>a DEF TypeOK, Conns
    <2>2. newfd' \in Fds /\ accepted' \in 0 .. MaxConns
      BY <1>0, <1>a
    <2>3. pc' \in [Threads -> Labels]
      BY DEF TypeOK, Labels
    <2>4. QED
      BY <2>1, <2>2, <2>3 DEF TypeOK, Labels
  <1>2. Placed'
    <2>1. newfd' \in Fds /\ accepted' \in Conns
      BY <1>0, <1>a DEF Conns
    <2>2. QED
      BY <2>1 DEF TypeOK, Placed
  <1>3. QED
    BY <1>1, <1>2

LEMMA HandleSigintPlaced ==
  ASSUME TypeOK, Placed, HandleSigint
  PROVE  TypeOK' /\ Placed'
  <1> USE Numbers DEF HandleSigint
  <1>1. TypeOK'
    BY DEF TypeOK, Placed, Client, Room, Labels
  <1>2. Placed'
    BY DEF TypeOK, Placed, Client
  <1>3. QED
    BY <1>1, <1>2

LEMMA SpawnFailsPlaced ==
  ASSUME TypeOK, Placed, SpawnFails
  PROVE  TypeOK' /\ Placed'
  <1> USE Numbers DEF SpawnFails
  <1>1. TypeOK'
    BY DEF TypeOK, Placed, Client, Room, Labels
  <1>2. Placed'
    BY DEF TypeOK, Placed, Client
  <1>3. QED
    BY <1>1, <1>2

LEMMA RejectConnectionPlaced ==
  ASSUME TypeOK, Placed, RejectConnection
  PROVE  TypeOK' /\ Placed'
  <1> USE Numbers DEF RejectConnection, LockClients
  <1>1. TypeOK'
    BY DEF TypeOK, Placed, Client, Room, Labels
  <1>2. Placed'
    BY DEF TypeOK, Placed, Client
  <1>3. QED
    BY <1>1, <1>2

LEMMA RegisterPlaced ==
  ASSUME TypeOK, Placed, Register
  PROVE  TypeOK' /\ Placed'
  <1> USE Numbers DEF Register, LockClients, FirstFree
  <1>0. PICK s \in Slots :
          /\ clients' = [clients EXCEPT ![s] =
                           [@ EXCEPT !.active = TRUE, !.sock = newfd, !.user = Empty,
                                     !.room = Empty, !.thread = accepted]]
          /\ slot' = [slot EXCEPT ![Main] = s]
    OBVIOUS
  <1>1. TypeOK'
    <2>1. [clients[s] EXCEPT !.active = TRUE, !.sock = newfd, !.user = Empty,
                             !.room = Empty, !.thread = accepted] \in Client
      <3>1. clients[s] \in Client /\ newfd \in Fds /\ accepted \in Conns
        BY DEF TypeOK, Placed
      <3>2. QED
        BY <3>1 DEF Client
    <2>2. clients' \in [Slots -> Client]
      BY <1>0, <2>1 DEF TypeOK
    <2>3. slot' \in [Threads -> Slots \cup {NoSlot}]
      BY <1>0 DEF TypeOK
    <2>4. pc' \in [Threads -> Labels]
      BY DEF TypeOK, Labels
    <2>5. QED
      BY <2>2, <2>3, <2>4 DEF TypeOK, Labels
  <1>2. Placed'
    <2>1. \A r \in Slots : clients'[r].sock = IF r = s THEN newfd ELSE clients[r].sock
      BY <1>0 DEF TypeOK, Client
    <2>2. newfd \in Fds
      BY DEF TypeOK, Placed
    <2>3. QED
      BY <1>0, <2>1, <2>2 DEF TypeOK, Placed
  <1>3. QED
    BY <1>1, <1>2

LEMMA StartHandlerPlaced ==
  ASSUME TypeOK, Placed, StartHandler
  PROVE  TypeOK' /\ Placed'
  <1> USE Numbers DEF StartHandler
  <1>1. TypeOK'
    BY DEF TypeOK, Placed, Client, Room, Labels
  <1>2. Placed'
    BY DEF TypeOK, Placed, Client
  <1>3. QED
    BY <1>1, <1>2

LEMMA ShutdownServerPlaced ==
  ASSUME TypeOK, Placed, ShutdownServer
  PROVE  TypeOK' /\ Placed'
  <1> USE Numbers DEF ShutdownServer, LockClients
  <1>1. TypeOK'
    <2>1. ASSUME NEW s \in Slots
          PROVE  [clients[s] EXCEPT !.active = FALSE] \in Client
      <3>1. clients[s] \in Client
        BY DEF TypeOK
      <3>2. QED
        BY <3>1 DEF Client
    <2>2. clients' \in [Slots -> Client]
      BY <2>1
    <2>3. fds' \in [Fds -> Conns \cup {NoConn}]
      BY DEF TypeOK
    <2>4. pc' \in [Threads -> Labels]
      BY DEF TypeOK, Labels
    <2>5. QED
      BY <2>1, <2>2, <2>3, <2>4 DEF TypeOK, Labels
  <1>2. Placed'
    BY DEF TypeOK, Placed, Client
  <1>3. QED
    BY <1>1, <1>2

LEMMA ProcessExitPlaced ==
  ASSUME TypeOK, Placed, ProcessExit
  PROVE  TypeOK' /\ Placed'
  <1> USE Numbers DEF ProcessExit
  <1>1. TypeOK'
    BY DEF TypeOK, Placed, Client, Room, Labels
  <1>2. Placed'
    BY DEF TypeOK, Placed, Client
  <1>3. QED
    BY <1>1, <1>2

LEMMA CleanCheckPlaced ==
  ASSUME TypeOK, Placed, NEW t \in Threads, CleanCheck(t)
  PROVE  TypeOK' /\ Placed'
  <1> USE Numbers DEF CleanCheck, AfterClean, Mine
  <1>1. TypeOK'
    <2>1. pc' \in [Threads -> Labels]
      BY DEF TypeOK, Labels
    <2>2. cleanRet' \in [Threads -> {"cleanup", "done", "accept"}]
      BY DEF TypeOK
    <2>3. QED
      BY <2>1, <2>2 DEF TypeOK
  <1>2. Placed'
    BY DEF TypeOK, Placed, Client
  <1>3. QED
    BY <1>1, <1>2

LEMMA CleanLockPlaced ==
  ASSUME TypeOK, Placed, NEW t \in Threads, CleanLock(t)
  PROVE  TypeOK' /\ Placed'
  <1> USE Numbers DEF CleanLock, Mine
  <1>1. TypeOK'
    BY DEF TypeOK, Placed, Client, Room, Labels
  <1>2. Placed'
    BY DEF TypeOK, Placed, Client
  <1>3. QED
    BY <1>1, <1>2

LEMMA CleanClosePlaced ==
  ASSUME TypeOK, Placed, NEW t \in Threads, CleanClose(t)
  PROVE  TypeOK' /\ Placed'
  <1> USE Numbers DEF CleanClose, AfterClean, Mine
  <1>0. slot[t] \in Slots /\ clients[slot[t]] \in Client
    BY DEF TypeOK, Placed, Threads
  <1>1. TypeOK'
    <2>1. [clients[slot[t]] EXCEPT !.active = FALSE, !.user = Empty, !.room = Empty]
          \in Client
      BY <1>0 DEF Client
    <2>2. clients' \in [Slots -> Client]
      BY <1>0, <2>1 DEF TypeOK
    <2>3. fds' \in [Fds -> Conns \cup {NoConn}]
      BY DEF TypeOK
    <2>4. pc' \in [Threads -> Labels]
      BY DEF TypeOK, Labels
    <2>5. cleanRet' \in [Threads -> {"cleanup", "done", "accept"}]
      BY DEF TypeOK
    <2>6. QED
      BY <2>1, <2>2, <2>3, <2>4, <2>5 DEF TypeOK, Labels
  <1>2. Placed'
    BY DEF TypeOK, Placed, Client
  <1>3. QED
    BY <1>1, <1>2

LEMMA LeaveReadPlaced ==
  ASSUME TypeOK, Placed, NEW t \in Threads, LeaveRead(t)
  PROVE  TypeOK' /\ Placed'
  <1> USE Numbers DEF LeaveRead, Mine
  <1>1. TypeOK'
    <2>1. Mine(t) \in Client
      BY DEF TypeOK, Placed, Threads
    <2>2. room_name' \in [Threads -> RoomNames \cup {Empty}]
      BY <2>1 DEF TypeOK, Client
    <2>3. pc' \in [Threads -> Labels]
      BY DEF TypeOK, Labels
    <2>4. QED
      BY <2>1, <2>2, <2>3 DEF TypeOK, Labels
  <1>2. Placed'
    BY DEF TypeOK, Placed, Client
  <1>3. QED
    BY <1>1, <1>2

LEMMA LeaveRoomPlaced ==
  ASSUME TypeOK, Placed, NEW t \in Threads, LeaveRoom(t)
  PROVE  TypeOK' /\ Placed'
  <1> USE Numbers DEF LeaveRoom, LockRooms, Without
  <1>0. slot[t] \in Slots /\ clients[slot[t]] \in Client
    BY DEF TypeOK, Placed, Threads
  <1>1. TypeOK'
    <2>1. [clients[slot[t]] EXCEPT !.room = Empty] \in Client
      BY <1>0 DEF Client
    <2>2. clients' \in [Slots -> Client]
      BY <1>0, <2>1 DEF TypeOK
    <2>3. \A n \in RoomNames : Without(n, slot[t]) \in [Slots -> Nat]
      BY DEF TypeOK, Room
    <2>4. rooms' \in [RoomNames -> Room]
      BY <2>3 DEF TypeOK, Room
    <2>5. pc' \in [Threads -> Labels]
      BY DEF TypeOK, Labels
    <2>6. QED
      BY <2>1, <2>2, <2>3, <2>4, <2>5 DEF TypeOK, Labels
  <1>2. Placed'
    BY DEF TypeOK, Placed, Client
  <1>3. QED
    BY <1>1, <1>2

LEMMA AwaitUsernamePlaced ==
  ASSUME TypeOK, Placed, NEW t \in Conns, AwaitUsername(t)
  PROVE  TypeOK' /\ Placed'
  <1> USE Numbers DEF AwaitUsername, Mine
  <1>1. TypeOK'
    <2>1. fds[Mine(t).sock] \in Conns \cup {NoConn}
      BY DEF TypeOK, Placed
    <2>2. peer' \in [Threads -> Conns \cup {NoConn}]
      BY <2>1 DEF TypeOK
    <2>3. pc' \in [Threads -> Labels]
      BY DEF TypeOK, Labels
    <2>4. cleanRet' \in [Threads -> {"cleanup", "done", "accept"}]
      BY DEF TypeOK
    <2>5. QED
      BY <2>1, <2>2, <2>3, <2>4 DEF TypeOK, Labels
  <1>2. Placed'
    BY DEF TypeOK, Placed, Client
  <1>3. QED
    BY <1>1, <1>2

LEMMA CheckUsernamePlaced ==
  ASSUME TypeOK, Placed, NEW t \in Conns, CheckUsername(t)
  PROVE  TypeOK' /\ Placed'
  <1> USE Numbers DEF CheckUsername, LockClients
  <1>0. slot[t] \in Slots /\ clients[slot[t]] \in Client /\ name[t] \in Usernames
    BY DEF TypeOK, Placed
  <1>1. TypeOK'
    <2>1. [clients[slot[t]] EXCEPT !.user = name[t]] \in Client
      BY <1>0 DEF Client
    <2>2. clients' \in [Slots -> Client]
      BY <1>0, <2>1 DEF TypeOK
    <2>3. pc' \in [Threads -> Labels]
      BY DEF TypeOK, Labels
    <2>4. QED
      BY <2>1, <2>2, <2>3 DEF TypeOK, Labels
  <1>2. Placed'
    BY DEF TypeOK, Placed, Client
  <1>3. QED
    BY <1>1, <1>2

LEMMA AwaitCommandPlaced ==
  ASSUME TypeOK, Placed, NEW t \in Conns, AwaitCommand(t)
  PROVE  TypeOK' /\ Placed'
  <1> USE Numbers DEF AwaitCommand, Mine
  <1>1. TypeOK'
    <2>1. fds[Mine(t).sock] \in Conns \cup {NoConn}
      BY DEF TypeOK, Placed
    <2>2. peer' \in [Threads -> Conns \cup {NoConn}]
      BY <2>1 DEF TypeOK
    <2>3. pc' \in [Threads -> Labels]
      BY DEF TypeOK, Labels
    <2>4. cleanRet' \in [Threads -> {"cleanup", "done", "accept"}]
      BY DEF TypeOK
    <2>5. QED
      BY <2>1, <2>2, <2>3, <2>4 DEF TypeOK, Labels
  <1>2. Placed'
    BY DEF TypeOK, Placed, Client
  <1>3. QED
    BY <1>1, <1>2

LEMMA JoinFullPlaced ==
  ASSUME TypeOK, Placed, NEW t \in Conns, JoinFull(t)
  PROVE  TypeOK' /\ Placed'
  <1> USE Numbers DEF JoinFull, LockRooms
  <1>1. TypeOK'
    BY DEF TypeOK, Placed, Client, Room, Labels
  <1>2. Placed'
    BY DEF TypeOK, Placed, Client
  <1>3. QED
    BY <1>1, <1>2

LEMMA JoinReadPlaced ==
  ASSUME TypeOK, Placed, NEW t \in Conns, JoinRead(t)
  PROVE  TypeOK' /\ Placed'
  <1> USE Numbers DEF JoinRead, LockClients, Mine
  <1>1. TypeOK'
    BY DEF TypeOK, Placed, Client, Room, Labels
  <1>2. Placed'
    BY DEF TypeOK, Placed, Client
  <1>3. QED
    BY <1>1, <1>2

LEMMA JoinNoRoomPlaced ==
  ASSUME TypeOK, Placed, NEW t \in Conns, JoinNoRoom(t)
  PROVE  TypeOK' /\ Placed'
  <1> USE Numbers DEF JoinNoRoom, LockRooms
  <1>1. TypeOK'
    BY DEF TypeOK, Placed, Client, Room, Labels
  <1>2. Placed'
    BY DEF TypeOK, Placed, Client
  <1>3. QED
    BY <1>1, <1>2

LEMMA JoinAddPlaced ==
  ASSUME TypeOK, Placed, NEW t \in Conns, JoinAdd(t)
  PROVE  TypeOK' /\ Placed'
  <1> USE Numbers DEF JoinAdd, LockRooms
  <1>0. slot[t] \in Slots /\ clients[slot[t]] \in Client /\ name[t] \in RoomNames
    BY DEF TypeOK, Placed
  <1>1. TypeOK'
    <2>1. [clients[slot[t]] EXCEPT !.room = name[t]] \in Client
      BY <1>0 DEF Client
    <2>2. clients' \in [Slots -> Client]
      BY <1>0, <2>1 DEF TypeOK
    <2>3. With(name[t], slot[t]) \in [Slots -> Nat]
      BY <1>0 DEF TypeOK, Room, With
    <2>4. [active |-> TRUE, users |-> With(name[t], slot[t])] \in Room
      BY <2>3 DEF Room
    <2>5. rooms' \in [RoomNames -> Room]
      BY <1>0, <2>4 DEF TypeOK
    <2>6. pc' \in [Threads -> Labels]
      BY DEF TypeOK, Labels
    <2>7. QED
      BY <2>1, <2>2, <2>3, <2>4, <2>5, <2>6 DEF TypeOK, Labels
  <1>2. Placed'
    BY DEF TypeOK, Placed, Client
  <1>3. QED
    BY <1>1, <1>2

LEMMA BroadcastLockPlaced ==
  ASSUME TypeOK, Placed, NEW t \in Conns, BroadcastLock(t)
  PROVE  TypeOK' /\ Placed'
  <1> USE Numbers DEF BroadcastLock
  <1>1. TypeOK'
    <2>1. pc' \in [Threads -> Labels] /\ rooms_mutex' \in Threads \cup {Free}
      BY DEF TypeOK, Labels
    <2>2. QED
      BY <2>1 DEF TypeOK
  <1>2. Placed'
    BY DEF TypeOK, Placed, Client
  <1>3. QED
    BY <1>1, <1>2

LEMMA BroadcastFindPlaced ==
  ASSUME TypeOK, Placed, NEW t \in Conns, BroadcastFind(t)
  PROVE  TypeOK' /\ Placed'
  <1> USE Numbers DEF BroadcastFind, LockClients
  <1>1. TypeOK'
    BY DEF TypeOK, Placed, Client, Room, Labels
  <1>2. Placed'
    BY DEF TypeOK, Placed, Client
  <1>3. QED
    BY <1>1, <1>2

LEMMA BroadcastSendPlaced ==
  ASSUME TypeOK, Placed, NEW t \in Conns, BroadcastSend(t)
  PROVE  TypeOK' /\ Placed'
  <1> USE Numbers DEF BroadcastSend
  <1>1. TypeOK'
    BY DEF TypeOK, Placed, Client, Room, Labels
  <1>2. Placed'
    BY DEF TypeOK, Placed, Client
  <1>3. QED
    BY <1>1, <1>2

LEMMA WhisperFindPlaced ==
  ASSUME TypeOK, Placed, NEW t \in Conns, WhisperFind(t)
  PROVE  TypeOK' /\ Placed'
  <1> USE Numbers DEF WhisperFind, LockClients
  <1>1. TypeOK'
    BY DEF TypeOK, Placed, Client, Room, Labels
  <1>2. Placed'
    BY DEF TypeOK, Placed, Client
  <1>3. QED
    BY <1>1, <1>2

LEMMA ReceiveUsernamePlaced ==
  ASSUME TypeOK, Placed, NEW t \in Conns, NEW u \in Usernames, ReceiveUsername(t, u)
  PROVE  TypeOK' /\ Placed'
  <1> USE Numbers DEF ReceiveUsername
  <1>1. TypeOK'
    <2>1. received' \in [Conns -> 0 .. MaxCommands]
      BY ChatBounds DEF TypeOK
    <2>2. name' \in [Threads -> Usernames \cup RoomNames \cup {Empty}]
      BY DEF TypeOK
    <2>3. pc' \in [Threads -> Labels]
      BY DEF TypeOK, Labels
    <2>4. QED
      BY <2>1, <2>2, <2>3 DEF TypeOK, Labels
  <1>2. Placed'
    BY DEF TypeOK, Placed, Client
  <1>3. QED
    BY <1>1, <1>2

LEMMA WhisperPlaced ==
  ASSUME TypeOK, Placed, NEW t \in Conns, NEW u \in Usernames, Whisper(t, u)
  PROVE  TypeOK' /\ Placed'
  <1> USE Numbers DEF Whisper, Receive, Mine
  <1>1. TypeOK'
    <2>1. received' \in [Conns -> 0 .. MaxCommands]
      BY ChatBounds DEF TypeOK
    <2>2. name' \in [Threads -> Usernames \cup RoomNames \cup {Empty}]
      BY DEF TypeOK
    <2>3. pc' \in [Threads -> Labels]
      BY DEF TypeOK, Labels
    <2>4. QED
      BY <2>1, <2>2, <2>3 DEF TypeOK, Labels
  <1>2. Placed'
    BY DEF TypeOK, Placed, Client
  <1>3. QED
    BY <1>1, <1>2

LEMMA JoinPlaced ==
  ASSUME TypeOK, Placed, NEW t \in Conns, NEW n \in RoomNames, Join(t, n)
  PROVE  TypeOK' /\ Placed'
  <1> USE Numbers DEF Join, Receive, Mine
  <1>1. TypeOK'
    <2>1. received' \in [Conns -> 0 .. MaxCommands]
      BY ChatBounds DEF TypeOK
    <2>2. name' \in [Threads -> Usernames \cup RoomNames \cup {Empty}]
      BY DEF TypeOK
    <2>3. pc' \in [Threads -> Labels]
      BY DEF TypeOK, Labels
    <2>4. QED
      BY <2>1, <2>2, <2>3 DEF TypeOK, Labels
  <1>2. Placed'
    BY DEF TypeOK, Placed, Client
  <1>3. QED
    BY <1>1, <1>2

LEMMA LeavePlaced ==
  ASSUME TypeOK, Placed, NEW t \in Conns, Leave(t)
  PROVE  TypeOK' /\ Placed'
  <1> USE Numbers DEF Leave, Receive, Mine
  <1>1. TypeOK'
    <2>1. received' \in [Conns -> 0 .. MaxCommands]
      BY ChatBounds DEF TypeOK
    <2>2. pc' \in [Threads -> Labels]
      BY DEF TypeOK, Labels
    <2>3. QED
      BY <2>1, <2>2 DEF TypeOK, Labels
  <1>2. Placed'
    BY DEF TypeOK, Placed, Client
  <1>3. QED
    BY <1>1, <1>2

LEMMA BroadcastPlaced ==
  ASSUME TypeOK, Placed, NEW t \in Conns, Broadcast(t)
  PROVE  TypeOK' /\ Placed'
  <1> USE Numbers DEF Broadcast, Receive, Mine
  <1>1. TypeOK'
    <2>1. received' \in [Conns -> 0 .. MaxCommands]
      BY ChatBounds DEF TypeOK
    <2>2. pc' \in [Threads -> Labels]
      BY DEF TypeOK, Labels
    <2>3. QED
      BY <2>1, <2>2 DEF TypeOK, Labels
  <1>2. Placed'
    BY DEF TypeOK, Placed, Client
  <1>3. QED
    BY <1>1, <1>2

LEMMA ExitPlaced ==
  ASSUME TypeOK, Placed, NEW t \in Conns, Exit(t)
  PROVE  TypeOK' /\ Placed'
  <1> USE Numbers DEF Exit, Receive, Mine
  <1>1. TypeOK'
    <2>1. received' \in [Conns -> 0 .. MaxCommands]
      BY ChatBounds DEF TypeOK
    <2>2. fds' \in [Fds -> Conns \cup {NoConn}]
      BY DEF TypeOK
    <2>3. pc' \in [Threads -> Labels]
      BY DEF TypeOK, Labels
    <2>4. QED
      BY <2>1, <2>2, <2>3 DEF TypeOK, Labels
  <1>2. Placed'
    BY DEF TypeOK, Placed, Client
  <1>3. QED
    BY <1>1, <1>2

LEMMA LoginLostPlaced ==
  ASSUME TypeOK, Placed, NEW t \in Conns, LoginLost(t)
  PROVE  TypeOK' /\ Placed'
  <1> USE Numbers DEF LoginLost
  <1>1. TypeOK'
    BY DEF TypeOK, Placed, Client, Room, Labels
  <1>2. Placed'
    BY DEF TypeOK, Placed, Client
  <1>3. QED
    BY <1>1, <1>2

LEMMA ConnectionLostPlaced ==
  ASSUME TypeOK, Placed, NEW t \in Conns, ConnectionLost(t)
  PROVE  TypeOK' /\ Placed'
  <1> USE Numbers DEF ConnectionLost
  <1>1. TypeOK'
    BY DEF TypeOK, Placed, Client, Room, Labels
  <1>2. Placed'
    BY DEF TypeOK, Placed, Client
  <1>3. QED
    BY <1>1, <1>2

-----------------------------------------------------------------------------
(* Which steps change the rooms, the entries of clients[], the descriptors. *)
LEMMA RoomChanges ==
  ASSUME [Next]_vars
  PROVE  \/ UNCHANGED rooms
         \/ \E t \in Conns : JoinAdd(t)
         \/ \E t \in Threads : LeaveRoom(t)
  <1> DEFINE P == \/ UNCHANGED rooms
                  \/ \E t \in Conns : JoinAdd(t)
                  \/ \E t \in Threads : LeaveRoom(t)
  <1>1. (Accept => P) /\ (HandleSigint => P) /\ (SpawnFails => P) /\ (MainStep => P)
    BY DEF Accept, HandleSigint, SpawnFails, MainStep, RejectConnection, Register,
           StartHandler, ShutdownServer, ProcessExit
  <1>2. \A t \in Threads : CleanupStep(t) \/ LeaveRead(t) \/ LeaveRoom(t) => P
    BY DEF CleanupStep, CleanCheck, CleanLock, CleanClose, LeaveRead
  <1>3. \A t \in Conns : HandlerStep(t) => P
    BY Numbers DEF HandlerStep, AwaitUsername, CheckUsername, AwaitCommand, JoinFull,
           JoinRead, JoinNoRoom, LeaveRead, BroadcastLock, BroadcastFind,
           BroadcastSend, WhisperFind
  <1>4. \A t \in Conns : Network(t) => P
    BY DEF Network, Receive, ReceiveUsername, Whisper, Join, Leave, Broadcast, Exit,
           LoginLost, ConnectionLost
  <1>5. UNCHANGED vars => P
    BY DEF vars
  <1> HIDE DEF P
  <1>6. P
    BY <1>1, <1>2, <1>3, <1>4, <1>5, Numbers DEF Next, Quiet
  <1>7. QED
    BY <1>6 DEF P

LEMMA ClientChanges ==
  ASSUME [Next]_vars
  PROVE  \/ UNCHANGED clients
         \/ Register \/ ShutdownServer
         \/ \E t \in Conns : CheckUsername(t) \/ JoinAdd(t)
         \/ \E t \in Threads : LeaveRoom(t) \/ CleanClose(t)
  <1> DEFINE P == \/ UNCHANGED clients
                  \/ Register \/ ShutdownServer
                  \/ \E t \in Conns : CheckUsername(t) \/ JoinAdd(t)
                  \/ \E t \in Threads : LeaveRoom(t) \/ CleanClose(t)
  <1>1. (Accept => P) /\ (HandleSigint => P) /\ (SpawnFails => P) /\ (MainStep => P)
    BY DEF Accept, HandleSigint, SpawnFails, MainStep, RejectConnection, StartHandler,
           ProcessExit
  <1>2. \A t \in Threads : CleanupStep(t) \/ LeaveRead(t) \/ LeaveRoom(t) => P
    BY DEF CleanupStep, CleanCheck, CleanLock, LeaveRead
  <1>3. \A t \in Conns : HandlerStep(t) => P
    BY Numbers DEF HandlerStep, AwaitUsername, AwaitCommand, JoinFull, JoinRead,
           JoinNoRoom, LeaveRead, BroadcastLock, BroadcastFind, BroadcastSend,
           WhisperFind
  <1>4. \A t \in Conns : Network(t) => P
    BY DEF Network, Receive, ReceiveUsername, Whisper, Join, Leave, Broadcast, Exit,
           LoginLost, ConnectionLost
  <1>5. UNCHANGED vars => P
    BY DEF vars
  <1> HIDE DEF P
  <1>6. P
    BY <1>1, <1>2, <1>3, <1>4, <1>5, Numbers DEF Next, Quiet
  <1>7. QED
    BY <1>6 DEF P

LEMMA SocketChanges ==
  ASSUME [Next]_vars
  PROVE  \/ UNCHANGED <<fds, newfd>>
         \/ Accept \/ RejectConnection \/ Register \/ ShutdownServer
         \/ \E t \in Conns : Exit(t)
         \/ \E t \in Threads : CleanClose(t)
  <1> DEFINE P == \/ UNCHANGED <<fds, newfd>>
                  \/ Accept \/ RejectConnection \/ Register \/ ShutdownServer
                  \/ \E t \in Conns : Exit(t)
                  \/ \E t \in Threads : CleanClose(t)
  <1>1. (Accept => P) /\ (HandleSigint => P) /\ (SpawnFails => P) /\ (MainStep => P)
    BY DEF HandleSigint, SpawnFails, MainStep, StartHandler, ProcessExit
  <1>2. \A t \in Threads : CleanupStep(t) \/ LeaveRead(t) \/ LeaveRoom(t) => P
    BY DEF CleanupStep, CleanCheck, CleanLock, LeaveRead, LeaveRoom
  <1>3. \A t \in Conns : HandlerStep(t) => P
    BY Numbers DEF HandlerStep, AwaitUsername, CheckUsername, AwaitCommand, JoinFull,
           JoinRead, JoinNoRoom, JoinAdd, LeaveRead, LeaveRoom, BroadcastLock,
           BroadcastFind, BroadcastSend, WhisperFind
  <1>4. \A t \in Conns : Network(t) => P
    BY DEF Network, Receive, ReceiveUsername, Whisper, Join, Leave, Broadcast,
           LoginLost, ConnectionLost
  <1>5. UNCHANGED vars => P
    BY DEF vars
  <1> HIDE DEF P
  <1>6. P
    BY <1>1, <1>2, <1>3, <1>4, <1>5, Numbers DEF Next, Quiet
  <1>7. QED
    BY <1>6 DEF P
-----------------------------------------------------------------------------
LEMMA PlacedNext == TypeOK /\ Placed /\ [Next]_vars => TypeOK' /\ Placed'
  <1> SUFFICES ASSUME TypeOK, Placed, [Next]_vars PROVE TypeOK' /\ Placed'
    OBVIOUS
  <1>1. CASE Accept \/ HandleSigint \/ SpawnFails \/ MainStep
    BY <1>1, AcceptPlaced, HandleSigintPlaced, SpawnFailsPlaced, RejectConnectionPlaced,
       RegisterPlaced, StartHandlerPlaced, ShutdownServerPlaced, ProcessExitPlaced
    DEF MainStep
  <1>2. CASE \E t \in Threads : CleanupStep(t) \/ LeaveRead(t) \/ LeaveRoom(t)
    BY <1>2, CleanCheckPlaced, CleanLockPlaced, CleanClosePlaced, LeaveReadPlaced,
       LeaveRoomPlaced DEF CleanupStep
  <1>3. CASE \E t \in Conns : HandlerStep(t)
    BY <1>3, Numbers, AwaitUsernamePlaced, CheckUsernamePlaced, AwaitCommandPlaced,
       JoinFullPlaced, JoinReadPlaced, JoinNoRoomPlaced, JoinAddPlaced, LeaveReadPlaced,
       LeaveRoomPlaced, BroadcastLockPlaced, BroadcastFindPlaced, BroadcastSendPlaced,
       WhisperFindPlaced DEF HandlerStep
  <1>4. CASE \E t \in Conns : Network(t)
    BY <1>4, ReceiveUsernamePlaced, WhisperPlaced, JoinPlaced, LeavePlaced,
       BroadcastPlaced, ExitPlaced, LoginLostPlaced, ConnectionLostPlaced DEF Network
  <1>5. CASE UNCHANGED vars
    BY <1>5 DEF vars, TypeOK, Placed
  <1>6. QED
    BY <1>1, <1>2, <1>3, <1>4, <1>5, Numbers DEF Next, Quiet

(* A name is only given to an entry when no active entry has it. *)
LEMMA UniqueNext ==
  ASSUME TypeOK, Placed, UniqueUsernames, [Next]_vars
  PROVE  UniqueUsernames'
  <1>1. CASE UNCHANGED clients
    BY <1>1 DEF UniqueUsernames
  <1>2. CASE Register
    BY <1>2 DEF Register, UniqueUsernames, TypeOK, Client
  <1>3. CASE ShutdownServer
    BY <1>3 DEF ShutdownServer, UniqueUsernames, TypeOK, Client
  <1>4. ASSUME NEW t \in Conns, CheckUsername(t) PROVE UniqueUsernames'
    BY <1>4 DEF CheckUsername, UniqueUsernames, TypeOK, Client
  <1>5. ASSUME NEW t \in Conns, JoinAdd(t) PROVE UniqueUsernames'
    BY <1>5 DEF JoinAdd, UniqueUsernames, TypeOK, Client
  <1>6. ASSUME NEW t \in Threads, LeaveRoom(t) PROVE UniqueUsernames'
    BY <1>6 DEF LeaveRoom, UniqueUsernames, TypeOK, Client
  <1>7. ASSUME NEW t \in Threads, CleanClose(t) PROVE UniqueUsernames'
    BY <1>7 DEF CleanClose, UniqueUsernames, TypeOK, Client
  <1>8. QED
    BY <1>1, <1>2, <1>3, <1>4, <1>5, <1>6, <1>7, ClientChanges

(* A room is opened with a user in it and only while rooms[] has an entry   *)
(* left; leave_room closes it with its last user.                           *)
LEMMA RoomsNext ==
  ASSUME TypeOK, Placed, RoomsWellFormed, [Next]_vars
  PROVE  RoomsWellFormed'
  <1> DEFINE Active == {n \in RoomNames : rooms[n].active}
  <1>a. IsFiniteSet(Active) /\ Cardinality(Active) \in Nat /\ MaxRooms \in Nat
    <2>1. IsFiniteSet(Active)
      BY ChatNames, FS_Subset
    <2>2. QED
      BY <2>1, FS_CardinalityType, ChatBounds
  <1>1. CASE UNCHANGED rooms
    BY <1>1 DEF RoomsWellFormed
  <1>2. ASSUME NEW t \in Conns, JoinAdd(t) PROVE RoomsWellFormed'
    <2>1. slot[t] \in Slots /\ name[t] \in RoomNames
      BY <1>2 DEF JoinAdd, Placed
    <2>2. rooms[name[t]].users \in [Slots -> Nat]
      BY <2>1 DEF TypeOK, Room
    <2>3. With(name[t], slot[t])[slot[t]] > 0
      BY <2>1, <2>2 DEF With
    <2>4. rooms' = [rooms EXCEPT ![name[t]] =
                      [active |-> TRUE, users |-> With(name[t], slot[t])]]
      BY <1>2 DEF JoinAdd
    <2>5. \A n \in RoomNames : rooms'[n].active <=> \E s \in Slots : rooms'[n].users[s] > 0
      BY <2>1, <2>3, <2>4 DEF TypeOK, RoomsWellFormed
    <2>6. Cardinality(Active') <= MaxRooms
      <3>1. Active' = Active \cup {name[t]}
        BY <2>1, <2>4 DEF TypeOK
      <3>2. CASE rooms[name[t]].active
        <4>1. Active' = Active
          BY <2>1, <3>1, <3>2
        <4>2. QED
          BY <4>1 DEF RoomsWellFormed
      <3>3. CASE ~rooms[name[t]].active
        <4>1. Cardinality(Active) < MaxRooms
          BY <1>2, <3>3 DEF JoinAdd
        <4>2. Cardinality(Active') = Cardinality(Active) + 1
          BY <1>a, <3>1, <3>3, FS_AddElement
        <4>3. QED
          BY <1>a, <4>1, <4>2
      <3>4. QED
        BY <3>2, <3>3
    <2>7. QED
      BY <2>5, <2>6 DEF RoomsWellFormed
  <1>3. ASSUME NEW t \in Threads, LeaveRoom(t) PROVE RoomsWellFormed'
    <2>1. \/ UNCHANGED rooms
          \/ /\ room_name[t] \in RoomNames
             /\ rooms[room_name[t]].active
             /\ rooms' = [rooms EXCEPT ![room_name[t]] =
                            [active |-> \E s \in Slots : Without(room_name[t], slot[t])[s] > 0,
                             users |-> Without(room_name[t], slot[t])]]
      BY <1>3 DEF LeaveRoom, TypeOK
    <2>2. CASE UNCHANGED rooms
      BY <2>2 DEF RoomsWellFormed
    <2>3. CASE ~UNCHANGED rooms
      <3>1. \A n \in RoomNames : rooms'[n].active <=> \E s \in Slots : rooms'[n].users[s] > 0
        BY <2>1, <2>3 DEF TypeOK, RoomsWellFormed
      <3>2. Active' \subseteq Active
        BY <2>1, <2>3 DEF TypeOK
      <3>3. Cardinality(Active') <= Cardinality(Active) /\ Cardinality(Active') \in Nat
        BY <1>a, <3>2, FS_Subset, FS_CardinalityType
      <3>4. QED
        BY <1>a, <3>1, <3>3 DEF RoomsWellFormed
    <2>4. QED
      BY <2>2, <2>3
  <1>4. QED
    BY <1>1, <1>2, <1>3, RoomChanges

(* A descriptor changes hands from main to an entry, and is closed before   *)
(* the entry that has it is freed.                                          *)
LEMMA SocketsNext ==
  ASSUME TypeOK, Placed, NoSocketLeak, [Next]_vars
  PROVE  NoSocketLeak'
  <1>1. CASE Accept
    <2>1. PICK f \in Fds : /\ fds' = [fds EXCEPT ![f] = accepted + 1]
                          /\ newfd' = f
      BY <1>1 DEF Accept
    <2>2. newfd = NoFd /\ UNCHANGED clients
      BY <1>1 DEF Accept, Placed
    <2>3. QED
      BY <2>1, <2>2, Numbers DEF NoSocketLeak, TypeOK
  <1>2. CASE RejectConnection
    BY <1>2 DEF RejectConnection, NoSocketLeak, TypeOK, Placed
  <1>3. CASE Register
    BY <1>3 DEF Register, FirstFree, NoSocketLeak, TypeOK, Placed, Client
  <1>4. CASE ShutdownServer
    BY <1>4 DEF ShutdownServer, NoSocketLeak, TypeOK, Placed
  <1>5. ASSUME NEW t \in Conns, Exit(t) PROVE NoSocketLeak'
    BY <1>5 DEF Exit, Receive, NoSocketLeak, TypeOK
  <1>6. ASSUME NEW t \in Threads, CleanClose(t) PROVE NoSocketLeak'
    BY <1>6 DEF CleanClose, Mine, NoSocketLeak, TypeOK, Client
  <1>7. CASE UNCHANGED <<fds, newfd>>
    <2>1. CASE UNCHANGED clients
      BY <1>7, <2>1 DEF NoSocketLeak
    <2>2. CASE Register \/ ShutdownServer
      BY <1>3, <1>4, <2>2
    <2>3. ASSUME NEW t \in Conns, CheckUsername(t) PROVE NoSocketLeak'
      <3>1. \A s \in Slots : /\ clients'[s].active = clients[s].active
                            /\ clients'[s].sock = clients[s].sock
        BY <2>3 DEF CheckUsername, TypeOK, Client
      <3>2. QED
        BY <1>7, <3>1 DEF NoSocketLeak
    <2>4. ASSUME NEW t \in Conns, JoinAdd(t) PROVE NoSocketLeak'
      BY <1>7, <2>4 DEF JoinAdd, NoSocketLeak, TypeOK, Client
    <2>5. ASSUME NEW t \in Threads, LeaveRoom(t) PROVE NoSocketLeak'
      BY <1>7, <2>5 DEF LeaveRoom, NoSocketLeak, TypeOK, Client
    <2>6. QED
      BY <1>6, <2>1, <2>2, <2>3, <2>4, <2>5, ClientChanges
  <1>8. QED
    BY <1>1, <1>2, <1>3, <1>4, <1>5, <1>6, <1>7, SocketChanges
-----------------------------------------------------------------------------
LEMMA ChatInvInit == Init => ChatInv
  <1> SUFFICES ASSUME Init PROVE ChatInv
    OBVIOUS
  <1> USE Numbers DEF Init
  <1>1. TypeOK
    BY ChatBounds DEF TypeOK, Client, Room, NoClient, NoRoom, Labels
  <1>2. Placed
    BY DEF Placed
  <1>3. UniqueUsernames /\ NoSocketLeak
    BY DEF UniqueUsernames, NoSocketLeak, NoClient
  <1>4. RoomsWellFormed
    <2>1. {n \in RoomNames : rooms[n].active} = {}
      BY DEF NoRoom
    <2>2. Cardinality({n \in RoomNames : rooms[n].active}) = 0
      BY <2>1, FS_EmptySet
    <2>3. QED
      BY <2>2, ChatBounds DEF RoomsWellFormed, NoRoom
  <1>5. QED
    BY <1>1, <1>2, <1>3, <1>4 DEF ChatInv

(* The inductive invariant of sessions and rooms holds in every reachable   *)
(* state (server.c:87-141, 166-370, 462-607, 660-712).                      *)
THEOREM ChatInvariant == Spec => []ChatInv
  <1>1. ChatInv /\ [Next]_vars => ChatInv'
    BY PlacedNext, UniqueNext, RoomsNext, SocketsNext DEF ChatInv
  <1>2. QED
    BY <1>1, ChatInvInit, PTL DEF Spec

(* Types, for every value of the constants. *)
THEOREM ChatTyped == Spec => []TypeOK
  <1>1. ChatInv => TypeOK
    BY DEF ChatInv
  <1>2. QED
    BY <1>1, ChatInvariant, PTL

(* However many clients log in, break and reuse entries at once, no two     *)
(* active ones share a user name (server.c:186-209).                        *)
THEOREM UsernamesUnique == Spec => []UniqueUsernames
  <1>1. ChatInv => UniqueUsernames
    BY DEF ChatInv
  <1>2. QED
    BY <1>1, ChatInvariant, PTL

(* A room is in use exactly while it has users, and MAX_ROOMS is kept       *)
(* (server.c:487-529, 583-607).                                             *)
THEOREM RoomsStayWellFormed == Spec => []RoomsWellFormed
  <1>1. ChatInv => RoomsWellFormed
    BY DEF ChatInv
  <1>2. QED
    BY <1>1, ChatInvariant, PTL

(* Every open socket belongs to an active entry or was just accepted        *)
(* (server.c:110-130, 675-683, 696-709).                                    *)
THEOREM SocketsNotLeaked == Spec => []NoSocketLeak
  <1>1. ChatInv => NoSocketLeak
    BY DEF ChatInv
  <1>2. QED
    BY <1>1, ChatInvariant, PTL
-----------------------------------------------------------------------------
(* What rooms and clients believe of each other agrees as long as nobody     *)
(* departs: no connection is lost, no /exit is sent, no thread start fails   *)
(* and no SIGINT comes.                                                      *)
NobodyDeparts == ~Departures /\ ~Interrupts /\ ~SpawnFailures /\ "exit" \notin Commands

Ended == {"cleanup", "cleanlock", "cleanclose", "done", "shutdown", "exited"}

(* Nothing is cleaned up. *)
NoCleanup ==
  /\ server_running /\ \A t \in Threads : pc[t] \notin Ended /\ leaveRet[t] # "cleanclose"
  /\ pc[Main] \in {"accept", "alloc", "spawn"}

(* A handler that runs has an active entry of its own. *)
Runs(t) == pc[t] # "none"
OwnEntries ==
  /\ \A t \in Conns : Runs(t) => clients[slot[t]].active
  /\ \A t, u \in Conns : Runs(t) /\ Runs(u) /\ slot[t] = slot[u] => t = u
  /\ pc[Main] = "spawn" =>
       clients[slot[Main]].active /\ \A t \in Conns : Runs(t) => slot[t] # slot[Main]

(* Its descriptor is open, and so is one that main has just accepted. *)
SocketsOpen ==
  /\ \A s \in Slots : clients[s].active => clients[s].sock \in Fds /\ fds[clients[s].sock] # NoConn
  /\ pc[Main] = "alloc" =>
       fds[newfd] # NoConn /\ \A s \in Slots : clients[s].active => clients[s].sock # newfd
  /\ \A t \in Conns : pc[t] \in {"recv", "loginrecv"} => peer[t] # NoConn

(* A handler that joins is in no room, one that leaves knows its own. *)
OwnRooms ==
  /\ \A s \in Slots : ~clients[s].active => clients[s].room = Empty
  /\ \A t \in Conns :
       /\ pc[t] = "joinadd" => clients[slot[t]].room = Empty
       /\ pc[t] = "leavelock" => room_name[t] = clients[slot[t]].room

Calm == NoCleanup /\ OwnEntries /\ SocketsOpen /\ OwnRooms /\ MembershipAgrees

(* A step in which handler t changes nothing that the others rely on. *)
Quietly(t, l) ==
  /\ Runs(t) /\ pc' = [pc EXCEPT ![t] = l] /\ l \in Labels \ (Ended \cup {"none"})
  /\ UNCHANGED <<rooms, fds, server_running, newfd, slot>>
  /\ \A s \in Slots : /\ clients'[s].active = clients[s].active /\ clients'[s].sock = clients[s].sock
                      /\ clients'[s].room = clients[s].room
  /\ \A u \in Conns : u # t => peer'[u] = peer[u] /\ room_name'[u] = room_name[u]
  /\ \A u \in Threads : leaveRet'[u] # "cleanclose"
  /\ l \in {"recv", "loginrecv"} => peer'[t] # NoConn
  /\ l = "joinadd" => clients[slot[t]].room = Empty
  /\ l = "leavelock" => room_name'[t] = clients[slot[t]].room

LEMMA QuietlyCalm ==
  ASSUME TypeOK, Placed, Calm, NEW t \in Conns, NEW l, Quietly(t, l)
  PROVE  Calm'
  <1> USE Numbers DEF Calm
  <1>1. /\ t \in Threads /\ pc'[t] = l /\ \A u \in Threads : u # t => pc'[u] = pc[u]
        /\ \A u \in Conns : u # Main /\ (Runs(u)' <=> Runs(u))
    BY DEF Quietly, TypeOK, Runs
  <1>2. slot[t] \in Slots /\ \A u \in Conns : Runs(u) => slot[u] \in Slots
    BY DEF Quietly, Placed, Runs
  <1>3. NoCleanup'
    BY <1>1 DEF Quietly, NoCleanup
  <1>4. OwnEntries'
    BY <1>1, <1>2 DEF Quietly, OwnEntries, Placed
  <1>5. SocketsOpen'
    BY <1>1 DEF Quietly, SocketsOpen
  <1>6. OwnRooms'
    BY <1>1, <1>2 DEF Quietly, OwnRooms, Runs
  <1>7. MembershipAgrees'
    BY DEF Quietly, MembershipAgrees
  <1>8. QED
    BY <1>3, <1>4, <1>5, <1>6, <1>7

(* The steps of a handler that change no rooms. *)
LEMMA HandlerQuietly ==
  ASSUME TypeOK, Placed, Calm, NEW t \in Conns,
         \/ AwaitUsername(t) \/ CheckUsername(t) \/ AwaitCommand(t) \/ JoinFull(t) \/ JoinRead(t)
         \/ JoinNoRoom(t) \/ LeaveRead(t) \/ BroadcastLock(t) \/ BroadcastFind(t)
         \/ BroadcastSend(t) \/ WhisperFind(t)
  PROVE  \E l \in Labels : Quietly(t, l)
  <1> USE Numbers DEF Calm, Mine
  <1>1. /\ t \in Threads /\ (Runs(t) => slot[t] \in Slots /\ clients[slot[t]].active)
        /\ server_running /\ \A u \in Threads : leaveRet[u] # "cleanclose"
        /\ (Runs(t) => fds[clients[slot[t]].sock] # NoConn)
    BY DEF NoCleanup, OwnEntries, SocketsOpen, Placed, Runs
  <1>2. CASE AwaitUsername(t)
    <2>1. Quietly(t, "loginrecv")
      BY <1>1, <1>2 DEF AwaitUsername, Quietly, Runs, Labels, Ended, TypeOK
    <2>2. QED
      BY <2>1 DEF Labels
  <1>3. CASE AwaitCommand(t)
    <2>1. Quietly(t, "recv")
      BY <1>1, <1>3 DEF AwaitCommand, Quietly, Runs, Labels, Ended, TypeOK
    <2>2. QED
      BY <2>1 DEF Labels
  <1>4. CASE CheckUsername(t)
    <2>1. PICK l \in {"login", "loop"} : pc' = [pc EXCEPT ![t] = l]
      BY <1>4 DEF CheckUsername
    <2>2. \A s \in Slots : /\ clients'[s].active = clients[s].active /\ clients'[s].sock = clients[s].sock
                          /\ clients'[s].room = clients[s].room
      BY SMTT(30), <1>4 DEF CheckUsername, TypeOK, Client
    <2>3. Quietly(t, l)
      BY <1>1, <1>4, <2>1, <2>2 DEF CheckUsername, Quietly, Runs, Labels, Ended
    <2>4. QED
      BY <2>1, <2>3 DEF Labels
  <1>5. CASE JoinFull(t)
    <2>1. PICK l \in {"loop", "joinread"} : pc' = [pc EXCEPT ![t] = l]
      BY <1>5 DEF JoinFull
    <2>2. Quietly(t, l)
      BY <1>1, <1>5, <2>1 DEF JoinFull, Quietly, Runs, Labels, Ended
    <2>3. QED
      BY <2>1, <2>2 DEF Labels
  <1>6. CASE JoinRead(t)
    <2>1. PICK l \in {"joinadd", "leave"} :
            /\ pc' = [pc EXCEPT ![t] = l]
            /\ l = "joinadd" => clients[slot[t]].room = Empty
      BY <1>6 DEF JoinRead
    <2>2. \A u \in Threads : leaveRet'[u] # "cleanclose"
      BY <1>1, <1>6 DEF JoinRead, TypeOK
    <2>3. /\ pc[t] = "joinread" /\ UNCHANGED <<clients, rooms, fds, server_running, newfd>>
          /\ UNCHANGED <<slot, peer, room_name>>
      BY <1>6 DEF JoinRead, At, shared, server
    <2>4. Runs(t) /\ l \in Labels \ (Ended \cup {"none"}) /\ l \notin {"recv", "loginrecv", "leavelock"}
      BY <2>1, <2>3 DEF Runs, Labels, Ended
    <2>5. Quietly(t, l)
      BY <2>1, <2>2, <2>3, <2>4 DEF Quietly
    <2>6. QED
      BY <2>4, <2>5
  <1>7. CASE JoinNoRoom(t) \/ BroadcastSend(t) \/ WhisperFind(t)
    <2>1. Quietly(t, "loop")
      BY <1>1, <1>7 DEF JoinNoRoom, BroadcastSend, WhisperFind, LockRooms, LockClients, Quietly, Runs,
                        Labels, Ended
    <2>2. QED
      BY <2>1 DEF Labels
  <1>8. CASE LeaveRead(t)
    <2>1. Quietly(t, "leavelock")
      BY <1>1, <1>8 DEF LeaveRead, Quietly, Runs, Labels, Ended, TypeOK
    <2>2. QED
      BY <2>1 DEF Labels
  <1>9. CASE BroadcastLock(t) \/ BroadcastFind(t)
    <2>1. PICK l \in {"bcastfind", "bcastsend", "loop"} : pc' = [pc EXCEPT ![t] = l]
      BY <1>9 DEF BroadcastLock, BroadcastFind
    <2>2. Quietly(t, l)
      BY <1>1, <1>9, <2>1 DEF BroadcastLock, BroadcastFind, Quietly, Runs, Labels, Ended
    <2>3. QED
      BY <2>1, <2>2 DEF Labels
  <1>10. QED
    BY <1>2, <1>3, <1>4, <1>5, <1>6, <1>7, <1>8, <1>9

(* The commands that arrive; no connection is lost. *)
LEMMA NetworkQuietly ==
  ASSUME NobodyDeparts, TypeOK, Placed, Calm, NEW t \in Conns, Network(t)
  PROVE  \E l \in Labels : Quietly(t, l)
  <1> USE Numbers DEF Calm, Mine
  <1>1. /\ t \in Threads /\ (pc[t] \in {"recv", "loginrecv"} => peer[t] # NoConn)
        /\ \A u \in Threads : leaveRet[u] # "cleanclose"
    BY DEF NoCleanup, SocketsOpen
  <1>2. ~Exit(t) /\ ~LoginLost(t) /\ ~ConnectionLost(t)
    BY <1>1 DEF NobodyDeparts, Exit, Receive, LoginLost, ConnectionLost
  <1>3. ASSUME NEW u \in Usernames, ReceiveUsername(t, u)
        PROVE  \E l \in Labels : Quietly(t, l)
    <2>1. Quietly(t, "loginlock")
      BY <1>1, <1>3 DEF ReceiveUsername, Quietly, Runs, Labels, Ended
    <2>2. QED
      BY <2>1 DEF Labels
  <1>4. ASSUME \/ \E u \in Usernames : Whisper(t, u)
               \/ \E n \in RoomNames : Join(t, n)
               \/ Leave(t) \/ Broadcast(t)
        PROVE  \E l \in Labels : Quietly(t, l)
    <2>1. PICK l \in {"loop", "whisper", "joinfull", "leave", "bcast"} : pc' = [pc EXCEPT ![t] = l]
      BY <1>4 DEF Whisper, Join, Leave, Broadcast
    <2>2. /\ pc[t] = "recv" /\ UNCHANGED <<clients, rooms, fds, server_running, newfd, slot, peer, room_name>>
      BY <1>4 DEF Whisper, Join, Leave, Broadcast, Receive
    <2>3. \A u \in Threads : leaveRet'[u] # "cleanclose"
      BY <1>1, <1>4 DEF Whisper, Join, Leave, Broadcast, TypeOK
    <2>4. Quietly(t, l)
      BY <1>1, <2>1, <2>2, <2>3 DEF Quietly, Runs, Labels, Ended
    <2>5. QED
      BY <2>1, <2>4 DEF Labels
  <1>5. QED
    BY <1>2, <1>3, <1>4 DEF Network

(* A handler enters a room: it was in none, so it has one entry now. *)
LEMMA JoinAddCalm ==
  ASSUME TypeOK, Placed, Calm, NEW t \in Conns, JoinAdd(t)
  PROVE  Calm'
  <1> USE Numbers DEF Calm
  <1>1. /\ t \in Threads /\ pc[t] = "joinadd" /\ pc' = [pc EXCEPT ![t] = "loop"]
        /\ UNCHANGED <<fds, server_running, newfd, slot, peer, room_name, leaveRet>>
    BY DEF JoinAdd, At, Goto, LockRooms, server, locals
  <1>2. /\ slot[t] \in Slots /\ name[t] \in RoomNames /\ clients[slot[t]].active
        /\ clients[slot[t]].room = Empty
        /\ \A u \in Conns : Runs(u) => slot[u] \in Slots /\ (u # t => slot[u] # slot[t])
    BY <1>1 DEF Placed, OwnEntries, OwnRooms, Runs
  <1>3. \A s \in Slots : /\ clients'[s].active = clients[s].active /\ clients'[s].sock = clients[s].sock
                        /\ clients'[s].room = IF s = slot[t] THEN name[t] ELSE clients[s].room
    BY <1>2 DEF JoinAdd, TypeOK, Client
  <1>4. \A n \in RoomNames, s \in Slots :
          rooms'[n].users[s] = IF n = name[t] /\ s = slot[t] THEN rooms[n].users[s] + 1
                               ELSE rooms[n].users[s]
    BY <1>2 DEF JoinAdd, With, TypeOK, Room
  <1>5. /\ pc'[t] = "loop" /\ \A u \in Threads : u # t => pc'[u] = pc[u]
        /\ \A u \in Conns : u # Main /\ (Runs(u)' <=> Runs(u))
    BY <1>1 DEF TypeOK, Runs
  <1>6. NoCleanup'
    BY <1>1, <1>5 DEF NoCleanup, Ended
  <1>7. OwnEntries'
    BY <1>1, <1>2, <1>3, <1>5 DEF OwnEntries, Placed
  <1>8. SocketsOpen'
    BY <1>1, <1>3, <1>5 DEF SocketsOpen
  <1>9. OwnRooms'
    BY <1>1, <1>2, <1>3, <1>5 DEF OwnRooms, Runs
  <1>10. MembershipAgrees'
    <2>1. \A n \in RoomNames : rooms[n].users[slot[t]] = 0
      BY <1>2, ChatNames DEF MembershipAgrees
    <2>2. QED
      BY <1>2, <1>3, <1>4, <2>1 DEF MembershipAgrees
  <1>11. QED
    BY <1>6, <1>7, <1>8, <1>9, <1>10

(* What leave_room does for a handler: its entry in its room goes, and the *)
(* room it read is the room it is in.                                      *)
LEMMA LeaveRoomLeaves ==
  ASSUME TypeOK, Placed, RoomsWellFormed, Calm, NEW t \in Conns, LeaveRoom(t)
  PROVE  /\ slot[t] \in Slots /\ room_name[t] = clients[slot[t]].room
         /\ \A s \in Slots : /\ clients'[s].active = clients[s].active
                             /\ clients'[s].sock = clients[s].sock
                             /\ clients'[s].room = IF s = slot[t] THEN Empty ELSE clients[s].room
         /\ \A n \in RoomNames, s \in Slots :
               rooms'[n].users[s] = IF n = room_name[t] /\ s = slot[t] THEN 0
                                    ELSE rooms[n].users[s]
  <1> USE Numbers DEF Calm
  <1>1. /\ slot[t] \in Slots /\ room_name[t] = clients[slot[t]].room
    BY DEF LeaveRoom, At, Placed, OwnRooms
  <1>2. \A s \in Slots : /\ clients'[s].active = clients[s].active
                        /\ clients'[s].sock = clients[s].sock
                        /\ clients'[s].room = IF s = slot[t] THEN Empty ELSE clients[s].room
    BY <1>1 DEF LeaveRoom, TypeOK, Client
  <1>3. \A n \in RoomNames, s \in Slots :
          rooms'[n].users[s] = IF n = room_name[t] /\ s = slot[t] THEN 0
                               ELSE rooms[n].users[s]
    <2>1. CASE room_name[t] \notin RoomNames
      <3>1. room_name[t] = Empty
        BY <2>1 DEF TypeOK
      <3>2. UNCHANGED rooms
        BY <3>1 DEF LeaveRoom
      <3>3. QED
        BY <2>1, <3>2
    <2>2. CASE room_name[t] \in RoomNames
      <3>1. rooms[room_name[t]].users[slot[t]] > 0
        BY <1>1, <2>2 DEF MembershipAgrees
      <3>2. rooms[room_name[t]].active /\ room_name[t] # Empty
        BY <1>1, <2>2, <3>1, ChatNames DEF RoomsWellFormed
      <3>3. rooms' = [rooms EXCEPT ![room_name[t]] =
                        [active |-> \E s \in Slots : Without(room_name[t], slot[t])[s] > 0,
                         users |-> Without(room_name[t], slot[t])]]
        BY <3>2 DEF LeaveRoom
      <3>4. \A n \in RoomNames : rooms'[n].users = IF n = room_name[t] THEN Without(n, slot[t])
                                                  ELSE rooms[n].users
        BY <2>2, <3>3 DEF TypeOK
      <3>5. \A n \in RoomNames : rooms[n].users \in [Slots -> Nat]
        BY DEF TypeOK, Room
      <3>6. ASSUME NEW n \in RoomNames, NEW s \in Slots
            PROVE  Without(n, slot[t])[s] = IF s = slot[t] THEN 0 ELSE rooms[n].users[s]
        BY <1>1, <3>5 DEF Without
      <3>7. QED
        BY <3>4, <3>6
    <2>3. QED
      BY <2>1, <2>2
  <1>4. QED
    BY <1>1, <1>2, <1>3

LEMMA LeaveRoomCalm ==
  ASSUME TypeOK, Placed, RoomsWellFormed, Calm, NEW t \in Conns, LeaveRoom(t)
  PROVE  Calm'
  <1> USE Numbers DEF Calm
  <1>1. PICK l \in {"loop", "joinadd"} : pc' = [pc EXCEPT ![t] = l]
    BY DEF LeaveRoom, Goto, NoCleanup, TypeOK
  <1>2. /\ t \in Threads /\ pc[t] = "leavelock"
        /\ UNCHANGED <<fds, server_running, newfd, slot, peer, room_name, leaveRet>>
    BY DEF LeaveRoom, At, LockRooms, server, locals
  <1>3. /\ clients[slot[t]].active
        /\ \A u \in Conns : Runs(u) => slot[u] \in Slots /\ (u # t => slot[u] # slot[t])
    BY <1>2 DEF Placed, OwnEntries, Runs
  <1>5. /\ pc'[t] = l /\ \A u \in Threads : u # t => pc'[u] = pc[u]
        /\ \A u \in Conns : u # Main /\ (Runs(u)' <=> Runs(u))
    BY <1>1, <1>2 DEF TypeOK, Runs
  <1>6. NoCleanup'
    BY <1>2, <1>5 DEF NoCleanup, Ended
  <1>7. OwnEntries'
    BY <1>2, <1>3, <1>5, LeaveRoomLeaves DEF OwnEntries, Placed
  <1>8. SocketsOpen'
    BY <1>2, <1>5, LeaveRoomLeaves DEF SocketsOpen
  <1>9. OwnRooms'
    BY <1>2, <1>3, <1>5, LeaveRoomLeaves DEF OwnRooms, Runs
  <1>10. MembershipAgrees'
    BY ChatNames, LeaveRoomLeaves DEF MembershipAgrees
  <1>11. QED
    BY <1>6, <1>7, <1>8, <1>9, <1>10

(* The accepting thread: an entry it gives away is free, so in no room. *)
LEMMA MainCalm ==
  ASSUME TypeOK, Placed, Calm, Accept \/ RejectConnection \/ Register \/ StartHandler
  PROVE  Calm'
  <1> USE Numbers DEF Calm
  <1>1. CASE Accept
    <2>1. PICK f \in Fds : /\ LowestFd(f) /\ fds' = [fds EXCEPT ![f] = accepted + 1]
                          /\ newfd' = f
      BY <1>1 DEF Accept
    <2>2. /\ pc[Main] = "accept" /\ pc' = [pc EXCEPT ![Main] = "alloc"]
          /\ UNCHANGED <<clients, rooms, server_running, slot, peer, room_name, leaveRet>>
      BY <1>1 DEF Accept, At, Goto, locals
    <2>3. pc'[Main] = "alloc" /\ \A u \in Conns : pc'[u] = pc[u] /\ (Runs(u)' <=> Runs(u))
      BY <2>2 DEF TypeOK, Runs
    <2>a. accepted + 1 # NoConn
      BY ChatBounds DEF TypeOK, NoConn
    <2>4. fds'[f] # NoConn /\ \A g \in Fds : g # f => fds'[g] = fds[g]
      BY <2>1, <2>a DEF TypeOK
    <2>5. \A s \in Slots : clients[s].active => clients[s].sock # f
      BY <2>1 DEF SocketsOpen, LowestFd
    <2>6. NoCleanup' /\ OwnEntries'
      BY <2>2, <2>3 DEF NoCleanup, OwnEntries, Ended
    <2>7. SocketsOpen'
      BY <2>1, <2>2, <2>3, <2>4, <2>5 DEF SocketsOpen
    <2>8. OwnRooms' /\ MembershipAgrees'
      BY <2>2, <2>3 DEF OwnRooms, MembershipAgrees
    <2>9. QED
      BY <2>6, <2>7, <2>8
  <1>2. CASE RejectConnection
    <2>1. /\ pc[Main] = "alloc" /\ pc' = [pc EXCEPT ![Main] = "accept"]
          /\ fds' = [fds EXCEPT ![newfd] = NoConn]
          /\ UNCHANGED <<clients, rooms, server_running, slot, peer, room_name, leaveRet>>
      BY <1>2 DEF RejectConnection, At, Goto, LockClients, locals
    <2>2. pc'[Main] = "accept" /\ \A u \in Conns : pc'[u] = pc[u] /\ (Runs(u)' <=> Runs(u))
      BY <2>1 DEF TypeOK, Runs
    <2>3. NoCleanup' /\ OwnEntries'
      BY <2>1, <2>2 DEF NoCleanup, OwnEntries, Ended
    <2>4. \A s \in Slots : clients[s].active => fds'[clients[s].sock] = fds[clients[s].sock]
      BY <2>1 DEF SocketsOpen, TypeOK
    <2>5. SocketsOpen'
      BY <2>1, <2>2, <2>4 DEF SocketsOpen
    <2>6. OwnRooms' /\ MembershipAgrees'
      BY <2>1, <2>2 DEF OwnRooms, MembershipAgrees
    <2>7. QED
      BY <2>3, <2>5, <2>6
  <1>3. CASE Register
    <2>1. PICK s \in Slots :
            /\ FirstFree(s)
            /\ clients' = [clients EXCEPT ![s] =
                             [@ EXCEPT !.active = TRUE, !.sock = newfd, !.user = Empty,
                                       !.room = Empty, !.thread = accepted]]
            /\ slot' = [slot EXCEPT ![Main] = s]
      BY <1>3 DEF Register
    <2>2. /\ pc[Main] = "alloc" /\ pc' = [pc EXCEPT ![Main] = "spawn"]
          /\ UNCHANGED <<rooms, fds, server_running, peer, room_name, leaveRet>>
      BY <1>3 DEF Register, At, Goto
    <2>3. /\ pc'[Main] = "spawn" /\ slot'[Main] = s
          /\ \A u \in Conns : pc'[u] = pc[u] /\ (Runs(u)' <=> Runs(u)) /\ slot'[u] = slot[u]
      BY <2>1, <2>2 DEF TypeOK, Runs
    <2>4. ~clients[s].active /\ clients[s].room = Empty /\ newfd \in Fds
      BY <2>1, <2>2 DEF FirstFree, OwnRooms, Placed, TypeOK
    <2>5. /\ clients'[s].active /\ clients'[s].sock = newfd /\ clients'[s].room = Empty
          /\ \A r \in Slots : r # s => clients'[r] = clients[r]
      BY <2>1 DEF TypeOK, Client
    <2>6. \A u \in Conns : Runs(u) => slot[u] \in Slots /\ slot[u] # s
      BY <2>4 DEF OwnEntries, Placed, Runs
    <2>7. NoCleanup'
      BY <2>2, <2>3 DEF NoCleanup, Ended
    <2>8. OwnEntries'
      BY <2>3, <2>5, <2>6 DEF OwnEntries
    <2>9. SocketsOpen'
      BY <2>2, <2>3, <2>4, <2>5 DEF SocketsOpen
    <2>10. OwnRooms'
      BY <2>2, <2>3, <2>5, <2>6 DEF OwnRooms, Runs
    <2>11. MembershipAgrees'
      BY <2>2, <2>4, <2>5 DEF MembershipAgrees
    <2>12. QED
      BY <2>7, <2>8, <2>9, <2>10, <2>11
  <1>4. CASE StartHandler
    <2>1. /\ pc[Main] = "spawn" /\ pc' = [pc EXCEPT ![Main] = "accept", ![accepted] = "login"]
          /\ slot' = [slot EXCEPT ![Main] = NoSlot, ![accepted] = slot[Main]]
          /\ UNCHANGED <<clients, rooms, fds, server_running, newfd, peer, room_name, leaveRet>>
      BY <1>4 DEF StartHandler, At, shared, server
    <2>2. accepted \in Conns /\ slot[Main] \in Slots
      BY <2>1 DEF Placed
    <2>3. /\ pc'[Main] = "accept" /\ pc'[accepted] = "login" /\ slot'[accepted] = slot[Main]
          /\ \A u \in Conns : u # accepted => /\ pc'[u] = pc[u] /\ slot'[u] = slot[u]
                                               /\ (Runs(u)' <=> Runs(u))
          /\ \A u \in Threads : u # accepted /\ u # Main => pc'[u] = pc[u]
      BY <2>1, <2>2 DEF TypeOK, Runs
    <2>4. NoCleanup'
      BY <2>1, <2>2, <2>3 DEF NoCleanup, Ended
    <2>5. OwnEntries'
      <3>1. \A u \in Conns :
              Runs(u)' => u = accepted \/ (Runs(u) /\ slot'[u] = slot[u] /\ slot[u] # slot[Main])
        <4>1. \A u \in Conns : Runs(u) => slot[u] # slot[Main]
          BY <2>1 DEF OwnEntries
        <4>2. QED
          BY <2>3, <4>1
      <3>2. \A u \in Conns : Runs(u)' => clients'[slot'[u]].active
        BY <2>1, <2>3, <3>1 DEF OwnEntries
      <3>3. \A u, v \in Conns : Runs(u)' /\ Runs(v)' /\ slot'[u] = slot'[v] => u = v
        BY <2>3, <3>1 DEF OwnEntries
      <3>4. QED
        BY <2>3, <3>2, <3>3 DEF OwnEntries
    <2>6. SocketsOpen'
      BY <2>1, <2>2, <2>3 DEF SocketsOpen
    <2>7. OwnRooms' /\ MembershipAgrees'
      <3>1. MembershipAgrees'
        BY <2>1 DEF MembershipAgrees
      <3>2. \A t \in Conns : pc'[t] \in {"joinadd", "leavelock"} => t # accepted /\ pc[t] = pc'[t] /\ slot'[t] = slot[t]
        BY <2>3
      <3>3. ASSUME NEW t \in Conns
            PROVE  /\ pc'[t] = "joinadd" => clients'[slot'[t]].room = Empty
                   /\ pc'[t] = "leavelock" => room_name'[t] = clients'[slot'[t]].room
        BY <2>1, <3>2 DEF OwnRooms
      <3>4. \A s \in Slots : ~clients'[s].active => clients'[s].room = Empty
        BY <2>1 DEF OwnRooms
      <3>5. QED
        BY <3>1, <3>3, <3>4 DEF OwnRooms
    <2>8. QED
      BY <2>4, <2>5, <2>6, <2>7
  <1>5. QED
    BY <1>1, <1>2, <1>3, <1>4

LEMMA CalmInit == Init => Calm
  <1> SUFFICES ASSUME Init PROVE Calm
    OBVIOUS
  <1> USE Numbers DEF Init
  <1>1. NoCleanup /\ OwnEntries
    BY DEF NoCleanup, OwnEntries, Runs, Ended
  <1>2. SocketsOpen /\ OwnRooms
    BY DEF SocketsOpen, OwnRooms, NoClient
  <1>3. MembershipAgrees
    BY ChatNames DEF MembershipAgrees, NoClient, NoRoom
  <1>4. QED
    BY <1>1, <1>2, <1>3 DEF Calm

(* While nobody departs, nothing is shut down and no entry is cleaned up. *)
LEMMA NobodyEnds ==
  ASSUME NobodyDeparts, Calm
  PROVE  /\ ~HandleSigint /\ ~SpawnFails /\ ~ShutdownServer /\ ~ProcessExit
         /\ ~LeaveRead(Main) /\ ~LeaveRoom(Main)
         /\ \A t \in Threads : ~CleanupStep(t)
  <1>1. /\ server_running /\ pc[Main] \in {"accept", "alloc", "spawn"}
        /\ \A t \in Threads : pc[t] \notin Ended
    BY DEF Calm, NoCleanup
  <1>2. ~HandleSigint /\ ~SpawnFails
    BY DEF NobodyDeparts, HandleSigint, SpawnFails
  <1>3. ~ShutdownServer /\ ~ProcessExit /\ ~LeaveRead(Main) /\ ~LeaveRoom(Main)
    BY <1>1 DEF ShutdownServer, ProcessExit, LeaveRead, LeaveRoom
  <1>4. \A t \in Threads : ~CleanupStep(t)
    BY <1>1 DEF CleanupStep, CleanCheck, CleanLock, CleanClose, Ended
  <1>5. QED
    BY <1>2, <1>3, <1>4

LEMMA CalmNext ==
  ASSUME NobodyDeparts, ChatInv, Calm, [Next]_vars
  PROVE  Calm'
  <1>1. TypeOK /\ Placed /\ RoomsWellFormed
    BY DEF ChatInv
  <1>2. CASE Accept \/ RejectConnection \/ Register \/ StartHandler
    BY <1>1, <1>2, MainCalm
  <1>3. ASSUME NEW t \in Conns, HandlerStep(t) PROVE Calm'
    BY <1>1, <1>3, HandlerQuietly, QuietlyCalm, JoinAddCalm, LeaveRoomCalm DEF HandlerStep
  <1>4. ASSUME NEW t \in Conns, Network(t) PROVE Calm'
    BY <1>1, <1>4, NetworkQuietly, QuietlyCalm
  <1>5. CASE UNCHANGED vars
    BY <1>5 DEF vars, Calm, NoCleanup, OwnEntries, SocketsOpen, OwnRooms, MembershipAgrees, Runs
  <1>6. QED
    BY <1>2, <1>3, <1>4, <1>5, NobodyEnds, Numbers DEF Next, MainStep, Quiet

(* As long as nobody departs, a handler acts for an entry of its own, reads *)
(* an open socket, and the rooms hold what the clients believe              *)
(* (server.c:110-141, 166-370, 462-529, 571-607).                           *)
THEOREM CalmInvariant ==
  ASSUME NobodyDeparts
  PROVE  Spec => [](ChatInv /\ Calm)
  <1>1. Init => ChatInv /\ Calm
    BY ChatInvInit, CalmInit
  <1>2. ChatInv /\ Calm /\ [Next]_vars => (ChatInv /\ Calm)'
    BY CalmNext, PlacedNext, UniqueNext, RoomsNext, SocketsNext DEF ChatInv
  <1>3. QED
    BY <1>1, <1>2, PTL DEF Spec

(* A client has one entry in users[] of its current room and none in any    *)
(* other, through every interleaving of joins, moves and leaves             *)
(* (server.c:462-529, 571-607).                                             *)
THEOREM RoomsAgree ==
  ASSUME NobodyDeparts
  PROVE  Spec => []MembershipAgrees
  <1>1. ChatInv /\ Calm => MembershipAgrees
    BY DEF Calm
  <1>2. QED
    BY <1>1, CalmInvariant, PTL
-----------------------------------------------------------------------------
(* The rooms as a directory. *)
LEMMA MembersAre ==
  ASSUME TypeOK, MembershipAgrees, NEW s \in Slots
  PROVE  MemberOf(s) = clients[s].room
  <1>1. clients[s].room \in RoomNames \cup {Empty}
    BY DEF TypeOK, Client
  <1>2. \A n \in RoomNames : rooms[n].users[s] > 0 <=> clients[s].room = n
    BY DEF MembershipAgrees
  <1>3. QED
    BY <1>1, <1>2, ChatNames DEF MemberOf

(* A room is open in the directory when it is in use. *)
LEMMA OpenAre ==
  ASSUME TypeOK, RoomsWellFormed, MembershipAgrees
  PROVE  Directory!Open = {n \in RoomNames : rooms[n].active}
  <1>1. \A s \in Slots : clients[s].room \in RoomNames \cup {Empty}
    BY DEF TypeOK, Client
  <1>2. \A n \in RoomNames : rooms[n].active <=> \E s \in Slots : clients[s].room = n
    BY DEF RoomsWellFormed, MembershipAgrees
  <1>3. Directory!Open = {clients[s].room : s \in Slots} \ {Empty}
    BY MembersAre DEF Directory!Open
  <1>4. QED
    BY <1>1, <1>2, <1>3, ChatNames

LEMMA StepImplements ==
  ASSUME NobodyDeparts, ChatInv, Calm, ChatInv', Calm', [Next]_vars
  PROVE  [Directory!Next]_[s \in Slots |-> MemberOf(s)]
  <1> DEFINE member == [s \in Slots |-> MemberOf(s)]
  <1>1. /\ TypeOK /\ Placed /\ RoomsWellFormed /\ MembershipAgrees /\ OwnRooms
        /\ TypeOK' /\ MembershipAgrees'
    BY DEF ChatInv, Calm
  <1>2. member = [s \in Slots |-> clients[s].room]
    BY <1>1, MembersAre
  <1>3. member' = [s \in Slots |-> clients'[s].room]
    <2>1. \A s \in Slots : clients'[s].room \in RoomNames \cup {Empty}
      BY <1>1 DEF TypeOK, Client
    <2>2. \A s \in Slots, n \in RoomNames : rooms'[n].users[s] > 0 <=> clients'[s].room = n
      BY <1>1 DEF MembershipAgrees
    <2>3. ASSUME NEW s \in Slots PROVE MemberOf(s)' = clients'[s].room
      BY <2>1, <2>2, ChatNames DEF MemberOf
    <2>4. QED
      BY <2>3
  <1>4. CASE UNCHANGED rooms
    BY <1>4 DEF MemberOf
  <1>5. ASSUME NEW t \in Conns, JoinAdd(t) PROVE [Directory!Next]_member
    <2>1. slot[t] \in Slots /\ name[t] \in RoomNames /\ clients[slot[t]].room = Empty
      BY <1>1, <1>5, Numbers DEF JoinAdd, Placed, OwnRooms
    <2>2. \/ name[t] \in Directory!Open
          \/ Directory!Cardinality(Directory!Open) < MaxRooms
      <3>1. \A S : Directory!Cardinality(S) = Cardinality(S)
        BY DEF Directory!Cardinality, Cardinality
      <3>2. QED
        BY <1>1, <1>5, <2>1, <3>1, OpenAre DEF JoinAdd
    <2>3. \A s \in Slots : clients'[s].room = IF s = slot[t] THEN name[t] ELSE clients[s].room
      BY <1>1, <1>5, <2>1 DEF JoinAdd, TypeOK, Client
    <2>4. member[slot[t]] = Empty /\ member' = [member EXCEPT ![slot[t]] = name[t]]
      BY <1>2, <1>3, <2>1, <2>3
    <2>5. Directory!Enter(slot[t], name[t])
      BY <2>2, <2>4 DEF Directory!Enter
    <2>6. QED
      BY <2>1, <2>5 DEF Directory!Next
  <1>6. ASSUME NEW t \in Conns, LeaveRoom(t) PROVE [Directory!Next]_member
    <2>1. /\ slot[t] \in Slots
          /\ \A s \in Slots : clients'[s].room = IF s = slot[t] THEN Empty ELSE clients[s].room
      BY <1>1, <1>6, LeaveRoomLeaves
    <2>2. member' = [member EXCEPT ![slot[t]] = Empty]
      <3>1. member' = [s \in Slots |-> IF s = slot[t] THEN Empty ELSE clients[s].room]
        BY <1>3, <2>1
      <3>2. QED
        BY <1>2, <2>1, <3>1
    <2>3. CASE member[slot[t]] = Empty
      <3>1. UNCHANGED member
        BY <1>2, <1>3, <2>1, <2>3
      <3>2. QED
        BY <3>1
    <2>4. CASE member[slot[t]] # Empty
      <3>1. Directory!Depart(slot[t])
        BY <2>2, <2>4 DEF Directory!Depart
      <3>2. QED
        BY <2>1, <3>1 DEF Directory!Next
    <2>5. QED
      BY <2>3, <2>4
  <1>7. QED
    BY <1>4, <1>5, <1>6, RoomChanges, NobodyEnds DEF Threads

(* The rooms behave as the directory: a client enters a room from outside   *)
(* all of them, a room is open while somebody is in it, and no more than    *)
(* MAX_ROOMS are open (server.c:449-529, 583-607).                          *)
THEOREM RoomsImplementDirectory ==
  ASSUME NobodyDeparts
  PROVE  Spec => ImplementsDirectory
  <1>1. Init => Directory!Init
    BY ChatNames DEF Init, Directory!Init, MemberOf, NoRoom
  <1>2. /\ ChatInv /\ Calm /\ (ChatInv /\ Calm)' /\ [Next]_vars
        => [Directory!Next]_[s \in Slots |-> MemberOf(s)]
    BY StepImplements
  <1>3. QED
    BY <1>1, <1>2, CalmInvariant, PTL DEF Spec, ImplementsDirectory, Directory!Spec
=============================================================================
