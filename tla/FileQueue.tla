------------------------------ MODULE FileQueue ------------------------------
(***************************************************************************)
(* The file transfer queue of the chat server                              *)
(* (System Programming/Final/Final Project/server/server.c).               *)
(*                                                                         *)
(* Handlers put requests into the ring buffer file_queue[], the processor  *)
(* thread takes them out; the semaphores empty_slots and filled_slots      *)
(* count its free and used entries.  Each critical section of queue_mutex  *)
(* is one step, since file_queue[], its indexes and queue_size are touched *)
(* nowhere else; each semaphore operation is a step of its own.            *)
(*                                                                         *)
(* A request holds pointers into clients[].  Entries of clients[] are      *)
(* reused, so each connection has a number, and a request also carries the *)
(* connections it was made from and for; the code keeps neither.  Login,   *)
(* cleanup and rooms are the subject of module ChatServer.                 *)
(***************************************************************************)
EXTENDS Integers, Sequences, FiniteSets

CONSTANTS
  Slots,          (* entries of clients[] that are ever used                *)
  MaxSessions,    (* bound: connections ever made                           *)
  MaxFileQueue,   (* MAX_FILE_QUEUE                                         *)
  MaxReceived,    (* MAX_RECEIVED_FILES                                     *)
  Files,          (* names of the files that are sent                       *)
  NoRequest,      (* no request                                             *)
  Interrupts      (* whether SIGINT may arrive                              *)

ASSUME QueueBounds ==
  /\ MaxFileQueue \in Nat \ {0}
  /\ MaxSessions \in Nat /\ MaxReceived \in Nat
  /\ IsFiniteSet(Slots)
  /\ Interrupts \in BOOLEAN

Sessions == 1 .. MaxSessions
Request  == [sender: Slots, receiver: Slots, file: Files,
             from: Sessions, to: Sessions]
ASSUME NoRequestIsNone == NoRequest \notin Request

Index == 0 .. MaxFileQueue - 1

VARIABLES
  session,          (* the connection using each entry of clients[], or 0   *)
  connected,        (* connections made so far                              *)
  received_files,   (* received_files[] of each entry, the names in it      *)
  file_queue, queue_head, queue_tail, queue_size,
  empty_slots, filled_slots,
  server_running,
  pc,               (* the handler of each entry, within handle_file_transfer *)
  req,              (* its request                                          *)
  proc,             (* the processor thread                                 *)
  request,          (* its copy of the request it transfers                 *)
  main              (* the main thread, within shutdown_server              *)

ring       == <<file_queue, queue_head, queue_tail, queue_size>>
semaphores == <<empty_slots, filled_slots>>
sessions   == <<session, connected, received_files>>
handlers   == <<pc, req>>
processor  == <<proc, request>>
vars == <<sessions, ring, semaphores, server_running, handlers, processor, main>>
-----------------------------------------------------------------------------
Entry == [active: BOOLEAN, r: Request \cup {NoRequest}]

TypeOK ==
  /\ session \in [Slots -> Sessions \cup {0}]
  /\ connected \in 0 .. MaxSessions
  /\ received_files \in [Slots -> SUBSET Files]
  /\ file_queue \in [Index -> Entry]
  /\ queue_head \in Index /\ queue_tail \in Index
  /\ queue_size \in 0 .. MaxFileQueue
  /\ empty_slots \in 0 .. MaxFileQueue
  /\ filled_slots \in Nat
  /\ server_running \in BOOLEAN
  /\ pc \in [Slots -> {"offline", "loop", "trywait", "timedwait", "enqueue", "post"}]
  /\ req \in [Slots -> Request \cup {NoRequest}]
  /\ proc \in {"loop", "wait", "check", "dequeue", "post", "start", "deliver", "done"}
  /\ request \in Request \cup {NoRequest}
  /\ main \in {"accept", "join", "deactivate", "exited"}

Init ==
  /\ session = [s \in Slots |-> 0]
  /\ connected = 0
  /\ received_files = [s \in Slots |-> {}]
  /\ file_queue = [i \in Index |-> [active |-> FALSE, r |-> NoRequest]]
  /\ queue_head = 0 /\ queue_tail = 0 /\ queue_size = 0
  /\ empty_slots = MaxFileQueue /\ filled_slots = 0
  /\ server_running = TRUE
  /\ pc = [s \in Slots |-> "offline"]
  /\ req = [s \in Slots |-> NoRequest]
  /\ proc = "loop" /\ request = NoRequest
  /\ main = "accept"
-----------------------------------------------------------------------------
(* A thread whose process has exited takes no step. *)
At(s, l)   == pc[s] = l /\ main # "exited"
Goto(s, l) == pc' = [pc EXCEPT ![s] = l]
ProcAt(l)  == proc = l /\ main # "exited"
-----------------------------------------------------------------------------
(* Faulty variants of the operations below, one for each property that the  *)
(* passing run checks; none of them is part of the specification.           *)

(* TimedOut that goes on to queue the request. *)
TimedOutEnqueues(s) ==
  /\ At(s, "timedwait")
  /\ empty_slots = 0
  /\ Goto(s, "enqueue")
  /\ UNCHANGED <<sessions, ring, semaphores, server_running, req, processor, main>>

(* TimedOut that tries again instead of giving up. *)
TimedOutRetries(s) ==
  /\ At(s, "timedwait")
  /\ empty_slots = 0
  /\ Goto(s, "trywait")
  /\ UNCHANGED <<sessions, ring, semaphores, server_running, req, processor, main>>

(* PostFilled without the sem_post. *)
PostNothing(s) ==
  /\ At(s, "post")
  /\ Goto(s, "loop")
  /\ UNCHANGED <<sessions, ring, semaphores, server_running, req, processor, main>>

(* CheckRunning without the test of server_running. *)
CheckNothing ==
  /\ ProcAt("check")
  /\ proc' = "dequeue"
  /\ UNCHANGED <<sessions, ring, semaphores, server_running, handlers, request, main>>

(* Dequeue that does not lower queue_size. *)
DequeueUncounted ==
  /\ ProcAt("dequeue")
  /\ request' = file_queue[queue_head].r
  /\ file_queue' = [file_queue EXCEPT ![queue_head].active = FALSE]
  /\ queue_head' = (queue_head + 1) % MaxFileQueue
  /\ proc' = "post"
  /\ UNCHANGED <<sessions, queue_tail, queue_size, semaphores, server_running, handlers,
                 main>>

(* Dequeue that leaves the entry active. *)
DequeueActive ==
  /\ ProcAt("dequeue")
  /\ request' = file_queue[queue_head].r
  /\ queue_head' = (queue_head + 1) % MaxFileQueue
  /\ queue_size' = queue_size - 1
  /\ proc' = "post"
  /\ UNCHANGED <<sessions, file_queue, queue_tail, semaphores, server_running, handlers,
                 main>>

(* Dequeue that takes the request queued last. *)
DequeueLast ==
  /\ ProcAt("dequeue")
  /\ queue_tail' = (queue_tail - 1) % MaxFileQueue
  /\ request' = file_queue[queue_tail'].r
  /\ file_queue' = [file_queue EXCEPT ![queue_tail'].active = FALSE]
  /\ queue_size' = queue_size - 1
  /\ proc' = "post"
  /\ UNCHANGED <<sessions, queue_head, semaphores, server_running, handlers, main>>

(* WakeProcessor without the sem_post. *)
WakeNobody ==
  /\ main = "accept" /\ ~server_running
  /\ main' = "join"
  /\ UNCHANGED <<sessions, ring, semaphores, server_running, handlers, processor>>
-----------------------------------------------------------------------------
(* The handlers. *)

(* A connection gets a free entry; received_files[] is not reset. *)
Connect(s) ==
  /\ main = "accept" /\ server_running
  /\ At(s, "offline") /\ session[s] = 0
  /\ connected < MaxSessions
  /\ connected' = connected + 1
  /\ session' = [session EXCEPT ![s] = connected + 1]
  /\ Goto(s, "loop")
  /\ UNCHANGED <<received_files, ring, semaphores, server_running, req, processor, main>>

(* The handler leaves its loop and frees the entry. *)
Disconnect(s) ==
  /\ At(s, "loop")
  /\ session' = [session EXCEPT ![s] = 0]
  /\ Goto(s, "offline")
  /\ UNCHANGED <<connected, received_files, ring, semaphores, server_running, req,
                 processor, main>>

(* /sendfile, past its checks: not to oneself, size and extension accepted, *)
(* and the receiver found among the active clients.                         *)
HandleFileTransfer(s, r, f) ==
  /\ At(s, "loop")
  /\ session[s] # 0
  /\ r # s /\ session[r] # 0
  /\ req' = [req EXCEPT ![s] = [sender |-> s, receiver |-> r, file |-> f,
                                from |-> session[s], to |-> session[r]]]
  /\ Goto(s, "trywait")
  /\ UNCHANGED <<sessions, ring, semaphores, server_running, processor, main>>

(* sem_trywait(&empty_slots); if it fails the sender is told FILE_QUEUE_FULL. *)
TryWait(s) ==
  /\ At(s, "trywait")
  /\ IF empty_slots > 0
     THEN empty_slots' = empty_slots - 1 /\ Goto(s, "enqueue")
     ELSE UNCHANGED empty_slots /\ Goto(s, "timedwait")
  /\ UNCHANGED <<sessions, ring, filled_slots, server_running, req, processor, main>>

(* sem_timedwait(&empty_slots) gets an entry in time. *)
TimedWait(s) ==
  /\ At(s, "timedwait")
  /\ empty_slots > 0
  /\ empty_slots' = empty_slots - 1
  /\ Goto(s, "enqueue")
  /\ UNCHANGED <<sessions, ring, filled_slots, server_running, req, processor, main>>

(* sem_timedwait times out: FILE_QUEUE_STILL_FULL, the request is dropped. *)
TimedOut(s) ==
  /\ At(s, "timedwait")
  /\ empty_slots = 0
  /\ req' = [req EXCEPT ![s] = NoRequest]
  /\ Goto(s, "loop")
  /\ UNCHANGED <<sessions, ring, semaphores, server_running, processor, main>>

(* Under queue_mutex the request is written at the tail. *)
Enqueue(s) ==
  /\ At(s, "enqueue")
  /\ file_queue' = [file_queue EXCEPT ![queue_tail] = [active |-> TRUE, r |-> req[s]]]
  /\ queue_tail' = (queue_tail + 1) % MaxFileQueue
  /\ queue_size' = queue_size + 1
  /\ req' = [req EXCEPT ![s] = NoRequest]
  /\ Goto(s, "post")
  /\ UNCHANGED <<sessions, queue_head, semaphores, server_running, processor, main>>

(* sem_post(&filled_slots), and back to the command loop. *)
PostFilled(s) ==
  /\ At(s, "post")
  /\ filled_slots' = filled_slots + 1
  /\ Goto(s, "loop")
  /\ UNCHANGED <<sessions, ring, empty_slots, server_running, req, processor, main>>
-----------------------------------------------------------------------------
(* file_queue_processor. *)

(* while(server_running) *)
ProcLoop ==
  /\ ProcAt("loop")
  /\ proc' = IF server_running THEN "wait" ELSE "done"
  /\ UNCHANGED <<sessions, ring, semaphores, server_running, handlers, request, main>>

(* sem_wait(&filled_slots) *)
WaitFilled ==
  /\ ProcAt("wait")
  /\ filled_slots > 0
  /\ filled_slots' = filled_slots - 1
  /\ proc' = "check"
  /\ UNCHANGED <<sessions, ring, empty_slots, server_running, handlers, request, main>>

(* if(!server_running) break *)
CheckRunning ==
  /\ ProcAt("check")
  /\ proc' = IF server_running THEN "dequeue" ELSE "done"
  /\ UNCHANGED <<sessions, ring, semaphores, server_running, handlers, request, main>>

(* Under queue_mutex the request at the head is copied out. *)
Dequeue ==
  /\ ProcAt("dequeue")
  /\ request' = file_queue[queue_head].r
  /\ file_queue' = [file_queue EXCEPT ![queue_head].active = FALSE]
  /\ queue_head' = (queue_head + 1) % MaxFileQueue
  /\ queue_size' = queue_size - 1
  /\ proc' = "post"
  /\ UNCHANGED <<sessions, queue_tail, semaphores, server_running, handlers, main>>

(* sem_post(&empty_slots) *)
PostEmpty ==
  /\ ProcAt("post")
  /\ empty_slots' = empty_slots + 1
  /\ proc' = "start"
  /\ UNCHANGED <<sessions, ring, filled_slots, server_running, handlers, request, main>>

(* FILE_TRANSFER_STARTED goes to the sender's entry; then sleep(3). *)
StartTransfer ==
  /\ ProcAt("start")
  /\ proc' = "deliver"
  /\ UNCHANGED <<sessions, ring, semaphores, server_running, handlers, request, main>>

(* The file is recorded in the receiver's entry unless the list has its name *)
(* (file_exists_for_receiver) or is full (add_file_to_receiver); either way, *)
(* the users of both entries are told that it was received.                  *)
Deliver ==
  /\ ProcAt("deliver")
  /\ LET r == request.receiver
     IN  received_files' =
           IF Cardinality(received_files[r]) >= MaxReceived
           THEN received_files
           ELSE [received_files EXCEPT ![r] = @ \cup {request.file}]
  /\ request' = NoRequest
  /\ proc' = "loop"
  /\ UNCHANGED <<session, connected, ring, semaphores, server_running, handlers, main>>
-----------------------------------------------------------------------------
(* SIGINT and shutdown_server. *)
HandleSigint ==
  /\ Interrupts /\ server_running /\ main # "exited"
  /\ server_running' = FALSE
  /\ UNCHANGED <<sessions, ring, semaphores, handlers, processor, main>>

(* The processor is woken with one more sem_post(&filled_slots). *)
WakeProcessor ==
  /\ main = "accept" /\ ~server_running
  /\ filled_slots' = filled_slots + 1
  /\ main' = "join"
  /\ UNCHANGED <<sessions, ring, empty_slots, server_running, handlers, processor>>

(* pthread_join; sem_destroy, which changes nothing in glibc. *)
JoinProcessor ==
  /\ main = "join" /\ proc = "done"
  /\ main' = "deactivate"
  /\ UNCHANGED <<sessions, ring, semaphores, server_running, handlers, processor>>

(* Every client is closed and the process exits. *)
DeactivateClients ==
  /\ main = "deactivate"
  /\ session' = [s \in Slots |-> 0]
  /\ main' = "exited"
  /\ UNCHANGED <<connected, received_files, ring, semaphores, server_running, handlers,
                 processor>>
-----------------------------------------------------------------------------
SenderStep(s) ==
  \/ TryWait(s) \/ TimedWait(s) \/ TimedOut(s) \/ Enqueue(s) \/ PostFilled(s)

ProcessorStep ==
  \/ ProcLoop \/ WaitFilled \/ CheckRunning \/ Dequeue \/ PostEmpty
  \/ StartTransfer \/ Deliver

ShutdownStep == WakeProcessor \/ JoinProcessor \/ DeactivateClients

(* No client is left and none comes, and the processor waits for work; or   *)
(* the process has exited.                                                  *)
Quiet ==
  /\ \/ main = "exited"
     \/ /\ main = "accept" /\ server_running
        /\ connected = MaxSessions /\ \A s \in Slots : pc[s] = "offline"
        /\ proc = "wait" /\ filled_slots = 0
  /\ UNCHANGED vars

Next ==
  \/ \E s \in Slots :
       \/ Connect(s) \/ Disconnect(s) \/ SenderStep(s)
       \/ \E r \in Slots, f \in Files : HandleFileTransfer(s, r, f)
  \/ ProcessorStep
  \/ HandleSigint \/ ShutdownStep
  \/ Quiet

Spec == Init /\ [][Next]_vars

(* Threads that can run keep running, and a timed wait ends in time.  What *)
(* clients do, and SIGINT, may never happen.                               *)
Fairness ==
  /\ \A s \in Slots : WF_vars(SenderStep(s))
  /\ WF_vars(ProcessorStep)
  /\ WF_vars(ShutdownStep)

FairSpec == Spec /\ Fairness
-----------------------------------------------------------------------------
(* Properties. *)

Senders(l) == {s \in Slots : pc[s] = l}
One(b)     == IF b THEN 1 ELSE 0

(* The semaphores and the ring agree at every moment: each of the ring's    *)
(* entries is either free, used, or about to be filled or released by some  *)
(* thread between its semaphore operation and its critical section          *)
(* (server.c:779-865).  filled_slots counts the used entries nobody is      *)
(* taking, plus the wake-up of shutdown_server (server.c:665).              *)
PermitsConserved ==
  /\ empty_slots + queue_size + Cardinality(Senders("enqueue")) + One(proc = "post")
       = MaxFileQueue
  /\ proc # "done" =>
       filled_slots + Cardinality(Senders("post")) + One(proc \in {"check", "dequeue"})
         = queue_size + One(main # "accept")

(* The active entries are the queue_size entries from queue_head on, and    *)
(* queue_tail is behind them, wherever the ring has wrapped                 *)
(* (server.c:793-798, 838-849).                                             *)
RingConsistent ==
  /\ queue_tail = (queue_head + queue_size) % MaxFileQueue
  /\ \A i \in Index :
       file_queue[i].active <=> (i - queue_head) % MaxFileQueue < queue_size

(* A request that waits in the queue is never overwritten, and the          *)
(* processor never takes an entry that holds no request, not even when      *)
(* SIGINT and the extra post race with its test of server_running           *)
(* (server.c:784-798, 838-845).                                             *)
NothingLost ==
  /\ Senders("enqueue") # {} => ~file_queue[queue_tail].active
  /\ proc = "dequeue" => file_queue[queue_head].active

(* Requests are where the threads expect them: with the sender that submits *)
(* one, in the active entries, and with the processor while it transfers.   *)
RequestsPresent ==
  /\ \A s \in Slots : pc[s] \in {"trywait", "timedwait", "enqueue"} => req[s] \in Request
  /\ \A i \in Index : file_queue[i].active => file_queue[i].r \in Request
  /\ IF proc \in {"post", "start", "deliver"} THEN request \in Request
                                              ELSE request = NoRequest

(* The processor only gets to its critical section with a permit that       *)
(* stands for a request; the wake-up of shutdown_server comes after         *)
(* server_running is cleared.                                               *)
PermitIsRequest ==
  /\ proc = "dequeue" => queue_size > 0
  /\ main # "accept" => ~server_running

(* The inductive invariant of the queue. *)
QueueInv ==
  TypeOK /\ PermitsConserved /\ RingConsistent /\ RequestsPresent /\ PermitIsRequest

(* The requests that wait, oldest first. *)
Waiting == [i \in 1 .. queue_size |-> file_queue[(queue_head + i - 1) % MaxFileQueue].r]

(* The queue behaves as the bounded first-in first-out queue of             *)
(* TransferQueue (server.c:779-865).                                        *)
Fifo == INSTANCE TransferQueue
          WITH Requests <- Request, waiting <- Waiting, current <- request
ImplementsFifo == Fifo!Spec

(* Every request that gets into the queue is eventually transferred, unless *)
(* the server is shut down (server.c:779-810).                              *)
QueuedIsTransferred ==
  \A r \in {q \in Request : q.sender # q.receiver /\ q.from # q.to} :
    (\E i \in Index : file_queue[i].active /\ file_queue[i].r = r)
      ~> (request = r \/ ~server_running)

(* A sender is never stuck: it gets an entry or times out, and is back in   *)
(* its command loop (server.c:812-865).                                     *)
SendersReturn ==
  \A s \in Slots : pc[s] = "trywait" ~> pc[s] \in {"loop", "offline"} \/ main = "exited"

(* After SIGINT the processor is woken and ends, so that shutdown_server    *)
(* gets past its join, wherever the signal found it (server.c:660-686).     *)
ShutdownCompletes == ~server_running ~> main = "exited"

(* A file is delivered to the client it was sent to, or, if that client has *)
(* gone, to nobody (server.c:911).                                          *)
DeliveredToAddressee ==
  [][Deliver => session[request.receiver] \in {0, request.to}]_vars
=============================================================================
