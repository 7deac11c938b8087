------------------------------ MODULE LogSearch ------------------------------
(***************************************************************************)
(* The multithreaded log search (System Programming/HW4/HW4/main.c and     *)
(* buffer.c): a manager thread reads the lines of a log file into a        *)
(* bounded buffer, worker threads take them out and count the occurrences  *)
(* of a term, and a barrier separates counting from the total.             *)
(*                                                                         *)
(* The buffer is a monitor: its mutex is held in no step but buffer_put,   *)
(* buffer_get and buffer_set_eof, which lock nothing else, so each pass    *)
(* from locking it to unlocking it or waiting is one step, and its two     *)
(* condition variables are the sets of threads that wait.  running_mutex   *)
(* is explicit, because a SIGINT handler takes it in whatever thread the   *)
(* signal interrupts.                                                      *)
(***************************************************************************)
EXTENDS Integers, FiniteSets

CONSTANTS
  Capacity,         (* buffer_size                                           *)
  NumWorkers,       (* num_workers                                           *)
  NumLines,         (* bound: the lines read_line finds in the log file      *)
  Matches,          (* occurrences of the term in each line                  *)
  Interrupts,       (* the threads that SIGINT may interrupt (it comes once) *)
  SpawnFailures     (* whether pthread_create may fail for a worker          *)

ASSUME SearchBounds ==
  /\ Capacity \in Nat \ {0} /\ NumWorkers \in Nat \ {0} /\ NumLines \in Nat
  /\ Matches \in [1 .. NumLines -> Nat]
  /\ SpawnFailures \in BOOLEAN

Main    == -1
Manager == 0
Workers == 1 .. NumWorkers
Threads == {Main, Manager} \cup Workers
Nobody  == -2            (* an unlocked mutex; no interrupted thread         *)
Index   == 0 .. Capacity - 1

VARIABLES
  lines, head, tail, size, eof,     (* the Buffer                            *)
  not_full, not_empty,              (* threads waiting on its conditions     *)
  running, running_mutex,           (* the flag; the thread that holds it    *)
  still_running,                    (* each thread's copy                    *)
  interrupted,                      (* the thread in the SIGINT handler      *)
  signals,                          (* SIGINTs so far                        *)
  pc,
  next,                             (* the number of lines read so far       *)
  local_matches, matches, total     (* counts; total is -1 until printed     *)

ring   == <<lines, head, tail, size, eof>>
waits  == <<not_full, not_empty>>
flag   == <<running, running_mutex, still_running>>
signal == <<interrupted, signals>>
counts == <<local_matches, matches, total>>
vars   == <<ring, waits, flag, signal, pc, next, counts>>
-----------------------------------------------------------------------------
MainPlaces    == {"manager", "spawn", "stop", "joinmanager", "joinworkers", "exited"}
ManagerPlaces == {"none", "open", "check", "checked", "read", "put", "eof", "done"}
WorkerPlaces  == {"none", "check", "checked", "get", "barrier", "report", "total", "done"}
Places        == MainPlaces \cup ManagerPlaces \cup WorkerPlaces

(* What total may be is said by TotalComplete. *)
TypeOK ==
  /\ lines \in [Index -> 0 .. NumLines]
  /\ head \in Index /\ tail \in Index /\ size \in 0 .. Capacity
  /\ eof \in BOOLEAN
  /\ not_full \subseteq {Manager} /\ not_empty \subseteq Workers
  /\ running \in BOOLEAN
  /\ running_mutex \in Threads \cup {Nobody}
  /\ still_running \in [Threads -> BOOLEAN]
  /\ interrupted \in Threads \cup {Nobody}
  /\ signals \in 0 .. 1
  /\ pc \in [Threads -> Places]
  /\ pc[Main] \in MainPlaces /\ pc[Manager] \in ManagerPlaces
  /\ \A w \in Workers : pc[w] \in WorkerPlaces
  /\ next \in 0 .. NumLines
  /\ local_matches \in [Workers -> Nat] /\ matches \in [Workers -> Nat]

Init ==
  /\ lines = [i \in Index |-> 0]
  /\ head = 0 /\ tail = 0 /\ size = 0 /\ eof = FALSE
  /\ not_full = {} /\ not_empty = {}
  /\ running = TRUE /\ running_mutex = Nobody
  /\ still_running = [t \in Threads |-> TRUE]
  /\ interrupted = Nobody /\ signals = 0
  /\ pc = [t \in Threads |-> IF t = Main THEN "manager" ELSE "none"]
  /\ next = 0
  /\ local_matches = [w \in Workers |-> 0] /\ matches = [w \in Workers |-> 0]
  /\ total = -1
-----------------------------------------------------------------------------
(* A thread takes no step of its own while it runs a signal handler or      *)
(* waits on a condition variable.                                           *)
At(t, l)   == pc[t] = l /\ interrupted # t /\ t \notin not_full \cup not_empty
Goto(t, l) == pc' = [pc EXCEPT ![t] = l]

(* pthread_cond_signal: one of the waiting threads, if there is one, goes on. *)
Wakes(waiting, left) ==
  IF waiting = {} THEN left = {} ELSE \E t \in waiting : left = waiting \ {t}

(* f[1] + ... + f[n], added up in that order. *)
SumTo(f, n) ==
  LET sum[i \in 0 .. n] == IF i = 0 THEN 0 ELSE sum[i - 1] + f[i]
  IN  sum[n]
-----------------------------------------------------------------------------
(* Faulty variants of the operations below, one for each property that the  *)
(* passing run checks; none of them is part of the specification.           *)

(* GetLine of a buffer whose indexes do not wrap around. *)
GetNoWrap(w) ==
  /\ At(w, "get")
  /\ size > 0
  /\ local_matches' = [local_matches EXCEPT ![w] = @ + Matches[lines[head]]]
  /\ head' = head + 1
  /\ size' = size - 1
  /\ Wakes(not_full, not_full')
  /\ Goto(w, "check")
  /\ UNCHANGED <<lines, tail, eof, not_empty, flag, signal, next, matches, total>>

(* GetLine that takes a line and leaves head where it is. *)
GetSame(w) ==
  /\ At(w, "get")
  /\ size > 0
  /\ local_matches' = [local_matches EXCEPT ![w] = @ + Matches[lines[head]]]
  /\ size' = size - 1
  /\ Wakes(not_full, not_full')
  /\ Goto(w, "check")
  /\ UNCHANGED <<lines, head, tail, eof, not_empty, flag, signal, next, matches, total>>

(* Put that does not wait for a free place. *)
PutOverwrites ==
  /\ At(Manager, "put")
  /\ lines' = [lines EXCEPT ![tail] = next]
  /\ tail' = (tail + 1) % Capacity
  /\ size' = IF size < Capacity THEN size + 1 ELSE size
  /\ Wakes(not_empty, not_empty')
  /\ Goto(Manager, "check")
  /\ UNCHANGED <<head, eof, not_full, flag, signal, next, counts>>

(* Put that signals only when the buffer was empty. *)
PutSignalsOnce ==
  /\ At(Manager, "put")
  /\ size < Capacity \/ eof
  /\ IF eof THEN UNCHANGED <<ring, not_empty>>
     ELSE /\ lines' = [lines EXCEPT ![tail] = next]
          /\ tail' = (tail + 1) % Capacity
          /\ size' = size + 1
          /\ IF size = 0 THEN Wakes(not_empty, not_empty') ELSE UNCHANGED not_empty
          /\ UNCHANGED <<head, eof>>
  /\ Goto(Manager, "check")
  /\ UNCHANGED <<not_full, flag, signal, next, counts>>

(* SetEof that wakes one worker only, as pthread_cond_signal would. *)
SetEofSignals ==
  /\ At(Manager, "eof")
  /\ eof' = TRUE
  /\ not_full' = {} /\ Wakes(not_empty, not_empty')
  /\ Goto(Manager, "done")
  /\ UNCHANGED <<lines, head, tail, size, flag, signal, next, counts>>

(* GetEnd that leaves the loop without storing its count. *)
GetEndKeeps(w) ==
  /\ At(w, "get")
  /\ size = 0 /\ eof
  /\ Goto(w, "barrier")
  /\ UNCHANGED <<ring, waits, flag, signal, next, counts>>
-----------------------------------------------------------------------------
(* The running flag, read by the manager and the workers under its mutex.   *)
CheckLock(t) ==
  /\ At(t, "check")
  /\ running_mutex = Nobody
  /\ running_mutex' = t
  /\ still_running' = [still_running EXCEPT ![t] = running]
  /\ Goto(t, "checked")
  /\ UNCHANGED <<ring, waits, running, signal, next, counts>>

(* The mutex is released; the loop goes on or is left. *)
CheckUnlock(t) ==
  /\ At(t, "checked")
  /\ running_mutex' = Nobody
  /\ IF t = Manager
     THEN Goto(t, IF still_running[t] THEN "read" ELSE "eof") /\ UNCHANGED matches
     ELSE IF still_running[t] THEN Goto(t, "get") /\ UNCHANGED matches
          ELSE /\ Goto(t, "barrier")
               /\ matches' = [matches EXCEPT ![t] = local_matches[t]]
  /\ UNCHANGED <<ring, waits, running, still_running, signal, next, local_matches, total>>
-----------------------------------------------------------------------------
(* manager_thread. *)

Open ==
  /\ At(Manager, "open")
  /\ \/ Goto(Manager, "check")
     \/ Goto(Manager, "eof")          (* the log file cannot be opened *)
  /\ UNCHANGED <<ring, waits, flag, signal, next, counts>>

(* read_line finds another line, or the end of the file. *)
ReadLine ==
  /\ At(Manager, "read")
  /\ IF next < NumLines
     THEN next' = next + 1 /\ Goto(Manager, "put")
     ELSE UNCHANGED next /\ Goto(Manager, "eof")
  /\ UNCHANGED <<ring, waits, flag, signal, counts>>

(* buffer_put finds the buffer full, or is woken to find it full again. *)
PutWait ==
  /\ At(Manager, "put")
  /\ size = Capacity /\ ~eof
  /\ not_full' = not_full \cup {Manager}
  /\ UNCHANGED <<ring, not_empty, flag, signal, pc, next, counts>>

(* buffer_put adds the line and signals not_empty (after end of file it     *)
(* would drop the line instead).                                            *)
Put ==
  /\ At(Manager, "put")
  /\ size < Capacity \/ eof
  /\ IF eof THEN UNCHANGED <<ring, not_empty>>
     ELSE /\ lines' = [lines EXCEPT ![tail] = next]
          /\ tail' = (tail + 1) % Capacity
          /\ size' = size + 1
          /\ Wakes(not_empty, not_empty')
          /\ UNCHANGED <<head, eof>>
  /\ Goto(Manager, "check")
  /\ UNCHANGED <<not_full, flag, signal, next, counts>>

(* buffer_set_eof wakes everybody. *)
SetEof ==
  /\ At(Manager, "eof")
  /\ eof' = TRUE
  /\ not_full' = {} /\ not_empty' = {}
  /\ Goto(Manager, "done")
  /\ UNCHANGED <<lines, head, tail, size, flag, signal, next, counts>>
-----------------------------------------------------------------------------
(* worker_thread. *)

(* buffer_get finds the buffer empty, or is woken to find it empty again. *)
GetWait(w) ==
  /\ At(w, "get")
  /\ size = 0 /\ ~eof
  /\ not_empty' = not_empty \cup {w}
  /\ UNCHANGED <<ring, not_full, flag, signal, pc, next, counts>>

(* buffer_get takes a line and signals not_full; the line is searched. *)
GetLine(w) ==
  /\ At(w, "get")
  /\ size > 0
  /\ local_matches' = [local_matches EXCEPT ![w] = @ + Matches[lines[head]]]
  /\ head' = (head + 1) % Capacity
  /\ size' = size - 1
  /\ Wakes(not_full, not_full')
  /\ Goto(w, "check")
  /\ UNCHANGED <<lines, tail, eof, not_empty, flag, signal, next, matches, total>>

(* buffer_get returns NULL: the loop is left for the first barrier. *)
GetEnd(w) ==
  /\ At(w, "get")
  /\ size = 0 /\ eof
  /\ matches' = [matches EXCEPT ![w] = local_matches[w]]
  /\ Goto(w, "barrier")
  /\ UNCHANGED <<ring, waits, flag, signal, next, local_matches, total>>

(* The first barrier opens when all num_workers threads have come to it. *)
Barrier ==
  /\ \A w \in Workers : At(w, "barrier")
  /\ pc' = [t \in Threads |-> IF t \in Workers THEN "report" ELSE pc[t]]
  /\ UNCHANGED <<ring, waits, flag, signal, next, counts>>

(* Everybody has printed its count; the second barrier opens and makes one  *)
(* thread, w, the serial one.                                               *)
Barrier2(w) ==
  /\ \A v \in Workers : At(v, "report")
  /\ pc' = [t \in Threads |-> IF t = w THEN "total"
                              ELSE IF t \in Workers THEN "done" ELSE pc[t]]
  /\ UNCHANGED <<ring, waits, flag, signal, next, counts>>

(* The serial thread adds everybody's matches up. *)
Total(w) ==
  /\ At(w, "total")
  /\ total' = SumTo(matches, NumWorkers)
  /\ Goto(w, "done")
  /\ UNCHANGED <<ring, waits, flag, signal, next, local_matches, matches>>
-----------------------------------------------------------------------------
(* main. *)
StartManager ==
  /\ At(Main, "manager")
  /\ pc' = [pc EXCEPT ![Main] = "spawn", ![Manager] = "open"]
  /\ UNCHANGED <<ring, waits, flag, signal, next, counts>>

NextWorker(w) == pc[w] = "none" /\ \A v \in Workers : v < w => pc[v] # "none"

StartWorker(w) ==
  /\ At(Main, "spawn") /\ NextWorker(w)
  /\ pc' = [pc EXCEPT ![w] = "check",
                      ![Main] = IF w = NumWorkers THEN "joinmanager" ELSE "spawn"]
  /\ UNCHANGED <<ring, waits, flag, signal, next, counts>>

(* A worker cannot be created: main takes running_mutex, *)
SpawnFails ==
  /\ SpawnFailures
  /\ At(Main, "spawn")
  /\ running_mutex = Nobody
  /\ running_mutex' = Main
  /\ Goto(Main, "stop")
  /\ UNCHANGED <<ring, waits, running, still_running, signal, next, counts>>

(* clears running, and creates no more. *)
StopSpawning ==
  /\ At(Main, "stop")
  /\ running' = FALSE
  /\ running_mutex' = Nobody
  /\ Goto(Main, "joinmanager")
  /\ UNCHANGED <<ring, waits, still_running, signal, next, counts>>

JoinManager ==
  /\ At(Main, "joinmanager")
  /\ pc[Manager] = "done"
  /\ Goto(Main, "joinworkers")
  /\ UNCHANGED <<ring, waits, flag, signal, next, counts>>

(* All workers are joined and the buffer is destroyed.  Joining a worker     *)
(* that was never created is undefined; here it does not return.             *)
JoinWorkers ==
  /\ At(Main, "joinworkers")
  /\ \A w \in Workers : pc[w] = "done"
  /\ Goto(Main, "exited")
  /\ UNCHANGED <<ring, waits, flag, signal, next, counts>>
-----------------------------------------------------------------------------
(* SIGINT interrupts a thread, wherever it is. *)
Interrupt(t) ==
  /\ t \in Interrupts /\ signals = 0
  /\ pc[t] \notin {"none", "done", "exited"}
  /\ signals' = 1
  /\ interrupted' = t
  /\ UNCHANGED <<ring, waits, flag, pc, next, counts>>

(* The handler takes running_mutex in that thread, clears running and returns. *)
HandleSigint ==
  /\ interrupted # Nobody
  /\ running_mutex = Nobody
  /\ running' = FALSE
  /\ interrupted' = Nobody
  /\ UNCHANGED <<ring, waits, running_mutex, still_running, signals, pc, next, counts>>

(* pthread_cond_wait may return though nobody signalled. *)
SpuriousWakeup(t) ==
  /\ t \in not_full \cup not_empty
  /\ not_full' = not_full \ {t}
  /\ not_empty' = not_empty \ {t}
  /\ UNCHANGED <<ring, flag, signal, pc, next, counts>>
-----------------------------------------------------------------------------
ManagerStep ==
  \/ CheckLock(Manager) \/ CheckUnlock(Manager) \/ Open \/ ReadLine
  \/ PutWait \/ Put \/ SetEof

WorkerStep(w) ==
  \/ CheckLock(w) \/ CheckUnlock(w) \/ GetWait(w) \/ GetLine(w) \/ GetEnd(w)
  \/ Barrier \/ Barrier2(w) \/ Total(w)

MainStep ==
  \/ StartManager \/ StopSpawning \/ JoinManager \/ JoinWorkers
  \/ \E w \in Workers : StartWorker(w)

Next ==
  \/ ManagerStep \/ MainStep \/ SpawnFails
  \/ \E w \in Workers : WorkerStep(w)
  \/ HandleSigint
  \/ \E t \in Threads : Interrupt(t) \/ SpuriousWakeup(t)
  \/ pc[Main] = "exited" /\ UNCHANGED vars

Spec == Init /\ [][Next]_vars

(* Threads that can run keep running and finish their signal handlers.  SIGINT, *)
(* spurious wake-ups and failures to create a thread need not happen.           *)
Fairness ==
  /\ WF_vars(ManagerStep) /\ WF_vars(MainStep) /\ WF_vars(HandleSigint)
  /\ \A w \in Workers : WF_vars(WorkerStep(w))

FairSpec == Spec /\ Fairness
-----------------------------------------------------------------------------
(* Properties. *)

(* The lines put into the buffer so far. *)
PutSoFar == IF pc[Manager] = "put" THEN next - 1 ELSE next

(* The buffer holds the last size lines that were put, in the order of the  *)
(* file, from head on and around the end of the array (buffer.c:37-39,      *)
(* 58-60): no line is overwritten, skipped or left behind.                  *)
RingHoldsLines ==
  /\ size <= PutSoFar
  /\ tail = (head + size) % Capacity
  /\ \A i \in Index :
       i < size => lines[(head + i) % Capacity] = PutSoFar - size + i + 1

(* No wake-up is lost: a thread waits only as long as there is nothing for   *)
(* it.  For every line in the buffer some worker is not waiting but about to *)
(* take one, or no worker waits at all; the manager waits only on a full     *)
(* buffer; nobody waits after end of file (buffer.c:28-29, 41, 48-49, 62,    *)
(* 88-90).                                                                   *)
AboutToGet == {w \in Workers : pc[w] = "get" /\ w \notin not_empty}
NoLostWakeup ==
  /\ not_empty # {} => size <= Cardinality(AboutToGet)
  /\ not_full # {} => size = Capacity
  /\ eof => not_empty = {} /\ not_full = {}

(* The inductive invariant of the buffer.  Waiters are where they wait; a    *)
(* line about to be put has been read; the manager, started once, sets eof   *)
(* and is done.                                                              *)
WaitersWait ==
  /\ \A w \in not_empty : pc[w] = "get"
  /\ not_full # {} => pc[Manager] = "put"
  /\ pc[Manager] = "put" => next > 0
  /\ eof <=> pc[Manager] = "done"
  /\ pc[Main] = "manager" => pc[Manager] = "none"

BufferInv == TypeOK /\ RingHoldsLines /\ NoLostWakeup /\ WaitersWait

(* Every line put so far and no longer in the buffer has been counted        *)
(* exactly once: whatever the interleaving of the workers, nothing is        *)
(* searched twice and nothing is dropped (main.c:66-78, buffer.c:45-66).     *)
MatchesConserved ==
  SumTo(local_matches, NumWorkers) = SumTo(Matches, PutSoFar - size)

(* The total printed is the sum of all counts, and of all lines of the file  *)
(* unless SIGINT or a failure cut the search short or the file could not be  *)
(* opened: the barriers keep the serial thread from adding before everybody  *)
(* has stored its count (main.c:80-93).                                      *)
TotalComplete ==
  total # -1 =>
    /\ total = SumTo(local_matches, NumWorkers)
    /\ running /\ next > 0 => total = SumTo(Matches, NumLines)

(* What the counting rests on.  A worker that has left its loop has stored   *)
(* its count, and left because the search was stopped or the buffer is empty *)
(* for good; *)
LeftLoop == {w \in Workers : pc[w] \in {"barrier", "report", "total", "done"}}
CountsStored ==
  \A w \in LeftLoop : matches[w] = local_matches[w] /\ (running => eof /\ size = 0)

(* the flag, once cleared, stays so, and unless it is the manager reads the  *)
(* whole file or nothing; *)
StoppedOrRead ==
  /\ \A t \in Threads : pc[t] = "checked" /\ ~still_running[t] => ~running
  /\ pc[Manager] \in {"none", "open"} => next = 0
  /\ pc[Manager] \in {"eof", "done"} /\ running => next \in {0, NumLines}

(* one thread adds up, when all the others have come through both barriers.  *)
OneTotal ==
  /\ \A w \in Workers : pc[w] = "total" =>
       \A v \in Workers : v # w => pc[v] = "done"
  /\ \A w \in Workers : pc[w] = "done" =>
       \A v \in Workers : pc[v] \in {"total", "done"}
  /\ total # -1 => /\ \A w \in Workers : pc[w] = "done"
                   /\ total = SumTo(local_matches, NumWorkers)

CountInv == BufferInv /\ MatchesConserved /\ CountsStored /\ StoppedOrRead /\ OneTotal

(* Without SIGINT and failures the program searches its file and ends,       *)
(* whoever waits for whom (main.c:60-93, 116-137, 232-236).                  *)
SearchEnds == <>(pc[Main] = "exited" \/ ~running \/ signals > 0)

(* After SIGINT the program shuts down (main.c:145).                         *)
SigintShutsDown == signals > 0 ~> pc[Main] = "exited"
=============================================================================
