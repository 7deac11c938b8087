-------------------------------- MODULE Daemon --------------------------------
(* The daemon of System Programming/HW2 (main.c): it makes two FIFOs, writes *)
(* two numbers and a command into the first and forks two children.  Child 1 *)
(* reads them and writes the larger number into the second FIFO, from which  *)
(* child 2 reads it.  The daemon counts the children that end, in a SIGCHLD  *)
(* handler, and gives up after 30 seconds.                                   *)
(*                                                                           *)
(* What is in a FIFO is lost when the last process that has it open closes   *)
(* it.  FIFO 1 is open in the daemon before it forks, so it loses nothing.   *)
(* Time is not modelled: the 30 seconds may be over at any moment.           *)
EXTENDS Integers, Sequences, FiniteSets

CONSTANTS Numbers  (* the integers of the command line *)

VARIABLES
  daemon,          (* where the daemon is                                     *)
  child,           (* where each child is                                     *)
  numbers,         (* the two integers                                        *)
  fifos,           (* the FIFOs that exist by name                            *)
  pipe2,           (* what is in FIFO 2                                       *)
  open2,           (* the children that have it open                          *)
  zombies,         (* children that ended and are not waited for              *)
  sigchld,         (* SIGCHLD is pending                                      *)
  child_counter,
  larger           (* the number child 2 logs, once it does                   *)

dvars == <<daemon, child, numbers, fifos, pipe2, open2, zombies, sigchld, child_counter, larger>>

Children == {1, 2}
Living   == {"fork1", "fork2", "handlers", "sigchld", "loop"}
Running  == {"sleep", "open2", "write", "read", "close"}

(* The ways the daemon ends: with success, after an error or the time-out,   *)
(* in a signal handler, killed before its handlers are installed.            *)
Ended    == {"success", "failed", "stopped", "killed"}

TypeOK ==
  /\ daemon \in {"new", "fifo1", "fifo2", "feed"} \cup Living \cup Ended
  /\ child \in [Children -> {"none", "ended"} \cup Running]
  /\ numbers \in Numbers \X Numbers
  /\ fifos \subseteq {1, 2} /\ pipe2 \in Seq(Numbers) /\ open2 \subseteq Children
  /\ zombies \subseteq Children /\ sigchld \in BOOLEAN /\ child_counter \in 0 .. 2
  /\ larger \in Seq(Numbers)

Init ==
  /\ daemon = "new" /\ child = [c \in Children |-> "none"]
  /\ numbers = CHOOSE n \in Numbers \X Numbers : TRUE
  /\ fifos = {} /\ pipe2 = <<>> /\ open2 = {}
  /\ zombies = {} /\ sigchld = FALSE /\ child_counter = 0
  /\ larger = <<>>
-----------------------------------------------------------------------------
LargerOf(n) == IF n[1] > n[2] THEN n[1] ELSE n[2]

pipes == <<fifos, pipe2, open2>>
waits == <<zombies, sigchld, child_counter>>

DaemonMoves(from, to) == daemon = from /\ daemon' = to
ChildMoves(c, from, to) == child[c] = from /\ child' = [child EXCEPT ![c] = to]

(* A set of children ends: what only they had open is lost, and the daemon,  *)
(* if it lives, gets SIGCHLD, which is ignored until the handler is there.   *)
ChildrenGone(cs) ==
  /\ child' = [c \in Children |-> IF c \in cs THEN "ended" ELSE child[c]]
  /\ open2' = open2 \ cs
  /\ pipe2' = IF open2' = {} THEN <<>> ELSE pipe2
  /\ zombies' = zombies \cup cs
  /\ sigchld' = (sigchld \/ (cs # {} /\ daemon = "loop"))
Alive == {c \in Children : child[c] \in Running}
-----------------------------------------------------------------------------
(* Faulty variants of the operations below, one for each property that the   *)
(* passing run checks; none of them is part of the specification.            *)

(* Reap that counts every signal as two children. *)
ReapTwo ==
  /\ daemon = "loop" /\ sigchld
  /\ child_counter' = 2
  /\ zombies' = {} /\ sigchld' = FALSE
  /\ UNCHANGED <<daemon, child, numbers, pipes, larger>>

(* TimeOut that kills child 1 only. *)
TimeOutFirst ==
  /\ DaemonMoves("loop", "failed")
  /\ ChildrenGone(Alive \cap {1})
  /\ fifos' = {}
  /\ UNCHANGED <<numbers, child_counter, larger>>
-----------------------------------------------------------------------------
(* The daemon starts; a run that was killed may have left its FIFOs. *)
Start ==
  /\ DaemonMoves("new", "fifo1")
  /\ numbers' \in Numbers \X Numbers
  /\ fifos' \in SUBSET {1, 2}
  /\ UNCHANGED <<child, pipe2, open2, waits, larger>>

(* mkfifo fails if the name exists; the first FIFO is then removed again. *)
MakeFifo1 ==
  /\ DaemonMoves("fifo1", IF 1 \in fifos THEN "failed" ELSE "fifo2")
  /\ fifos' = fifos \cup {1}
  /\ UNCHANGED <<child, numbers, pipe2, open2, waits, larger>>
MakeFifo2 ==
  /\ DaemonMoves("fifo2", IF 2 \in fifos THEN "failed" ELSE "feed")
  /\ fifos' = IF 2 \in fifos THEN fifos \ {1} ELSE fifos \cup {2}
  /\ UNCHANGED <<child, numbers, pipe2, open2, waits, larger>>

(* It writes the numbers and the command into FIFO 1, *)
Feed ==
  /\ DaemonMoves("feed", "fork1")
  /\ UNCHANGED <<child, numbers, pipes, waits, larger>>

(* and forks, child 1 first. *)
Fork(c) ==
  /\ DaemonMoves(IF c = 1 THEN "fork1" ELSE "fork2", IF c = 1 THEN "fork2" ELSE "handlers")
  /\ child' = [child EXCEPT ![c] = "sleep"]
  /\ UNCHANGED <<numbers, pipes, waits, larger>>

(* Opening or writing FIFO 1, or a fork, fails: the FIFOs are removed; a     *)
(* child that was forked goes on.                                            *)
Abort ==
  /\ daemon \in {"feed", "fork1", "fork2"}
  /\ daemon' = "failed" /\ fifos' = {}
  /\ UNCHANGED <<child, numbers, pipe2, open2, waits, larger>>

InstallHandlers ==
  /\ DaemonMoves("handlers", "sigchld")
  /\ UNCHANGED <<child, numbers, pipes, waits, larger>>
InstallSigchld ==
  /\ DaemonMoves("sigchld", "loop")
  /\ UNCHANGED <<child, numbers, pipes, waits, larger>>

(* sigchld_handler waits for every child that has ended by now. *)
Reap ==
  /\ daemon = "loop" /\ sigchld
  /\ child_counter' = child_counter + Cardinality(zombies)
  /\ zombies' = {} /\ sigchld' = FALSE
  /\ UNCHANGED <<daemon, child, numbers, pipes, larger>>

Succeed ==
  /\ child_counter >= 2
  /\ DaemonMoves("loop", "success")
  /\ fifos' = {}
  /\ UNCHANGED <<child, numbers, pipe2, open2, waits, larger>>

(* More than 30 seconds: the children are killed, even if both have ended   *)
(* during the last sleep.                                                    *)
TimeOut ==
  /\ DaemonMoves("loop", "failed")
  /\ ChildrenGone(Alive)
  /\ fifos' = {}
  /\ UNCHANGED <<numbers, child_counter, larger>>

(* SIGUSR1, SIGHUP or SIGTERM: the handler kills the children and ends. *)
Signal ==
  /\ daemon \in {"sigchld", "loop"}
  /\ daemon' = "stopped"
  /\ ChildrenGone(Alive)
  /\ fifos' = {}
  /\ UNCHANGED <<numbers, child_counter, larger>>

(* Before the handlers are installed the signal ends the daemon alone. *)
SignalEarly ==
  /\ daemon \in {"fifo1", "fifo2", "feed", "fork1", "fork2", "handlers"}
  /\ daemon' = "killed"
  /\ UNCHANGED <<child, numbers, pipes, waits, larger>>
-----------------------------------------------------------------------------
(* A child sleeps, opens its FIFO by name and fails if it is gone. *)
Open1 ==
  /\ child[1] = "sleep"
  /\ IF 1 \in fifos
     THEN /\ child' = [child EXCEPT ![1] = "open2"]
          /\ UNCHANGED <<pipe2, open2, zombies, sigchld>>
     ELSE ChildrenGone({1})
  /\ UNCHANGED <<daemon, numbers, fifos, child_counter, larger>>
Open2(c) ==
  /\ child[c] = IF c = 1 THEN "open2" ELSE "sleep"
  /\ IF 2 \in fifos
     THEN /\ child' = [child EXCEPT ![c] = IF c = 1 THEN "write" ELSE "read"]
          /\ open2' = open2 \cup {c}
          /\ UNCHANGED <<pipe2, zombies, sigchld>>
     ELSE ChildrenGone({c})
  /\ UNCHANGED <<daemon, numbers, fifos, child_counter, larger>>

Write ==
  /\ ChildMoves(1, "write", "close")
  /\ pipe2' = Append(pipe2, LargerOf(numbers))
  /\ UNCHANGED <<daemon, numbers, fifos, open2, waits, larger>>

(* Child 2 has FIFO 2 open for writing too: its read waits, and never ends   *)
(* if child 1 has come and gone.                                             *)
Read ==
  /\ pipe2 # <<>>
  /\ ChildMoves(2, "read", "close")
  /\ pipe2' = Tail(pipe2) /\ larger' = <<Head(pipe2)>>
  /\ UNCHANGED <<daemon, numbers, fifos, open2, waits>>

Close(c) ==
  /\ child[c] = "close"
  /\ ChildrenGone({c})
  /\ UNCHANGED <<daemon, numbers, fifos, child_counter, larger>>
-----------------------------------------------------------------------------
DaemonStep ==
  \/ Start \/ MakeFifo1 \/ MakeFifo2 \/ Feed \/ (\E c \in Children : Fork(c)) \/ Abort
  \/ InstallHandlers \/ InstallSigchld \/ Reap \/ Succeed \/ TimeOut
ChildStep == Open1 \/ (\E c \in Children : Open2(c) \/ Close(c)) \/ Write \/ Read

Next == DaemonStep \/ ChildStep \/ Signal \/ SignalEarly
Spec == Init /\ [][Next]_dvars
-----------------------------------------------------------------------------
(* Properties. *)

(* When the daemon logs that the process was done successfully, child 2 has  *)
(* read the larger number, although child_counter only counts children that  *)
(* ended, however they did (main.c:53-59, 331, 346).                         *)
SuccessMeansDelivered == daemon = "success" => larger = <<LargerOf(numbers)>>

(* When the daemon is gone, no child is left behind for ever, such as child  *)
(* 2 waiting for a number that was lost (main.c:207, 335-343), unless a      *)
(* signal came before the handlers were installed (324).                     *)
ChildrenEnd == <>(daemon \in Ended /\ (daemon = "killed" \/ Alive = {}))
=============================================================================
