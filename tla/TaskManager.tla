------------------------------ MODULE TaskManager -----------------------------
(* The task manager of Data Structures And Algorithms, HW5: tasks are made   *)
(* for users and put into a binary heap, and "execute" takes them out in the *)
(* order of their users' priorities.  The heap is a sequence: the children   *)
(* of element i are 2i and 2i + 1.                                           *)
EXTENDS Integers, SequencesExt

CONSTANTS
  ConfigFiles,     (* the numbers in a configuration file, in their order     *)
  MaxTasks         (* bound: tasks that are made                              *)

VARIABLES
  users,           (* the priority of each user, a lower number before a higher *)
  heap,
  taskId,          (* the ID of the next task                                 *)
  executing,       (* "execute" was read                                      *)
  executed         (* the tasks that were executed                            *)

tvars == <<users, heap, taskId, executing, executed>>

TypeOK ==
  /\ users \in Seq(Nat)
  /\ \A task \in ToSet(heap \o executed) : task.priority \in ToSet(users) /\ task.id < taskId
  /\ taskId \in 0 .. MaxTasks /\ executing \in BOOLEAN

(* compareTo = 1; tasks of the same priority go by their IDs. *)
Precedes(t, u) == t.priority < u.priority \/ (t.priority = u.priority /\ t.id < u.id)
-----------------------------------------------------------------------------
Swap(h, i, j) == [h EXCEPT ![i] = h[j], ![j] = h[i]]

(* A new element goes up until its parent precedes it.  A pass of the loop,  *)
(* which changes nothing once the loop has ended, and as many as it may need: *)
UpOnce(g, child) ==
  IF child > 1 /\ Precedes(g[child], g[child \div 2])
  THEN <<Swap(g, child, child \div 2), child \div 2>> ELSE <<g, child>>

Up(h, child) ==
  LET up[n \in 0 .. Len(h)] ==
        IF n = 0 THEN <<h, child>> ELSE LET s == up[n - 1] IN UpOnce(s[1], s[2])
  IN  up[Len(h)][1]

add(h, task) == Up(Append(h, task), Len(h) + 1)

(* Faulty variant of DownOnce (below), no part of the specification: the     *)
(* left child is always taken.                                               *)
DownLeft(g, parent) ==
  IF 2 * parent <= Len(g) /\ Precedes(g[2 * parent], g[parent])
  THEN <<Swap(g, parent, 2 * parent), 2 * parent>> ELSE <<g, parent>>

(* The root goes down to the side of the child that comes first.             *)
DownOnce(g, parent) ==
  LET left  == 2 * parent
      child == IF left < Len(g) /\ Precedes(g[left + 1], g[left]) THEN left + 1 ELSE left
  IN  IF left <= Len(g) /\ Precedes(g[child], g[parent])
      THEN <<Swap(g, parent, child), child>> ELSE <<g, parent>>

Down(h, parent) ==
  LET down[n \in 0 .. Len(h)] ==
        IF n = 0 THEN <<h, parent>> ELSE LET s == down[n - 1] IN DownOnce(s[1], s[2])
  IN  down[Len(h)][1]

(* poll takes the root; the last element takes its place. *)
AfterPoll(h) == IF Len(h) = 1 THEN <<>> ELSE Down(<<Last(h)>> \o SubSeq(h, 2, Len(h) - 1), 1)
-----------------------------------------------------------------------------
Init == users = <<>> /\ heap = <<>> /\ taskId = 0 /\ executing = FALSE /\ executed = <<>>

(* The users of a configuration file: numbers below zero are passed over. *)
Users(lines) ==
  LET added[n \in 0 .. Len(lines)] ==
        IF n = 0 THEN <<>>
        ELSE IF lines[n] >= 0 THEN Append(added[n - 1], lines[n]) ELSE added[n - 1]
  IN  added[Len(lines)]

addUser ==
  /\ users = <<>>
  /\ \E lines \in ConfigFiles : users' = Users(lines)
  /\ UNCHANGED <<heap, taskId, executing, executed>>

(* A line with the ID of a user; other lines change nothing. *)
createTask ==
  /\ ~executing /\ taskId < MaxTasks
  /\ \E user \in DOMAIN users : heap' = add(heap, [priority |-> users[user], id |-> taskId])
  /\ taskId' = taskId + 1
  /\ UNCHANGED <<users, executing, executed>>

StartExecute ==
  /\ users # <<>> /\ ~executing /\ executing' = TRUE
  /\ UNCHANGED <<users, heap, taskId, executed>>

execute ==
  /\ executing /\ heap # <<>>
  /\ executed' = Append(executed, heap[1])
  /\ heap' = AfterPoll(heap)
  /\ UNCHANGED <<users, taskId, executing>>

Next == addUser \/ createTask \/ StartExecute \/ execute
Spec == Init /\ [][Next]_tvars
-----------------------------------------------------------------------------
(* Properties. *)

(* No task is lost or done twice by the exchanges in the heap, and what is   *)
(* executed comes before everything that is executed after it or waits       *)
(* (MinHeap.java:22-87, MyTaskManager.java:66-71).                           *)
ExecutedInOrder ==
  /\ {t.id : t \in ToSet(heap \o executed)} = 0 .. taskId - 1
  /\ Len(heap) + Len(executed) = taskId
  /\ \A i \in DOMAIN executed :
       \A task \in ToSet(SubSeq(executed, i + 1, Len(executed)) \o heap) : Precedes(executed[i], task)
=============================================================================
