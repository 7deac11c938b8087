---------------------------- MODULE TransferQueue ----------------------------
(***************************************************************************)
(* What the file transfer queue of the chat server promises, without       *)
(* semaphores, ring buffer or threads: at most MaxFileQueue requests wait, *)
(* one at a time is being transferred, and they are taken in the order in  *)
(* which they were queued.                                                 *)
(***************************************************************************)
EXTENDS Naturals, Sequences

CONSTANTS MaxFileQueue, Requests, NoRequest

VARIABLES waiting, current

Init == waiting = <<>> /\ current = NoRequest

Put(r) ==
  /\ Len(waiting) < MaxFileQueue
  /\ waiting' = Append(waiting, r)
  /\ UNCHANGED current

Take ==
  /\ waiting # <<>> /\ current = NoRequest
  /\ current' = Head(waiting)
  /\ waiting' = Tail(waiting)

Finish ==
  /\ current # NoRequest
  /\ current' = NoRequest
  /\ UNCHANGED waiting

Next == (\E r \in Requests : Put(r)) \/ Take \/ Finish

Spec == Init /\ [][Next]_<<waiting, current>>
=============================================================================
