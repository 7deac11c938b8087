---------------------------- MODULE RoomDirectory ----------------------------
(***************************************************************************)
(* What the rooms of the chat server promise, without threads, locks or    *)
(* entries: every user is in at most one room, gets into a room only from  *)
(* outside all rooms, a room is open exactly as long as somebody is in it, *)
(* and no more than MaxOpen rooms are open.                                *)
(***************************************************************************)
EXTENDS Naturals, FiniteSets

CONSTANTS
  Users, Rooms,
  Nowhere,        (* not one of Rooms: being in none                       *)
  MaxOpen         (* a natural number                                      *)

VARIABLE member

Open == {member[u] : u \in Users} \ {Nowhere}

Init == member = [u \in Users |-> Nowhere]

Enter(u, r) ==
  /\ member[u] = Nowhere
  /\ r \in Open \/ Cardinality(Open) < MaxOpen
  /\ member' = [member EXCEPT ![u] = r]

Depart(u) ==
  /\ member[u] # Nowhere
  /\ member' = [member EXCEPT ![u] = Nowhere]

Next == \E u \in Users : Depart(u) \/ \E r \in Rooms : Enter(u, r)

Spec == Init /\ [][Next]_member
=============================================================================
