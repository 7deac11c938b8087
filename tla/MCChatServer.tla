---------------------------- MODULE MCChatServer ----------------------------
(* Model checking of ChatServer.  The user and room names are only compared *)
(* with each other, so permuting them is a symmetry; runs that check        *)
(* liveness do not use it.                                                  *)
EXTENDS ChatServer, TLC

NameSymmetry == Permutations(Usernames) \cup Permutations(RoomNames)
=============================================================================
