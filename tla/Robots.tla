-------------------------------- MODULE Robots --------------------------------
(* The robot war of Object Oriented Programming, PA4: robots of five kinds   *)
(* on a grid; a round moves every robot until it fights, until one is left.  *)
(* An action is one move, one hit or one step of the loops over the grid.    *)
(*                                                                           *)
(* Hitpoints and damages are small numbers; a kamikaze's damage is what it   *)
(* has of hitpoints.  Robots that leave the grid are not destroyed.          *)
EXTENDS Integers, FiniteSets

CONSTANTS
  GSIZE,           (* the edge of the grid                                    *)
  RobotIds, Nobot, (* the robots, and what an empty cell holds                *)
  TypeOf,          (* the type of each robot                                  *)
  HitpointsOf,     (* what a type starts with                                 *)
  DamagesOf        (* the damages a type may deal                             *)

VARIABLES
  grid,
  position,        (* the coordinates that each robot keeps                   *)
  hitpoints, moved,
  count,           (* robots left                                             *)
  scan,            (* where simulation is in the grid, or what main does      *)
  mover,           (* the robot that moveLoop moves                           *)
  duel             (* the fight that goes on: the two cells and whose hit it is *)

rvars == <<grid, position, hitpoints, moved, count, scan, mover, duel>>

Edge   == 0 .. GSIZE - 1
Square == Edge \X Edge
NoDuel == [from |-> <<0, 0>>, to |-> <<0, 0>>, turn |-> "none"]
Placed == {r \in RobotIds : \E c \in Square : grid[c] = r}

TypeOK ==
  /\ grid \in [Square -> RobotIds \cup {Nobot}]
  /\ position \in [RobotIds -> Square] /\ hitpoints \in [RobotIds -> Int]
  /\ moved \in [RobotIds -> BOOLEAN]
  /\ count \in Int
  /\ scan \in Square \cup {<<"place">>, <<"end">>}
  /\ mover \in RobotIds \cup {Nobot}
  /\ duel \in [from : Square, to : Square, turn : {"none", "attacker", "victim"}]

Init ==
  /\ grid = [c \in Square |-> Nobot] /\ position = [r \in RobotIds |-> <<0, 0>>]
  /\ hitpoints = [r \in RobotIds |-> HitpointsOf[TypeOf[r]]]
  /\ moved = [r \in RobotIds |-> FALSE]
  /\ count = Cardinality(RobotIds) /\ scan = <<"place">> /\ mover = Nobot /\ duel = NoDuel
-----------------------------------------------------------------------------
(* main puts each robot on a free cell and begins the first round. *)
Place(r) ==
  /\ scan = <<"place">> /\ r \notin Placed
  /\ \E c \in Square :
       /\ grid[c] = Nobot
       /\ grid' = [grid EXCEPT ![c] = r]
       /\ position' = [position EXCEPT ![r] = c]
  /\ UNCHANGED <<hitpoints, moved, count, scan, mover, duel>>

FirstRound ==
  /\ scan = <<"place">> /\ Placed = RobotIds
  /\ scan' = <<0, 0>>
  /\ UNCHANGED <<grid, position, hitpoints, moved, count, mover, duel>>
-----------------------------------------------------------------------------
(* simulation: moveLoop moves the robot of this cell until it has fought, or *)
(* not at all if it has done so in this round.                               *)
MayMove(r)  == r # Nobot /\ ~moved[r] /\ count # 1
AtCell      == scan \in Square /\ duel = NoDuel

EnterCell ==
  /\ AtCell /\ mover = Nobot /\ MayMove(grid[scan])
  /\ mover' = grid[scan]
  /\ UNCHANGED <<grid, position, hitpoints, moved, count, scan, duel>>

(* The next cell; after the last one a new round, with all flags cleared. *)
NextCell ==
  /\ AtCell /\ count # 1
  /\ IF mover = Nobot THEN ~MayMove(grid[scan]) ELSE ~MayMove(mover)
  /\ mover' = Nobot
  /\ IF scan = <<GSIZE - 1, GSIZE - 1>>
     THEN scan' = <<0, 0>> /\ moved' = [r \in RobotIds |-> moved[r] /\ r \notin Placed]
     ELSE /\ scan' = IF scan[2] = GSIZE - 1 THEN <<scan[1] + 1, 0>> ELSE <<scan[1], scan[2] + 1>>
          /\ UNCHANGED moved
  /\ UNCHANGED <<grid, position, hitpoints, count, duel>>

(* The winner is taken off the grid and main ends. *)
Win ==
  /\ AtCell /\ count = 1
  /\ \E c \in Square : grid[c] # Nobot /\ grid' = [grid EXCEPT ![c] = Nobot]
  /\ scan' = <<"end">> /\ mover' = Nobot
  /\ UNCHANGED <<position, hitpoints, moved, count, duel>>

(* move and moveRobot: one step in a direction that stays on the grid, to a  *)
(* free cell or into a fight.                                                *)
Neighbours(c) ==
  {<<c[1] + d[1], c[2] + d[2]>> : d \in {<<0, 1>>, <<1, 0>>, <<0, -1>>, <<-1, 0>>}} \cap Square

Move ==
  /\ AtCell /\ MayMove(mover)
  /\ \E to \in Neighbours(position[mover]) :
       /\ grid[to] = Nobot
       /\ grid' = [grid EXCEPT ![position[mover]] = Nobot, ![to] = mover]
       /\ position' = [position EXCEPT ![mover] = to]
  /\ UNCHANGED <<hitpoints, moved, count, scan, mover, duel>>

Attack ==
  /\ AtCell /\ MayMove(mover)
  /\ \E to \in Neighbours(position[mover]) :
       /\ grid[to] # Nobot
       /\ duel' = [from |-> position[mover], to |-> to, turn |-> "attacker"]
  /\ moved' = [moved EXCEPT ![mover] = TRUE]
  /\ UNCHANGED <<grid, position, hitpoints, count, scan, mover>>
-----------------------------------------------------------------------------
(* fight, one hit at a time. *)
Damages(r) == IF TypeOf[r] = "kamikaze" THEN {hitpoints[r]} ELSE DamagesOf[TypeOf[r]]
Hits(r, other) ==
  \E d \in Damages(r) : hitpoints' = [hitpoints EXCEPT ![other] = @ - d]

(* Faulty variant of FightEnds, no part of the specification: an attacker    *)
(* that takes the victim's cell is left in its old one too.                  *)
FightEndsTwice(loser) ==
  /\ grid' = IF loser = "attacker" THEN [grid EXCEPT ![duel.from] = Nobot]
             ELSE [grid EXCEPT ![duel.to] = mover]
  /\ count' = count - 1
  /\ position' = [position EXCEPT ![mover] = duel.to]
  /\ duel' = NoDuel

(* The fight is over: the attacker or the victim loses its cell, the victim  *)
(* to the attacker, and the attacker has moved, wherever it is now.          *)
FightEnds(loser) ==
  /\ grid' = IF loser = "attacker" THEN [grid EXCEPT ![duel.from] = Nobot]
             ELSE [grid EXCEPT ![duel.from] = Nobot, ![duel.to] = mover]
  /\ count' = count - 1
  /\ position' = [position EXCEPT ![mover] = duel.to]
  /\ duel' = NoDuel

FightGoesOn(turn) ==
  /\ duel' = [duel EXCEPT !.turn = turn]
  /\ UNCHANGED <<grid, position, count>>

(* A kamikaze's attack ends it, and its victim stays, however little is left *)
(* of it.                                                                    *)
Hit ==
  LET victim == grid[duel.to] IN
  /\ duel.turn = "attacker"
  /\ Hits(mover, victim)
  /\ IF TypeOf[mover] = "kamikaze" THEN FightEnds("attacker")
     ELSE IF hitpoints'[victim] <= 0 THEN FightEnds("victim")
     ELSE FightGoesOn("victim")
  /\ UNCHANGED <<moved, scan, mover>>

HitBack ==
  LET victim == grid[duel.to] IN
  /\ duel.turn = "victim"
  /\ Hits(victim, mover)
  /\ IF TypeOf[victim] = "kamikaze" THEN FightEnds("victim")
     ELSE IF hitpoints'[mover] <= 0 THEN FightEnds("attacker")
     ELSE FightGoesOn("attacker")
  /\ UNCHANGED <<moved, scan, mover>>
-----------------------------------------------------------------------------
Next ==
  \/ \E r \in RobotIds : Place(r)
  \/ FirstRound \/ EnterCell \/ NextCell \/ Win \/ Move \/ Attack \/ Hit \/ HitBack

Spec == Init /\ [][Next]_rvars
-----------------------------------------------------------------------------
(* Properties. *)

(* The count is the number of robots on the grid, so that the war ends when  *)
(* one is left and the winner is there to be named; every robot is on one    *)
(* cell, the one whose coordinates it keeps                                  *)
(* (PA4.cpp:127-186, 240-262, 344-349).                                      *)
RobotsCounted ==
  /\ scan \in Square => count = Cardinality({c \in Square : grid[c] # Nobot})
  /\ \A c \in Square : grid[c] # Nobot => position[grid[c]] = c
  /\ scan = <<"end">> => Placed = {} /\ count = 1
=============================================================================
