----------------------------- MODULE ProgramsProofs -----------------------------
(* Theorems about the course programs that Programs runs: the robot war      *)
(* (Robots.tla), the hardware configuration (Hardware.tla), the school       *)
(* management system (School.tla) and the CPU simulator (Cpu.tla).           *)
EXTENDS Programs, FiniteSetTheorems, WellFoundedInduction, TLAPS

(* The robot war, for any grid and any finite army: *)
RobotsOnGrid == GSIZE \in Nat \ {0} /\ IsFiniteSet(RobotIds) /\ Nobot \notin RobotIds

Cells       == RobotIds \cup {Nobot}
Occ(g)      == {c \in Rob!Square : g[c] # Nobot}
Occupied    == Occ(grid)

RobotTypes ==
  /\ grid \in [Rob!Square -> Cells] /\ position \in [RobotIds -> Rob!Square]
  /\ moved \in [RobotIds -> BOOLEAN]
  /\ scan \in Rob!Square \cup {<<"place">>, <<"end">>}
  /\ mover \in Cells
  /\ duel \in [from : Rob!Square, to : Rob!Square, turn : {"none", "attacker", "victim"}]

KeepsPosition == \A c \in Rob!Square : grid[c] # Nobot => position[grid[c]] = c

(* While main places robots there are as many occupied cells as placed       *)
(* robots; from the first round on the count is that of the cells.           *)
PlacedCounted ==
  scan = <<"place">> =>
    /\ Cardinality(Occupied) = Cardinality(Rob!Placed) /\ count = Cardinality(RobotIds)
    /\ mover = Nobot /\ duel = Rob!NoDuel
RoundCounted == scan \in Rob!Square => count = Cardinality(Occupied)

(* The robot that moves, until it has fought, is where it thinks it is, and  *)
(* the two of a fight are on the grid until it is over.                      *)
MoverOnGrid ==
  scan \in Rob!Square /\ mover # Nobot => moved[mover] \/ grid[position[mover]] = mover
DuelOnGrid ==
  duel # Rob!NoDuel =>
    /\ scan \in Rob!Square /\ mover # Nobot /\ moved[mover]
    /\ grid[duel.from] = mover /\ grid[duel.to] # Nobot /\ duel.to # duel.from

WarEnded ==
  scan = <<"end">> => Occupied = {} /\ count = 1 /\ mover = Nobot /\ duel = Rob!NoDuel

RobInv ==
  /\ RobotTypes /\ KeepsPosition /\ PlacedCounted /\ RoundCounted /\ MoverOnGrid /\ DuelOnGrid
  /\ WarEnded
-----------------------------------------------------------------------------
(* Cells and how many are occupied. *)

LEMMA RobCardinality == ASSUME NEW S PROVE Rob!Cardinality(S) = Cardinality(S)
BY DEF Rob!Cardinality, Cardinality

LEMMA NotSquares == <<"place">> \notin Rob!Square /\ <<"end">> \notin Rob!Square /\ <<"place">> # <<"end">>
BY DEF Rob!Square, Rob!Edge

LEMMA SquareFinite == ASSUME RobotsOnGrid PROVE IsFiniteSet(Rob!Square)
<1>1. GSIZE - 1 \in Int BY DEF RobotsOnGrid
<1>2. IsFiniteSet(Rob!Edge) BY <1>1, FS_Interval DEF Rob!Edge
<1> QED BY <1>2, FS_Product DEF Rob!Square

LEMMA Corner == ASSUME RobotsOnGrid PROVE <<0, 0>> \in Rob!Square
BY DEF RobotsOnGrid, Rob!Square, Rob!Edge

LEMMA OccFinite == ASSUME RobotsOnGrid, NEW g PROVE IsFiniteSet(Occ(g)) /\ Cardinality(Occ(g)) \in Nat
<1>1. Occ(g) \subseteq Rob!Square BY DEF Occ
<1> QED BY <1>1, SquareFinite, FS_Subset, FS_CardinalityType

(* A neighbour is another cell of the grid. *)
LEMMA NeighbourElsewhere ==
  ASSUME RobotsOnGrid, NEW c \in Rob!Square, NEW to \in Rob!Neighbours(c)
  PROVE to \in Rob!Square /\ to # c
<1>1. to \in Rob!Square BY DEF Rob!Neighbours
<1>2. PICK d \in {<<0, 1>>, <<1, 0>>, <<0, -1>>, <<-1, 0>>} : to = <<c[1] + d[1], c[2] + d[2]>>
  BY DEF Rob!Neighbours
<1>3. c[1] \in Int /\ c[2] \in Int BY DEF Rob!Square, Rob!Edge, RobotsOnGrid
<1>4. d[1] \in Int /\ d[2] \in Int /\ (d[1] # 0 \/ d[2] # 0) BY <1>2
<1>5. to[1] = c[1] + d[1] /\ to[2] = c[2] + d[2] BY <1>2
<1>6. to[1] # c[1] \/ to[2] # c[2] BY <1>3, <1>4, <1>5
<1> QED BY <1>1, <1>6

(* A robot comes to a free cell. *)
LEMMA Filled ==
  ASSUME RobotsOnGrid, NEW g \in [Rob!Square -> Cells], NEW c \in Rob!Square, g[c] = Nobot,
         NEW r \in RobotIds
  PROVE Cardinality(Occ([g EXCEPT ![c] = r])) = Cardinality(Occ(g)) + 1
<1>1. Occ([g EXCEPT ![c] = r]) = Occ(g) \cup {c} BY DEF Occ, RobotsOnGrid
<1>2. c \notin Occ(g) BY DEF Occ
<1> QED BY <1>1, <1>2, OccFinite, FS_AddElement

(* A robot is taken off its cell. *)
LEMMA Emptied ==
  ASSUME RobotsOnGrid, NEW g \in [Rob!Square -> Cells], NEW c \in Rob!Square, g[c] # Nobot
  PROVE /\ Occ([g EXCEPT ![c] = Nobot]) = Occ(g) \ {c}
        /\ Cardinality(Occ([g EXCEPT ![c] = Nobot])) = Cardinality(Occ(g)) - 1
<1>1. Occ([g EXCEPT ![c] = Nobot]) = Occ(g) \ {c} BY DEF Occ
<1>2. c \in Occ(g) BY DEF Occ
<1> QED BY <1>1, <1>2, OccFinite, FS_RemoveElement

(* A robot goes to another cell, a free one or that of its victim. *)
LEMMA Goes ==
  ASSUME RobotsOnGrid, NEW g \in [Rob!Square -> Cells], NEW from \in Rob!Square, NEW to \in Rob!Square,
         NEW r \in RobotIds, from # to, g[from] # Nobot
  PROVE /\ g[to] = Nobot => Cardinality(Occ([g EXCEPT ![from] = Nobot, ![to] = r])) = Cardinality(Occ(g))
        /\ g[to] # Nobot => Cardinality(Occ([g EXCEPT ![from] = Nobot, ![to] = r])) = Cardinality(Occ(g)) - 1
<1> DEFINE e == [g EXCEPT ![from] = Nobot]
           h == [g EXCEPT ![from] = Nobot, ![to] = r]
<1>1. e \in [Rob!Square -> Cells] /\ e[to] = g[to] BY DEF Cells
<1>2. Cardinality(Occ(e)) = Cardinality(Occ(g)) - 1 BY Emptied
<1>3. h = [e EXCEPT ![to] = r] OBVIOUS
<1>4. CASE g[to] = Nobot
  <2> HIDE DEF e
  <2>1. Cardinality(Occ([e EXCEPT ![to] = r])) = Cardinality(Occ(e)) + 1 BY <1>1, <1>4, Filled
  <2> QED BY <2>1, <1>2, <1>3, <1>4, OccFinite
<1>5. CASE g[to] # Nobot
  <2>1. Occ(h) = Occ(e) BY <1>1, <1>5 DEF Occ, RobotsOnGrid
  <2> QED BY <2>1, <1>2, <1>5
<1> QED BY <1>4, <1>5
-----------------------------------------------------------------------------
(* The actions. *)

LEMMA PlaceKeeps ==
  ASSUME RobotsOnGrid, RobInv, NEW r \in RobotIds, Rob!Place(r) PROVE RobInv'
<1> USE DEF RobInv
<1>1. PICK c \in Rob!Square :
        /\ grid[c] = Nobot
        /\ grid' = [grid EXCEPT ![c] = r]
        /\ position' = [position EXCEPT ![r] = c]
  BY DEF Rob!Place
<1>2. /\ scan = <<"place">> /\ scan' = scan /\ mover' = mover /\ duel' = duel /\ moved' = moved /\ count' = count
      /\ r \notin Rob!Placed
  BY DEF Rob!Place
<1>3. RobotTypes' BY <1>1, <1>2 DEF RobotTypes, Cells
<1>4. KeepsPosition'
  <2> SUFFICES ASSUME NEW d \in Rob!Square, grid'[d] # Nobot PROVE position'[grid'[d]] = d
    BY DEF KeepsPosition
  <2>1. CASE d = c BY <1>1, <2>1 DEF RobotTypes
  <2>2. CASE d # c
    <3>1. grid'[d] = grid[d] BY <1>1, <2>2 DEF RobotTypes
    <3>2. grid[d] \in RobotIds BY <3>1 DEF RobotTypes, Cells
    <3>3. grid[d] # r BY <1>2, <3>2 DEF Rob!Placed
    <3> QED BY <1>1, <3>1, <3>2, <3>3 DEF RobotTypes, KeepsPosition
  <2> QED BY <2>1, <2>2
<1>5. Cardinality(Occupied') = Cardinality(Rob!Placed')
  <2>1. Cardinality(Occ([grid EXCEPT ![c] = r])) = Cardinality(Occ(grid)) + 1
    BY <1>1, Filled DEF RobotTypes
  <2>2. Rob!Placed' = Rob!Placed \cup {r}
    <3>1. ASSUME NEW q \in Rob!Placed' PROVE q \in Rob!Placed \cup {r}
      BY <1>1 DEF Rob!Placed, RobotTypes
    <3>2. r \in Rob!Placed' BY <1>1 DEF Rob!Placed, RobotTypes
    <3>3. ASSUME NEW q \in Rob!Placed PROVE q \in Rob!Placed'
      <4>1. PICK d \in Rob!Square : grid[d] = q BY DEF Rob!Placed
      <4>2. q \in RobotIds /\ d # c BY <1>1, <4>1 DEF Rob!Placed, RobotsOnGrid
      <4> QED BY <1>1, <4>1, <4>2 DEF Rob!Placed, RobotTypes
    <3> QED BY <3>1, <3>2, <3>3
  <2>3. IsFiniteSet(Rob!Placed)
    <3>1. Rob!Placed \subseteq RobotIds BY DEF Rob!Placed
    <3> QED BY <3>1, FS_Subset DEF RobotsOnGrid
  <2>4. Cardinality(Rob!Placed') = Cardinality(Rob!Placed) + 1 BY <1>2, <2>2, <2>3, FS_AddElement
  <2> QED BY <1>1, <1>2, <2>1, <2>4 DEF Occupied, PlacedCounted, Occ
<1>6. PlacedCounted' BY <1>2, <1>5 DEF PlacedCounted, Rob!NoDuel
<1> QED
  BY <1>2, <1>3, <1>4, <1>6, NotSquares DEF RoundCounted, MoverOnGrid, DuelOnGrid, WarEnded, PlacedCounted,
     Rob!Square, Rob!Edge, Rob!NoDuel

LEMMA FirstRoundKeeps == ASSUME RobotsOnGrid, RobInv, Rob!FirstRound PROVE RobInv'
<1> USE DEF RobInv
<1>1. /\ scan = <<"place">> /\ Rob!Placed = RobotIds /\ scan' = <<0, 0>>
      /\ grid' = grid /\ position' = position /\ moved' = moved /\ count' = count /\ mover' = mover
      /\ duel' = duel
  BY DEF Rob!FirstRound
<1>2. scan' \in Rob!Square BY <1>1, Corner
<1>3. RobotTypes' BY <1>1, <1>2 DEF RobotTypes
<1>4. KeepsPosition' BY <1>1 DEF KeepsPosition
<1>5. RoundCounted' BY <1>1 DEF RoundCounted, PlacedCounted, Occupied, Occ
<1>6. mover = Nobot /\ duel = Rob!NoDuel BY <1>1 DEF PlacedCounted
<1>7. PlacedCounted' /\ WarEnded' BY <1>2, NotSquares DEF PlacedCounted, WarEnded
<1>8. MoverOnGrid' BY <1>1, <1>6 DEF MoverOnGrid
<1>9. DuelOnGrid' BY <1>1, <1>6 DEF DuelOnGrid, Rob!NoDuel
<1> QED BY <1>3, <1>4, <1>5, <1>7, <1>8, <1>9

LEMMA EnterCellKeeps == ASSUME RobotsOnGrid, RobInv, Rob!EnterCell PROVE RobInv'
<1> USE DEF RobInv
<1>1. /\ scan \in Rob!Square /\ duel = Rob!NoDuel /\ grid[scan] # Nobot
      /\ scan' = scan /\ mover' = grid[scan]
      /\ grid' = grid /\ position' = position /\ moved' = moved /\ count' = count /\ duel' = duel
  BY DEF Rob!EnterCell, Rob!AtCell, Rob!MayMove
<1>2. RobotTypes' BY <1>1 DEF RobotTypes
<1>3. KeepsPosition' BY <1>1 DEF KeepsPosition
<1>4. RoundCounted' BY <1>1 DEF RoundCounted, Occupied, Occ
<1>5. PlacedCounted' /\ WarEnded' BY <1>1, NotSquares DEF PlacedCounted, WarEnded
<1>6. position[grid[scan]] = scan BY <1>1 DEF KeepsPosition
<1>7. MoverOnGrid' BY <1>1, <1>6 DEF MoverOnGrid
<1>8. DuelOnGrid' BY <1>1 DEF DuelOnGrid, Rob!NoDuel
<1> QED BY <1>2, <1>3, <1>4, <1>5, <1>7, <1>8

LEMMA NextCellKeeps == ASSUME RobotsOnGrid, RobInv, Rob!NextCell PROVE RobInv'
<1> USE DEF RobInv
<1>1. /\ scan \in Rob!Square /\ duel = Rob!NoDuel /\ mover' = Nobot
      /\ grid' = grid /\ position' = position /\ count' = count /\ duel' = duel
  BY DEF Rob!NextCell, Rob!AtCell
<1>2. scan' \in Rob!Square /\ moved' \in [RobotIds -> BOOLEAN]
  <2>1. CASE scan = <<GSIZE - 1, GSIZE - 1>>
    <3>1. scan' = <<0, 0>> /\ moved' = [r \in RobotIds |-> moved[r] /\ r \notin Rob!Placed]
      BY <2>1 DEF Rob!NextCell
    <3>2. moved' \in [RobotIds -> BOOLEAN] BY <3>1
    <3> QED BY <3>1, <3>2, Corner
  <2>2. CASE scan # <<GSIZE - 1, GSIZE - 1>>
    <3>1. /\ scan' = IF scan[2] = GSIZE - 1 THEN <<scan[1] + 1, 0>> ELSE <<scan[1], scan[2] + 1>>
          /\ moved' = moved
      BY <2>2 DEF Rob!NextCell
    <3>2. scan = <<scan[1], scan[2]>> /\ scan[1] \in 0 .. GSIZE - 1 /\ scan[2] \in 0 .. GSIZE - 1
      BY <1>1 DEF Rob!Square, Rob!Edge
    <3>3. scan' \in Rob!Square
      <4>1. CASE scan[2] = GSIZE - 1
        <5>1. scan[1] # GSIZE - 1 BY <2>2, <3>2, <4>1
        <5>2. scan[1] + 1 \in 0 .. GSIZE - 1 /\ 0 \in 0 .. GSIZE - 1 BY <3>2, <5>1 DEF RobotsOnGrid
        <5> QED BY <3>1, <4>1, <5>2 DEF Rob!Square, Rob!Edge
      <4>2. CASE scan[2] # GSIZE - 1
        <5>1. scan[2] + 1 \in 0 .. GSIZE - 1 BY <3>2, <4>2 DEF RobotsOnGrid
        <5> QED BY <3>1, <3>2, <4>2, <5>1 DEF Rob!Square, Rob!Edge
      <4> QED BY <4>1, <4>2
    <3> QED BY <3>1, <3>3 DEF RobotTypes
  <2> QED BY <2>1, <2>2
<1>3. RobotTypes' BY <1>1, <1>2 DEF RobotTypes, Cells
<1>4. KeepsPosition' BY <1>1 DEF KeepsPosition
<1>5. RoundCounted' BY <1>1 DEF RoundCounted, Occupied, Occ
<1>6. PlacedCounted' /\ WarEnded' BY <1>2, NotSquares DEF PlacedCounted, WarEnded
<1>7. MoverOnGrid' BY <1>1 DEF MoverOnGrid
<1>8. DuelOnGrid' BY <1>1 DEF DuelOnGrid, Rob!NoDuel
<1> QED BY <1>3, <1>4, <1>5, <1>6, <1>7, <1>8

LEMMA WinKeeps == ASSUME RobotsOnGrid, RobInv, Rob!Win PROVE RobInv'
<1> USE DEF RobInv
<1>1. PICK c \in Rob!Square : grid[c] # Nobot /\ grid' = [grid EXCEPT ![c] = Nobot]
  BY DEF Rob!Win
<1>2. /\ scan \in Rob!Square /\ duel = Rob!NoDuel /\ count = 1
      /\ scan' = <<"end">> /\ mover' = Nobot
      /\ position' = position /\ moved' = moved /\ count' = count /\ duel' = duel
  BY DEF Rob!Win, Rob!AtCell
<1>3. RobotTypes' BY <1>1, <1>2 DEF RobotTypes, Cells
<1>4. KeepsPosition' BY <1>1, <1>2 DEF KeepsPosition, RobotTypes
<1>5. Occupied' = {}
  <2>1. Cardinality(Occ([grid EXCEPT ![c] = Nobot])) = Cardinality(Occ(grid)) - 1
    BY <1>1, Emptied DEF RobotTypes
  <2>2. Cardinality(Occ(grid)) = 1 BY <1>2 DEF RoundCounted, Occupied
  <2>3. Occupied' = Occ([grid EXCEPT ![c] = Nobot]) BY <1>1 DEF Occupied, Occ
  <2> HIDE DEF Occ
  <2> QED BY <2>1, <2>2, <2>3, OccFinite, FS_EmptySet
<1>6. WarEnded' BY <1>2, <1>5 DEF WarEnded, Rob!NoDuel
<1>7. PlacedCounted' /\ RoundCounted' /\ MoverOnGrid'
  BY <1>2, NotSquares DEF PlacedCounted, RoundCounted, MoverOnGrid, Rob!Square, Rob!Edge
<1>8. DuelOnGrid' BY <1>2 DEF DuelOnGrid, Rob!NoDuel
<1> QED BY <1>3, <1>4, <1>6, <1>7, <1>8

LEMMA MoveKeeps == ASSUME RobotsOnGrid, RobInv, Rob!Move PROVE RobInv'
<1> USE DEF RobInv
<1>1. /\ scan \in Rob!Square /\ duel = Rob!NoDuel /\ mover # Nobot /\ ~moved[mover]
      /\ scan' = scan /\ mover' = mover /\ moved' = moved /\ count' = count /\ duel' = duel
  BY DEF Rob!Move, Rob!AtCell, Rob!MayMove
<1>2. mover \in RobotIds BY <1>1 DEF RobotTypes, Cells
<1>3. PICK from \in Rob!Square : from = position[mover] BY <1>2 DEF RobotTypes
<1>4. grid[from] = mover BY <1>1, <1>3 DEF MoverOnGrid
<1>5. PICK to \in Rob!Neighbours(from) :
        /\ grid[to] = Nobot
        /\ grid' = [grid EXCEPT ![from] = Nobot, ![to] = mover]
        /\ position' = [position EXCEPT ![mover] = to]
  BY <1>3 DEF Rob!Move
<1>6. to \in Rob!Square /\ to # from BY NeighbourElsewhere
<1>7. RobotTypes' BY <1>1, <1>2, <1>5, <1>6 DEF RobotTypes, Cells
<1>8. KeepsPosition'
  <2> SUFFICES ASSUME NEW d \in Rob!Square, grid'[d] # Nobot PROVE position'[grid'[d]] = d
    BY DEF KeepsPosition
  <2>1. CASE d = to BY <1>2, <1>5, <1>6, <2>1 DEF RobotTypes
  <2>2. CASE d # to
    <3>1. d # from /\ grid'[d] = grid[d] BY <1>5, <1>6, <2>2 DEF RobotTypes
    <3>2. position[grid[d]] = d BY <3>1 DEF KeepsPosition
    <3>3. grid[d] # mover BY <1>3, <3>1, <3>2
    <3>4. grid[d] \in RobotIds BY <3>1 DEF RobotTypes, Cells
    <3> QED BY <1>5, <3>1, <3>2, <3>3, <3>4 DEF RobotTypes
  <2> QED BY <2>1, <2>2
<1>9. RoundCounted'
  <2>1. Cardinality(Occ(grid')) = Cardinality(Occ(grid))
    <3>1. grid \in [Rob!Square -> Cells] /\ to \in Rob!Square /\ from # to /\ grid[from] # Nobot
      BY <1>1, <1>4, <1>6 DEF RobotTypes
    <3>2. grid[to] = Nobot =>
            Cardinality(Occ([grid EXCEPT ![from] = Nobot, ![to] = mover])) = Cardinality(Occ(grid))
      BY ZenonT(30), <1>2, <3>1, Goes
    <3> QED BY <1>5, <3>2
  <2> QED BY <1>1, <2>1 DEF RoundCounted, Occupied, Occ
<1>10. PlacedCounted' /\ WarEnded' BY <1>1, NotSquares DEF PlacedCounted, WarEnded
<1>11. MoverOnGrid' BY <1>2, <1>5, <1>6, <1>1 DEF MoverOnGrid, RobotTypes
<1>12. DuelOnGrid' BY <1>1 DEF DuelOnGrid, Rob!NoDuel
<1> QED BY <1>7, <1>8, <1>9, <1>10, <1>11, <1>12

LEMMA AttackKeeps == ASSUME RobotsOnGrid, RobInv, Rob!Attack PROVE RobInv'
<1> USE DEF RobInv
<1>1. /\ scan \in Rob!Square /\ mover # Nobot /\ ~moved[mover]
      /\ scan' = scan /\ mover' = mover /\ grid' = grid /\ position' = position /\ count' = count
      /\ moved' = [moved EXCEPT ![mover] = TRUE]
  BY DEF Rob!Attack, Rob!AtCell, Rob!MayMove
<1>2. mover \in RobotIds BY <1>1 DEF RobotTypes, Cells
<1>3. PICK from \in Rob!Square : from = position[mover] BY <1>2 DEF RobotTypes
<1>4. grid[from] = mover BY <1>1, <1>3 DEF MoverOnGrid
<1>5. PICK to \in Rob!Neighbours(from) :
        grid[to] # Nobot /\ duel' = [from |-> from, to |-> to, turn |-> "attacker"]
  BY <1>3 DEF Rob!Attack
<1>6. to \in Rob!Square /\ to # from BY NeighbourElsewhere
<1>7. RobotTypes' BY <1>1, <1>2, <1>5, <1>6 DEF RobotTypes
<1>8. KeepsPosition' BY <1>1 DEF KeepsPosition
<1>9. RoundCounted' BY <1>1 DEF RoundCounted, Occupied, Occ
<1>10. PlacedCounted' /\ WarEnded' BY <1>1, NotSquares DEF PlacedCounted, WarEnded
<1>11. moved'[mover] BY <1>1, <1>2 DEF RobotTypes
<1>12. MoverOnGrid' BY <1>1, <1>11 DEF MoverOnGrid
<1>13. DuelOnGrid' BY <1>1, <1>4, <1>5, <1>6, <1>11 DEF DuelOnGrid
<1> QED BY <1>7, <1>8, <1>9, <1>10, <1>12, <1>13

(* One of the two loses: one cell less is occupied. *)
LEMMA FightEndsKeeps ==
  ASSUME RobotsOnGrid, RobInv, duel # Rob!NoDuel, NEW loser, Rob!FightEnds(loser),
         scan' = scan, moved' = moved, mover' = mover
  PROVE RobInv'
<1> USE DEF RobInv
<1>1. /\ scan \in Rob!Square /\ mover # Nobot /\ moved[mover]
      /\ grid[duel.from] = mover /\ grid[duel.to] # Nobot /\ duel.to # duel.from
  BY DEF DuelOnGrid
<1>2. mover \in RobotIds BY <1>1 DEF RobotTypes, Cells
<1>3. PICK from \in Rob!Square, to \in Rob!Square : from = duel.from /\ to = duel.to
  BY DEF RobotTypes
<1>4. position[mover] = from BY <1>1, <1>3 DEF KeepsPosition
<1>5. /\ grid' = IF loser = "attacker" THEN [grid EXCEPT ![from] = Nobot]
                 ELSE [grid EXCEPT ![from] = Nobot, ![to] = mover]
      /\ count' = count - 1
      /\ position' = [position EXCEPT ![mover] = to]
      /\ duel' = Rob!NoDuel
  BY <1>3 DEF Rob!FightEnds
<1>6. duel' \in [from : Rob!Square, to : Rob!Square, turn : {"none", "attacker", "victim"}]
  BY <1>5, Corner DEF Rob!NoDuel
<1>7. RobotTypes' BY <1>2, <1>5, <1>6 DEF RobotTypes, Cells
<1>8. KeepsPosition'
  <2> SUFFICES ASSUME NEW d \in Rob!Square, grid'[d] # Nobot PROVE position'[grid'[d]] = d
    BY DEF KeepsPosition
  <2>1. CASE d = to /\ loser # "attacker" BY <1>2, <1>5, <2>1 DEF RobotTypes
  <2>2. CASE d # to \/ loser = "attacker"
    <3>1. d # from /\ grid'[d] = grid[d] BY <1>1, <1>3, <1>5, <2>2 DEF RobotTypes
    <3>2. position[grid[d]] = d BY <3>1 DEF KeepsPosition
    <3>3. grid[d] # mover BY <1>4, <3>1, <3>2
    <3>4. grid[d] \in RobotIds BY <3>1 DEF RobotTypes, Cells
    <3> QED BY <1>5, <3>1, <3>2, <3>3, <3>4 DEF RobotTypes
  <2> QED BY <2>1, <2>2
<1>9. RoundCounted'
  <2>1. Cardinality(Occ(grid')) = Cardinality(Occ(grid)) - 1
    <3>1. CASE loser = "attacker"
      BY <1>1, <1>3, <1>5, <3>1, Emptied DEF RobotTypes
    <3>2. CASE loser # "attacker"
      <4>1. grid \in [Rob!Square -> Cells] /\ from # to /\ grid[from] # Nobot /\ grid[to] # Nobot
        BY <1>1, <1>3 DEF RobotTypes
      <4>2. grid' = [grid EXCEPT ![from] = Nobot, ![to] = mover] BY <1>5, <3>2
      <4> QED BY ZenonT(30), <1>2, <4>1, <4>2, Goes
    <3> QED BY <3>1, <3>2
  <2>2. count = Cardinality(Occ(grid)) BY <1>1 DEF RoundCounted, Occupied
  <2>3. Occupied' = Occ(grid') BY DEF Occupied, Occ
  <2> QED BY <1>5, <2>1, <2>2, <2>3 DEF RoundCounted
<1>10. PlacedCounted' /\ WarEnded' BY <1>1, NotSquares DEF PlacedCounted, WarEnded
<1>11. MoverOnGrid' BY <1>1 DEF MoverOnGrid
<1>12. DuelOnGrid' BY <1>5 DEF DuelOnGrid, Rob!NoDuel
<1> QED BY <1>7, <1>8, <1>9, <1>10, <1>11, <1>12

LEMMA FightGoesOnKeeps ==
  ASSUME RobotsOnGrid, RobInv, duel # Rob!NoDuel, NEW turn \in {"attacker", "victim"},
         Rob!FightGoesOn(turn), scan' = scan, moved' = moved, mover' = mover
  PROVE RobInv'
<1> USE DEF RobInv
<1>1. /\ duel' = [duel EXCEPT !.turn = turn]
      /\ grid' = grid /\ position' = position /\ count' = count
  BY DEF Rob!FightGoesOn
<1>2. /\ scan \in Rob!Square /\ mover # Nobot /\ moved[mover]
      /\ grid[duel.from] = mover /\ grid[duel.to] # Nobot /\ duel.to # duel.from
  BY DEF DuelOnGrid
<1>3. duel'.from = duel.from /\ duel'.to = duel.to BY <1>1 DEF RobotTypes
<1>4. RobotTypes' BY <1>1 DEF RobotTypes
<1>5. KeepsPosition' BY <1>1 DEF KeepsPosition
<1>6. RoundCounted' BY <1>1 DEF RoundCounted, Occupied, Occ
<1>7. PlacedCounted' /\ WarEnded' BY <1>2, NotSquares DEF PlacedCounted, WarEnded
<1>8. MoverOnGrid' BY <1>2 DEF MoverOnGrid
<1>9. DuelOnGrid' BY <1>1, <1>2, <1>3 DEF DuelOnGrid
<1> QED BY <1>4, <1>5, <1>6, <1>7, <1>8, <1>9

LEMMA HitsKeep == ASSUME RobotsOnGrid, RobInv, Rob!Hit \/ Rob!HitBack PROVE RobInv'
<1>1. /\ duel # Rob!NoDuel /\ scan' = scan /\ moved' = moved /\ mover' = mover
      /\ \/ \E loser \in {"attacker", "victim"} : Rob!FightEnds(loser)
         \/ \E turn \in {"attacker", "victim"} : Rob!FightGoesOn(turn)
  <2>1. CASE Rob!Hit
    <3>1. duel.turn = "attacker" /\ scan' = scan /\ moved' = moved /\ mover' = mover
      BY <2>1 DEF Rob!Hit
    <3>2. Rob!FightEnds("attacker") \/ Rob!FightEnds("victim") \/ Rob!FightGoesOn("victim")
      BY <2>1 DEF Rob!Hit
    <3> QED BY <3>1, <3>2 DEF Rob!NoDuel
  <2>2. CASE Rob!HitBack
    <3>1. duel.turn = "victim" /\ scan' = scan /\ moved' = moved /\ mover' = mover
      BY <2>2 DEF Rob!HitBack
    <3>2. Rob!FightEnds("attacker") \/ Rob!FightEnds("victim") \/ Rob!FightGoesOn("attacker")
      BY <2>2 DEF Rob!HitBack
    <3> QED BY <3>1, <3>2 DEF Rob!NoDuel
  <2> QED BY <2>1, <2>2
<1> QED BY <1>1, FightEndsKeeps, FightGoesOnKeeps
-----------------------------------------------------------------------------
(* The war. *)

LEMMA RobStarts == ASSUME RobotsOnGrid, Rob!Init PROVE RobInv
<1>1. /\ grid = [c \in Rob!Square |-> Nobot] /\ position = [r \in RobotIds |-> <<0, 0>>]
      /\ moved = [r \in RobotIds |-> FALSE]
      /\ count = Cardinality(RobotIds) /\ scan = <<"place">> /\ mover = Nobot /\ duel = Rob!NoDuel
  BY RobCardinality DEF Rob!Init
<1>2. RobotTypes BY <1>1, Corner DEF RobotTypes, Rob!NoDuel, Cells
<1>3. KeepsPosition BY <1>1 DEF KeepsPosition
<1>4. Occupied = {} /\ Rob!Placed = {} BY <1>1 DEF Occupied, Occ, Rob!Placed, RobotsOnGrid
<1>5. PlacedCounted BY <1>1, <1>4 DEF PlacedCounted
<1> QED
  BY <1>1, <1>2, <1>3, <1>5, NotSquares DEF RobInv, RoundCounted, MoverOnGrid, DuelOnGrid, WarEnded

LEMMA RobSteps == [AllNext]_allvars => [Rob!Next]_robots_vars
BY DEF AllNext, Only, allvars

(* The robot war keeps its invariant.                                        *)
THEOREM RobotsInvariant == ASSUME RobotsOnGrid PROVE AllSpec => []RobInv
<1>1. AllInit => RobInv BY RobStarts DEF AllInit
<1>2. RobInv /\ [AllNext]_allvars => RobInv'
  <2> SUFFICES ASSUME RobInv, [Rob!Next]_robots_vars PROVE RobInv' BY RobSteps
  <2>1. CASE UNCHANGED robots_vars
    BY <2>1 DEF robots_vars, RobInv, RobotTypes, KeepsPosition, PlacedCounted, RoundCounted, MoverOnGrid,
       DuelOnGrid, WarEnded, Occupied, Occ, Rob!Placed
  <2>2. CASE Rob!Next
    <3>1. CASE \E r \in RobotIds : Rob!Place(r) BY <3>1, PlaceKeeps
    <3>2. CASE Rob!FirstRound \/ Rob!EnterCell \/ Rob!NextCell \/ Rob!Win
      BY <3>2, FirstRoundKeeps, EnterCellKeeps, NextCellKeeps, WinKeeps
    <3>3. CASE Rob!Move \/ Rob!Attack \/ Rob!Hit \/ Rob!HitBack
      BY <3>3, MoveKeeps, AttackKeeps, HitsKeep
    <3> QED BY <2>2, <3>1, <3>2, <3>3 DEF Rob!Next
  <2> QED BY <2>1, <2>2
<1> QED BY <1>1, <1>2, PTL DEF AllSpec

(* The count of robots is the number of them on the grid, each where it      *)
(* thinks it is, and the winner is there to be named                         *)
(* (PA4.cpp:127-186, 240-262, 344-349).                                      *)
THEOREM RobotsAreCounted == ASSUME RobotsOnGrid PROVE AllSpec => []RobotsCounted
<1>1. RobInv => RobotsCounted
  <2> SUFFICES ASSUME RobInv PROVE Rob!RobotsCounted BY DEF RobotsCounted
  <2>1. scan \in Rob!Square => count = Rob!Cardinality({c \in Rob!Square : grid[c] # Nobot})
    BY RobCardinality DEF RobInv, RoundCounted, Occupied, Occ
  <2>2. scan = <<"end">> => Rob!Placed = {} /\ count = 1
    BY DEF RobInv, WarEnded, Occupied, Occ, Rob!Placed, RobotsOnGrid
  <2> QED BY <2>1, <2>2 DEF RobInv, KeepsPosition, Rob!RobotsCounted
<1> QED BY <1>1, RobotsInvariant, PTL
-----------------------------------------------------------------------------
(* The hardware system, for any configurations.  What the log of a port      *)
(* tells before an entry:                                                    *)
OnBefore(book, i) ==
  \E k \in 1 .. i - 1 : book[k] = "turnON" /\ \A j \in k + 1 .. i - 1 : book[j] # "turnOFF"

Tells(book, i) ==
  /\ book[i] = "opened" => i = 1
  /\ book[i] = "turnON" => ~OnBefore(book, i)
  /\ book[i] \notin {"opened", "turnON"} => OnBefore(book, i)

(* The log of a port whose device is ON, or not. *)
Story(book, on) ==
  /\ \A i \in 1 .. Len(book) : Tells(book, i)
  /\ OnBefore(book, Len(book) + 1) <=> on

(* What one more entry makes of a story. *)
Follows(x, on) == IF x = "turnON" THEN ~on ELSE x # "opened" /\ on

LEMMA OneMoreEntry ==
  ASSUME NEW book \in Seq(Hrd!Entries), NEW e \in Hrd!Entries, NEW on \in BOOLEAN,
         Story(book, on), Follows(e, on)
  PROVE  Append(book, e) \in Seq(Hrd!Entries) /\ Story(Append(book, e), e # "turnOFF")
<1> DEFINE t == Append(book, e)
           n == Len(book)
<1>1. /\ t \in Seq(Hrd!Entries) /\ Len(t) = n + 1 /\ n \in Nat
      /\ \A i \in 1 .. n : t[i] = book[i]
      /\ t[n + 1] = e
  OBVIOUS
<1> HIDE DEF t, n
<1>2. ASSUME NEW i \in 1 .. n + 1 PROVE OnBefore(t, i) <=> OnBefore(book, i)
  BY <1>1, <1>2 DEF OnBefore
<1>3. OnBefore(book, n + 1) <=> on BY DEF Story, n
<1>4. ASSUME NEW i \in 1 .. n PROVE Tells(t, i)
  <2>1. Tells(book, i) BY <1>4 DEF Story, n
  <2>2. t[i] = book[i] /\ i \in 1 .. n + 1 BY <1>1, <1>4
  <2> QED BY <2>1, <2>2, <1>2 DEF Tells
<1>5. Tells(t, n + 1)
  <2>1. OnBefore(t, n + 1) <=> on BY <1>1, <1>2, <1>3
  <2>2. t[n + 1] = e BY <1>1
  <2> QED BY <2>1, <2>2 DEF Tells, Follows
<1>6. OnBefore(t, n + 2) <=> e # "turnOFF"
  <2>1. CASE e = "turnOFF"
    <3>1. ASSUME NEW k \in 1 .. n + 1, t[k] = "turnON" PROVE n + 1 \in k + 1 .. n + 1
      BY <1>1, <2>1, <3>1
    <3> QED BY <1>1, <2>1, <3>1 DEF OnBefore
  <2>2. CASE e = "turnON"
    <3>1. n + 1 \in 1 .. n + 1 /\ t[n + 1] = "turnON" /\ n + 2 - 1 = n + 1 BY <1>1, <2>2
    <3>2. \A j \in n + 2 .. n + 1 : t[j] # "turnOFF" BY <1>1
    <3> QED BY <1>1, <2>2, <3>1, <3>2 DEF OnBefore
  <2>3. CASE e \notin {"turnON", "turnOFF"}
    <3>1. OnBefore(t, n + 1) BY <1>1, <1>2, <1>3, <2>3 DEF Follows
    <3>2. PICK k \in 1 .. n : t[k] = "turnON" /\ \A j \in k + 1 .. n : t[j] # "turnOFF"
      BY <1>1, <3>1 DEF OnBefore
    <3>3. \A j \in k + 1 .. (n + 2) - 1 : t[j] # "turnOFF" BY <1>1, <2>3, <3>2
    <3>4. k \in 1 .. (n + 2) - 1 /\ t[k] = "turnON" BY <1>1, <3>2
    <3>5. OnBefore(t, n + 2) BY <3>3, <3>4, Zenon DEF OnBefore
    <3> QED BY <2>3, <3>5
  <2> QED BY <2>1, <2>2, <2>3
<1>7. Story(t, e # "turnOFF")
  <2>1. \A i \in 1 .. n + 1 : Tells(t, i)
    <3> SUFFICES ASSUME NEW i \in 1 .. n + 1 PROVE Tells(t, i) OBVIOUS
    <3>1. i \in 1 .. n \/ i = n + 1 BY <1>1
    <3> QED BY <3>1, <1>4, <1>5
  <2>2. Len(t) + 1 = n + 2 BY <1>1
  <2> QED BY <1>1, <1>6, <2>1, <2>2 DEF Story
<1> QED BY <1>1, <1>7 DEF t

(* Write logs an entry once or twice. *)
LEMMA MoreEntries ==
  ASSUME NEW book \in Seq(Hrd!Entries), NEW e \in Hrd!Entries, NEW on \in BOOLEAN,
         Story(book, on), Follows(e, on),
         NEW n \in {1, 2}, n = 2 => e \notin {"turnON", "turnOFF"}
  PROVE  LET t == book \o [i \in 1 .. n |-> e] IN
         t \in Seq(Hrd!Entries) /\ Story(t, e # "turnOFF")
<1>1. CASE n = 1
  <2>1. book \o [i \in 1 .. 1 |-> e] = Append(book, e) OBVIOUS
  <2> QED BY <1>1, <2>1, OneMoreEntry
<1>2. CASE n = 2
  <2>1. book \o [i \in 1 .. 2 |-> e] = Append(Append(book, e), e) OBVIOUS
  <2>2. PICK u : u = Append(book, e) OBVIOUS
  <2>3. u \in Seq(Hrd!Entries) /\ Story(u, TRUE) BY <1>2, <2>2, OneMoreEntry
  <2>4. Follows(e, TRUE) BY <1>2 DEF Follows
  <2>5. Append(u, e) \in Seq(Hrd!Entries) /\ Story(Append(u, e), e # "turnOFF")
    BY <2>3, <2>4, OneMoreEntry
  <2> QED BY <1>2, <2>1, <2>2, <2>5
<1> QED BY <1>1, <1>2
-----------------------------------------------------------------------------
(* The three places in which a device is known agree. *)
HrdTypes ==
  /\ stage \in {"config", "commands", "exit"} /\ (stage = "config" => DOMAIN ports = {})
  /\ ports = [p \in DOMAIN ports |-> [protocol |-> ports[p].protocol, device |-> ports[p].device]]
  /\ listed = [k \in Hrd!Kinds |-> listed[k]]
  /\ \A k \in Hrd!Kinds : listed[k] = [ident \in DOMAIN listed[k] |-> listed[k][ident]]

KnownAtPort(p, d) ==
  d # Hrd!NoDevice =>
    /\ d.port = p /\ d.kind \in Hrd!Kinds /\ d.id \in DOMAIN listed[d.kind]
    /\ listed[d.kind][d.id] = d /\ ports[p].protocol \in Hrd!Accepts[d.type]
PortsKnown == \A p \in DOMAIN ports : KnownAtPort(p, ports[p].device)

AtItsPort(d) == d # Hrd!NoDevice /\ d.port \in DOMAIN ports /\ ports[d.port].device = d
ListKnown ==
  \A kind \in Hrd!Kinds : \A ident \in DOMAIN listed[kind] :
    listed[kind][ident] # Hrd!NoDevice =>
      listed[kind][ident].kind = kind /\ listed[kind][ident].id = ident /\ AtItsPort(listed[kind][ident])
PoweredKnown == \A d \in powered : AtItsPort(d)

(* And each log tells what happened at its port. *)
StackTells(p) ==
  log_stacks[p] \in Seq(Hrd!Entries) /\ Story(log_stacks[p], ports[p].device \in powered)
LogsTell ==
  /\ stage = "commands" =>
       /\ log_stacks = [p \in DOMAIN ports |-> log_stacks[p]]
       /\ \A p \in DOMAIN ports : StackTells(p)
  /\ stage = "exit" =>
       \A p \in DOMAIN ports :
         /\ Hrd!Reverse(log_files[p]) \in Seq(Hrd!Entries)
         /\ Story(Hrd!Reverse(log_files[p]), ports[p].device \in powered)

HrdInv == HrdTypes /\ PortsKnown /\ ListKnown /\ PoweredKnown /\ LogsTell

LEMMA DeviceIsOne ==
  ASSUME NEW kind \in Hrd!Kinds, NEW type, NEW ident, NEW p
  PROVE LET d == Hrd!Device(kind, type, ident, p) IN
        d # Hrd!NoDevice /\ d.kind = kind /\ d.type = type /\ d.id = ident /\ d.port = p
BY DEF Hrd!Device, Hrd!NoDevice, Hrd!Kinds, Hrd!TypesOf

LEMMA LoadKeeps == ASSUME HrdInv, Hrd!LoadConfiguration PROVE HrdInv'
<1>1. stage = "config" /\ stage' = "commands" /\ powered' = powered BY DEF Hrd!LoadConfiguration
<1>2. PICK config \in Configs :
        LET names == Hrd!SelectSeq(config.ports, LAMBDA n : n \in Hrd!Protocols) IN
        /\ ports' = [p \in DOMAIN names |-> [protocol |-> names[p], device |-> Hrd!NoDevice]]
        /\ listed' = [k \in Hrd!Kinds |-> [ident \in 0 .. config.max[k] - 1 |-> Hrd!NoDevice]]
        /\ log_stacks' = [p \in DOMAIN names |-> <<"opened">>]
  BY DEF Hrd!LoadConfiguration
<1>3. PICK names :
        /\ ports' = [p \in DOMAIN names |-> [protocol |-> names[p], device |-> Hrd!NoDevice]]
        /\ log_stacks' = [p \in DOMAIN names |-> <<"opened">>]
  BY <1>2
<1>4. powered = {} BY <1>1 DEF HrdInv, HrdTypes, PoweredKnown, AtItsPort
<1>5. HrdTypes'
  <2>1. DOMAIN ports' = DOMAIN names /\ \A p \in DOMAIN names :
          ports'[p] = [protocol |-> ports'[p].protocol, device |-> ports'[p].device]
    BY <1>3
  <2>2. ports' = [p \in DOMAIN ports' |-> [protocol |-> ports'[p].protocol, device |-> ports'[p].device]]
    BY <1>3, <2>1
  <2>3. /\ listed' = [k \in Hrd!Kinds |-> listed'[k]]
        /\ \A k \in Hrd!Kinds : listed'[k] = [ident \in DOMAIN listed'[k] |-> listed'[k][ident]]
    BY <1>2
  <2> QED BY <1>1, <2>2, <2>3 DEF HrdTypes
<1>6. PortsKnown' BY <1>3 DEF PortsKnown, KnownAtPort
<1>7. ListKnown' BY <1>2 DEF ListKnown
<1>8. PoweredKnown' BY <1>1, <1>4 DEF PoweredKnown
<1>9. LogsTell'
  <2>1. <<"opened">> \in Seq(Hrd!Entries) BY DEF Hrd!Entries
  <2>2. Story(<<"opened">>, FALSE)
    <3>1. Len(<<"opened">>) = 1 /\ <<"opened">>[1] = "opened" OBVIOUS
    <3>2. Tells(<<"opened">>, 1) BY <3>1 DEF Tells
    <3>3. ~OnBefore(<<"opened">>, 2) BY <3>1 DEF OnBefore
    <3> QED BY <3>1, <3>2, <3>3 DEF Story
  <2>3. DOMAIN ports' = DOMAIN names /\ log_stacks' = [p \in DOMAIN ports' |-> log_stacks'[p]]
    BY <1>3
  <2>4. ASSUME NEW p \in DOMAIN ports' PROVE StackTells(p)'
    <3>1. log_stacks'[p] = <<"opened">> /\ ~(ports'[p].device \in powered')
      BY <1>1, <1>3, <1>4, <2>3, <2>4
    <3>2. Story(log_stacks'[p], ports'[p].device \in powered') BY <2>2, <3>1 DEF Story
    <3> QED BY <2>1, <3>1, <3>2 DEF StackTells
  <2> QED BY <1>1, <2>3, <2>4 DEF LogsTell
<1> QED BY <1>5, <1>6, <1>7, <1>8, <1>9 DEF HrdInv

LEMMA AddDevKeeps == ASSUME HrdInv, Hrd!addDev PROVE HrdInv'
<1>1. /\ stage = "commands" /\ stage' = stage /\ powered' = powered /\ log_stacks' = log_stacks
      /\ log_files' = log_files
  BY DEF Hrd!addDev
<1>0. PICK p \in DOMAIN ports, kind \in Hrd!Kinds :
        \E type \in Hrd!TypesOf[kind], ident \in DOMAIN listed[kind] :
          /\ ports[p].device = Hrd!NoDevice /\ listed[kind][ident] = Hrd!NoDevice
          /\ ports[p].protocol \in Hrd!Accepts[type]
          /\ ports' = [ports EXCEPT ![p].device = Hrd!Device(kind, type, ident, p)]
          /\ listed' = [listed EXCEPT ![kind][ident] = Hrd!Device(kind, type, ident, p)]
  BY ZenonT(30) DEF Hrd!addDev
<1>2. PICK type \in Hrd!TypesOf[kind], ident \in DOMAIN listed[kind] :
        /\ ports[p].device = Hrd!NoDevice /\ listed[kind][ident] = Hrd!NoDevice
        /\ ports[p].protocol \in Hrd!Accepts[type]
        /\ ports' = [ports EXCEPT ![p].device = Hrd!Device(kind, type, ident, p)]
        /\ listed' = [listed EXCEPT ![kind][ident] = Hrd!Device(kind, type, ident, p)]
  BY <1>0
<1>3. PICK d : d = Hrd!Device(kind, type, ident, p) OBVIOUS
<1>4. d # Hrd!NoDevice /\ d.kind = kind /\ d.type = type /\ d.id = ident /\ d.port = p
  BY <1>3, DeviceIsOne
<1>5. /\ DOMAIN ports' = DOMAIN ports
      /\ \A q \in DOMAIN ports : ports'[q] = [protocol |-> ports[q].protocol,
                                              device |-> IF q = p THEN d ELSE ports[q].device]
  BY <1>2, <1>3 DEF HrdInv, HrdTypes
<1>6. /\ \A k \in Hrd!Kinds : DOMAIN listed'[k] = DOMAIN listed[k]
      /\ \A k \in Hrd!Kinds : \A i \in DOMAIN listed[k] :
           listed'[k][i] = IF k = kind /\ i = ident THEN d ELSE listed[k][i]
  BY <1>2, <1>3 DEF HrdInv, HrdTypes
<1>7. HrdTypes'
  <2>1. ports' = [q \in DOMAIN ports' |-> [protocol |-> ports'[q].protocol, device |-> ports'[q].device]]
    <3>1. ports' = [q \in DOMAIN ports' |-> ports'[q]] BY <1>2, <1>5 DEF HrdInv, HrdTypes
    <3>2. \A q \in DOMAIN ports' : ports'[q] = [protocol |-> ports'[q].protocol, device |-> ports'[q].device]
      BY <1>5
    <3> QED BY <3>1, <3>2
  <2>2. listed' = [k \in Hrd!Kinds |-> listed'[k]] BY <1>2 DEF HrdInv, HrdTypes
  <2>3. ASSUME NEW k \in Hrd!Kinds PROVE listed'[k] = [i \in DOMAIN listed'[k] |-> listed'[k][i]]
    <3>1. listed'[k] = IF k = kind THEN [listed[k] EXCEPT ![ident] = d] ELSE listed[k]
      <4>1. listed' = [listed EXCEPT ![kind] = [listed[kind] EXCEPT ![ident] = d]] BY <1>2, <1>3
      <4>2. k \in DOMAIN listed BY DEF HrdInv, HrdTypes
      <4> QED BY <4>1, <4>2
    <3> QED BY <3>1 DEF HrdInv, HrdTypes
  <2> QED BY <1>1, <2>1, <2>2, <2>3 DEF HrdInv, HrdTypes
<1>8. PortsKnown'
  <2> SUFFICES ASSUME NEW q \in DOMAIN ports PROVE KnownAtPort(q, ports[q].device)'
    BY <1>5 DEF PortsKnown
  <2>1. CASE q = p
    <3>1. ports'[q].device = d /\ ports'[q].protocol \in Hrd!Accepts[d.type]
      <4>1. ports'[q] = [protocol |-> ports[p].protocol, device |-> d] BY <1>5, <2>1
      <4>2. ports[p].protocol \in Hrd!Accepts[d.type] BY <1>2, <1>4
      <4> QED BY <4>1, <4>2
    <3>2. d.id \in DOMAIN listed'[d.kind] /\ listed'[d.kind][d.id] = d
      BY <1>4, <1>6
    <3> QED BY <1>4, <2>1, <3>1, <3>2 DEF KnownAtPort
  <2>2. CASE q # p
    <3>1. KnownAtPort(q, ports[q].device) BY DEF HrdInv, PortsKnown
    <3> QED BY <1>2, <1>5, <1>6, <2>2, <3>1 DEF KnownAtPort
  <2> QED BY <2>1, <2>2
<1>9. ASSUME NEW e, AtItsPort(e) PROVE AtItsPort(e)' /\ e.port # p
  BY <1>2, <1>5, <1>9 DEF AtItsPort
<1>10. AtItsPort(d)' BY <1>4, <1>5 DEF AtItsPort
<1>11. ListKnown'
  <2> SUFFICES ASSUME NEW k \in Hrd!Kinds, NEW i \in DOMAIN listed[k], listed'[k][i] # Hrd!NoDevice
               PROVE listed'[k][i].kind = k /\ listed'[k][i].id = i /\ AtItsPort(listed[k][i])'
    BY <1>6 DEF ListKnown
  <2>1. CASE k = kind /\ i = ident
    <3>1. listed'[k][i] = d BY <1>6, <2>1
    <3> QED BY <1>4, <1>10, <2>1, <3>1 DEF AtItsPort
  <2>2. CASE ~(k = kind /\ i = ident)
    <3>1. listed'[k][i] = listed[k][i] BY <1>6, <2>2
    <3>2. listed[k][i].kind = k /\ listed[k][i].id = i /\ AtItsPort(listed[k][i])
      BY <3>1 DEF HrdInv, ListKnown
    <3> QED BY <1>9, <3>1, <3>2 DEF AtItsPort
  <2> QED BY <2>1, <2>2
<1>12. PoweredKnown' BY <1>1, <1>9 DEF HrdInv, PoweredKnown
<1>13. LogsTell'
  <2>1. ASSUME NEW q \in DOMAIN ports PROVE ports'[q].device \in powered' <=> ports[q].device \in powered
    <3>1. CASE q = p
      <4>1. Hrd!NoDevice \notin powered BY DEF HrdInv, PoweredKnown, AtItsPort
      <4>2. d \notin powered BY <1>4, <1>9 DEF HrdInv, PoweredKnown
      <4>3. ports'[q].device = d BY <1>5, <3>1
      <4>4. ports[q].device = Hrd!NoDevice BY <1>2, <3>1
      <4> QED BY <1>1, <4>1, <4>2, <4>3, <4>4
    <3>2. CASE q # p BY <1>1, <1>5, <3>2
    <3> QED BY <3>1, <3>2
  <2>2. ASSUME NEW q \in DOMAIN ports PROVE StackTells(q)'
    <3>1. StackTells(q) BY <1>1 DEF HrdInv, LogsTell
    <3> QED BY <1>1, <2>1, <3>1 DEF StackTells, Story
  <2> QED BY <1>1, <1>5, <2>2 DEF HrdInv, LogsTell
<1> QED BY <1>7, <1>8, <1>11, <1>12, <1>13 DEF HrdInv

LEMMA RmDevKeeps == ASSUME HrdInv, Hrd!rmDev PROVE HrdInv'
<1>1. /\ stage = "commands" /\ stage' = stage /\ powered' = powered /\ log_stacks' = log_stacks
      /\ log_files' = log_files
  BY DEF Hrd!rmDev
<1>p. PICK p \in DOMAIN ports : \E d :
        /\ d = ports[p].device /\ d # Hrd!NoDevice /\ d \notin powered
        /\ listed' = [listed EXCEPT ![d.kind][d.id] = Hrd!NoDevice]
        /\ ports' = [ports EXCEPT ![p].device = Hrd!NoDevice]
  BY DEF Hrd!rmDev
<1>2. PICK d :
        /\ d = ports[p].device /\ d # Hrd!NoDevice /\ d \notin powered
        /\ listed' = [listed EXCEPT ![d.kind][d.id] = Hrd!NoDevice]
        /\ ports' = [ports EXCEPT ![p].device = Hrd!NoDevice]
  BY <1>p
<1>3. d.port = p /\ d.kind \in Hrd!Kinds /\ d.id \in DOMAIN listed[d.kind] /\ listed[d.kind][d.id] = d
  BY <1>2 DEF HrdInv, PortsKnown, KnownAtPort
<1>4. PICK kind \in Hrd!Kinds, ident \in DOMAIN listed[d.kind] : kind = d.kind /\ ident = d.id BY <1>3
<1>5. /\ DOMAIN ports' = DOMAIN ports
      /\ \A q \in DOMAIN ports :
           ports'[q] = [protocol |-> ports[q].protocol,
                        device |-> IF q = p THEN Hrd!NoDevice ELSE ports[q].device]
  BY <1>2 DEF HrdInv, HrdTypes
<1>6. /\ listed' = [k \in Hrd!Kinds |-> listed'[k]]
      /\ \A k \in Hrd!Kinds :
           listed'[k] = IF k = kind THEN [listed[k] EXCEPT ![ident] = Hrd!NoDevice] ELSE listed[k]
  <2>1. listed' = [listed EXCEPT ![kind] = [listed[kind] EXCEPT ![ident] = Hrd!NoDevice]] BY <1>2, <1>4
  <2>2. DOMAIN listed = Hrd!Kinds BY DEF HrdInv, HrdTypes
  <2> QED BY <2>1, <2>2
<1>7. ASSUME NEW k \in Hrd!Kinds
      PROVE /\ DOMAIN listed'[k] = DOMAIN listed[k]
            /\ listed'[k] = [i \in DOMAIN listed'[k] |-> listed'[k][i]]
            /\ \A i \in DOMAIN listed[k] :
                 listed'[k][i] = IF k = kind /\ i = ident THEN Hrd!NoDevice ELSE listed[k][i]
  BY <1>4, <1>6 DEF HrdInv, HrdTypes
<1>8. HrdTypes'
  <2>1. ports' = [q \in DOMAIN ports' |-> [protocol |-> ports'[q].protocol, device |-> ports'[q].device]]
    <3>1. ports' = [q \in DOMAIN ports' |-> ports'[q]] BY <1>2, <1>5 DEF HrdInv, HrdTypes
    <3>2. \A q \in DOMAIN ports' : ports'[q] = [protocol |-> ports'[q].protocol, device |-> ports'[q].device]
      BY <1>5
    <3> QED BY <3>1, <3>2
  <2> QED BY <1>1, <1>6, <1>7, <2>1 DEF HrdInv, HrdTypes
<1>9. PortsKnown'
  <2> SUFFICES ASSUME NEW q \in DOMAIN ports, q # p PROVE KnownAtPort(q, ports[q].device)'
    BY <1>5 DEF PortsKnown, KnownAtPort
  <2>1. KnownAtPort(q, ports[q].device) BY DEF HrdInv, PortsKnown
  <2>2. PICK e : e = ports[q].device OBVIOUS
  <2>3. ports'[q] = [protocol |-> ports[q].protocol, device |-> e] BY <1>5, <2>2
  <2>4. CASE e # Hrd!NoDevice
    <3>1. e.port = q /\ listed[e.kind][e.id] = e BY <2>1, <2>2, <2>4 DEF KnownAtPort
    <3>2. ~(e.kind = kind /\ e.id = ident) BY <1>3, <1>4, <3>1
    <3>3. e.kind \in Hrd!Kinds /\ e.id \in DOMAIN listed[e.kind] BY <2>1, <2>2, <2>4 DEF KnownAtPort
    <3>4. e.id \in DOMAIN listed'[e.kind] /\ listed'[e.kind][e.id] = e BY <1>7, <3>1, <3>2, <3>3
    <3> QED BY <2>1, <2>2, <2>3, <2>4, <3>1, <3>3, <3>4 DEF KnownAtPort
  <2> QED BY <2>3, <2>4 DEF KnownAtPort
<1>10. ASSUME NEW e, AtItsPort(e), e # d PROVE AtItsPort(e)'
  BY <1>2, <1>3, <1>5, <1>10 DEF AtItsPort
<1>11. ListKnown'
  <2> SUFFICES ASSUME NEW k \in Hrd!Kinds, NEW i \in DOMAIN listed[k], listed'[k][i] # Hrd!NoDevice
               PROVE listed'[k][i].kind = k /\ listed'[k][i].id = i /\ AtItsPort(listed[k][i])'
    BY <1>7 DEF ListKnown
  <2>1. listed'[k][i] = listed[k][i] /\ ~(k = kind /\ i = ident) BY <1>7
  <2>2. listed[k][i].kind = k /\ listed[k][i].id = i /\ AtItsPort(listed[k][i])
    BY <2>1 DEF HrdInv, ListKnown
  <2>3. listed[k][i] # d BY <1>4, <2>1, <2>2
  <2> QED BY <1>10, <2>1, <2>2, <2>3 DEF AtItsPort
<1>12. PoweredKnown' BY <1>1, <1>2, <1>10 DEF HrdInv, PoweredKnown
<1>13. LogsTell'
  <2>1. ASSUME NEW q \in DOMAIN ports PROVE ports'[q].device \in powered' <=> ports[q].device \in powered
    <3>1. CASE q = p
      <4>1. Hrd!NoDevice \notin powered BY DEF HrdInv, PoweredKnown, AtItsPort
      <4>2. ports'[q].device = Hrd!NoDevice BY <1>5, <3>1
      <4>3. ports[q].device \notin powered BY <1>2, <3>1
      <4> QED BY <1>1, <4>1, <4>2, <4>3
    <3>2. CASE q # p BY <1>1, <1>5, <3>2
    <3> QED BY <3>1, <3>2
  <2>2. ASSUME NEW q \in DOMAIN ports PROVE StackTells(q)'
    <3>1. StackTells(q) BY <1>1 DEF HrdInv, LogsTell
    <3> QED BY <1>1, <2>1, <3>1 DEF StackTells, Story
  <2> QED BY <1>1, <1>5, <2>2 DEF HrdInv, LogsTell
<1> QED BY <1>8, <1>9, <1>11, <1>12, <1>13 DEF HrdInv

(* The device d of port p is used, and the port logs it. *)
LEMMA WriteKeeps ==
  ASSUME HrdInv, NEW p \in DOMAIN ports, NEW d, d = ports[p].device, d # Hrd!NoDevice,
         NEW e \in Hrd!Entries, NEW n \in {1, 2}, n = 2 => e \notin {"turnON", "turnOFF"},
         Hrd!Write(p, e, n), Follows(e, d \in powered),
         powered' = IF e = "turnOFF" THEN powered \ {d} ELSE powered \cup {d}
  PROVE  HrdInv'
<1>1. /\ stage = "commands" /\ stage' = stage /\ ports' = ports /\ listed' = listed /\ log_files' = log_files
      /\ log_stacks' = [log_stacks EXCEPT ![p] = @ \o [i \in 1 .. n |-> e]]
  BY DEF Hrd!Write
<1>2. AtItsPort(d) /\ d.port = p BY DEF HrdInv, PortsKnown, KnownAtPort, AtItsPort
<1>3. HrdTypes' BY <1>1 DEF HrdInv, HrdTypes
<1>4. PortsKnown' BY <1>1 DEF HrdInv, PortsKnown, KnownAtPort
<1>5. ListKnown' BY <1>1 DEF HrdInv, ListKnown, AtItsPort
<1>6. PoweredKnown' BY <1>1, <1>2 DEF HrdInv, PoweredKnown, AtItsPort
<1>7. /\ log_stacks = [q \in DOMAIN ports |-> log_stacks[q]]
      /\ \A q \in DOMAIN ports : StackTells(q)
  BY <1>1 DEF HrdInv, LogsTell
<1>8. StackTells(p)'
  <2>1. log_stacks'[p] = log_stacks[p] \o [i \in 1 .. n |-> e] BY <1>1, <1>7
  <2>2. log_stacks[p] \in Seq(Hrd!Entries) /\ Story(log_stacks[p], d \in powered)
    BY <1>7 DEF StackTells
  <2>3. log_stacks'[p] \in Seq(Hrd!Entries) /\ Story(log_stacks'[p], e # "turnOFF")
    <3>1. PICK book : book = log_stacks[p] OBVIOUS
    <3>2. CASE d \in powered
      <4>1. Story(book, TRUE) /\ Follows(e, TRUE) BY <2>2, <3>1, <3>2 DEF Story, Follows
      <4> QED BY <2>1, <2>2, <3>1, <4>1, MoreEntries
    <3>3. CASE d \notin powered
      <4>1. Story(book, FALSE) /\ Follows(e, FALSE) BY <2>2, <3>1, <3>3 DEF Story, Follows
      <4> QED BY <2>1, <2>2, <3>1, <4>1, MoreEntries
    <3> QED BY <3>2, <3>3
  <2>4. d \in powered' <=> e # "turnOFF" OBVIOUS
  <2> QED BY <1>1, <2>3, <2>4 DEF StackTells, Story
<1>9. ASSUME NEW q \in DOMAIN ports, q # p PROVE StackTells(q)'
  <2>1. log_stacks'[q] = log_stacks[q] BY <1>1, <1>7, <1>9
  <2>2. ports[q].device # d BY <1>2, <1>9 DEF HrdInv, PortsKnown, KnownAtPort
  <2>3. ports'[q].device \in powered' <=> ports[q].device \in powered BY <1>1, <2>2
  <2>4. StackTells(q) BY <1>7
  <2> QED BY <2>1, <2>3, <2>4 DEF StackTells, Story
<1>10. LogsTell'
  <2>1. log_stacks' = [q \in DOMAIN ports' |-> log_stacks'[q]] BY <1>1, <1>7
  <2> QED BY <1>1, <1>8, <1>9, <2>1 DEF LogsTell
<1> QED BY <1>3, <1>4, <1>5, <1>6, <1>10 DEF HrdInv

LEMMA PowerKeeps == ASSUME HrdInv, Hrd!turnON \/ Hrd!turnOFF PROVE HrdInv'
<1>1. CASE Hrd!turnON
  <2>p. PICK p \in DOMAIN ports : \E d :
          /\ d = ports[p].device /\ d # Hrd!NoDevice /\ d \notin powered
          /\ powered' = powered \cup {d} /\ Hrd!Write(d.port, "turnON", 1)
    BY <1>1 DEF Hrd!turnON
  <2>1. PICK d :
          /\ d = ports[p].device /\ d # Hrd!NoDevice /\ d \notin powered
          /\ powered' = powered \cup {d} /\ Hrd!Write(d.port, "turnON", 1)
    BY <2>p
  <2>2. d.port = p BY <2>1 DEF HrdInv, PortsKnown, KnownAtPort
  <2>3. Follows("turnON", d \in powered) /\ "turnON" \in Hrd!Entries /\ "turnON" # "turnOFF"
    BY <2>1 DEF Follows, Hrd!Entries
  <2> QED BY <2>1, <2>2, <2>3, WriteKeeps
<1>2. CASE Hrd!turnOFF
  <2>p. PICK p \in DOMAIN ports : \E d :
          /\ d = ports[p].device /\ d \in powered
          /\ powered' = powered \ {d} /\ Hrd!Write(d.port, "turnOFF", 1)
    BY <1>2 DEF Hrd!turnOFF
  <2>1. PICK d :
          /\ d = ports[p].device /\ d \in powered
          /\ powered' = powered \ {d} /\ Hrd!Write(d.port, "turnOFF", 1)
    BY <2>p
  <2>2. d # Hrd!NoDevice BY <2>1 DEF HrdInv, PoweredKnown, AtItsPort
  <2>3. d.port = p BY <2>1, <2>2 DEF HrdInv, PortsKnown, KnownAtPort
  <2>4. Follows("turnOFF", d \in powered) /\ "turnOFF" \in Hrd!Entries
    BY <2>1 DEF Follows, Hrd!Entries
  <2> QED BY <2>1, <2>2, <2>3, <2>4, WriteKeeps
<1> QED BY <1>1, <1>2

(* A device is used through the list of its kind. *)
LEMMA UseKeeps ==
  ASSUME HrdInv, NEW kind \in Hrd!Kinds, NEW d \in Hrd!InUse(kind), NEW e \in {"data", "reading"},
         NEW n \in {1, 2}, Hrd!Write(d.port, e, n), powered' = powered
  PROVE  HrdInv'
<1>1. d \in powered BY DEF Hrd!InUse
<1>2. d # Hrd!NoDevice /\ d.port \in DOMAIN ports /\ ports[d.port].device = d
  BY <1>1 DEF HrdInv, PoweredKnown, AtItsPort
<1>3. Follows(e, d \in powered) /\ e \in Hrd!Entries /\ e \notin {"turnON", "turnOFF"}
  BY <1>1 DEF Follows, Hrd!Entries
<1>4. powered' = powered \cup {d} BY <1>1
<1> QED BY <1>2, <1>3, <1>4, WriteKeeps

LEMMA UsesKeep ==
  ASSUME HrdInv,
         \/ Hrd!readSensor \/ Hrd!printDisplay \/ Hrd!setMotorSpeed \/ Hrd!writeWireless \/ Hrd!readWireless
  PROVE  HrdInv'
<1>1. "Sensor" \in Hrd!Kinds /\ "Display" \in Hrd!Kinds /\ "MotorDriver" \in Hrd!Kinds /\ "WirelessIO" \in Hrd!Kinds
  BY DEF Hrd!Kinds, Hrd!TypesOf
<1>2. CASE Hrd!readSensor
  <2>1. PICK d \in Hrd!InUse("Sensor"), n \in {1, 2} :
          Hrd!Write(d.port, "reading", n) /\ powered' = powered
    BY <1>2 DEF Hrd!readSensor
  <2> QED BY <1>1, <2>1, UseKeeps
<1>3. CASE Hrd!printDisplay
  <2>1. PICK d \in Hrd!InUse("Display") : Hrd!Write(d.port, "data", 1) /\ powered' = powered
    BY <1>3 DEF Hrd!printDisplay
  <2> QED BY <1>1, <2>1, UseKeeps
<1>4. CASE Hrd!setMotorSpeed
  <2>1. PICK d \in Hrd!InUse("MotorDriver") : Hrd!Write(d.port, "data", 1) /\ powered' = powered
    BY <1>4 DEF Hrd!setMotorSpeed
  <2> QED BY <1>1, <2>1, UseKeeps
<1>5. CASE Hrd!writeWireless
  <2>1. PICK d \in Hrd!InUse("WirelessIO") : Hrd!Write(d.port, "data", 1) /\ powered' = powered
    BY <1>5 DEF Hrd!writeWireless
  <2> QED BY <1>1, <2>1, UseKeeps
<1>6. CASE Hrd!readWireless
  <2>1. PICK d \in Hrd!InUse("WirelessIO") : Hrd!Write(d.port, "reading", 1) /\ powered' = powered
    BY <1>6 DEF Hrd!readWireless
  <2> QED BY <1>1, <2>1, UseKeeps
<1> QED BY <1>2, <1>3, <1>4, <1>5, <1>6

(* A log popped and read from the end is the log. *)
LEMMA ReverseTwice == ASSUME NEW S, NEW s \in Seq(S) PROVE Hrd!Reverse(Hrd!Reverse(s)) = s
<1> DEFINE r == Hrd!Reverse(s)
<1>1. Len(s) \in Nat /\ s = [i \in 1 .. Len(s) |-> s[i]] OBVIOUS
<1>2. r = [i \in 1 .. Len(s) |-> s[(Len(s) - i) + 1]] BY DEF Hrd!Reverse
<1>3. r \in Seq(S) /\ Len(r) = Len(s)
  <2>1. \A i \in 1 .. Len(s) : (Len(s) - i) + 1 \in 1 .. Len(s) BY <1>1
  <2> QED BY <1>1, <1>2, <2>1
<1>4. Hrd!Reverse(r) = [i \in 1 .. Len(s) |-> r[(Len(s) - i) + 1]] BY <1>3 DEF Hrd!Reverse
<1>5. ASSUME NEW i \in 1 .. Len(s) PROVE r[(Len(s) - i) + 1] = s[i]
  <2>1. (Len(s) - i) + 1 \in 1 .. Len(s) /\ (Len(s) - ((Len(s) - i) + 1)) + 1 = i BY <1>1
  <2> QED BY <1>2, <2>1
<1> HIDE DEF r
<1>6. [i \in 1 .. Len(s) |-> r[(Len(s) - i) + 1]] = [i \in 1 .. Len(s) |-> s[i]] BY <1>5
<1> QED BY <1>1, <1>4, <1>6 DEF r

LEMMA LogOperationKeeps == ASSUME HrdInv, Hrd!logOperation PROVE HrdInv'
<1>1. /\ stage = "commands" /\ stage' = "exit"
      /\ ports' = ports /\ listed' = listed /\ powered' = powered
      /\ log_files' = [p \in DOMAIN ports |-> Hrd!Reverse(log_stacks[p])]
  BY DEF Hrd!logOperation
<1>2. HrdTypes' BY <1>1 DEF HrdInv, HrdTypes
<1>3. PortsKnown' BY <1>1 DEF HrdInv, PortsKnown, KnownAtPort
<1>4. ListKnown' /\ PoweredKnown' BY <1>1 DEF HrdInv, ListKnown, PoweredKnown, AtItsPort
<1>5. LogsTell'
  <2> SUFFICES ASSUME NEW p \in DOMAIN ports
               PROVE /\ Hrd!Reverse(log_files[p])' \in Seq(Hrd!Entries)
                     /\ Story(Hrd!Reverse(log_files[p]), ports[p].device \in powered)'
    BY <1>1 DEF LogsTell
  <2>1. log_stacks[p] \in Seq(Hrd!Entries) /\ Story(log_stacks[p], ports[p].device \in powered)
    BY <1>1 DEF HrdInv, LogsTell, StackTells
  <2>2. PICK book \in Seq(Hrd!Entries) : book = log_stacks[p] BY <2>1
  <2>3. Hrd!Reverse(log_files'[p]) = book
    <3>1. log_files'[p] = Hrd!Reverse(book) BY <1>1, <2>2
    <3> QED BY <3>1, ReverseTwice
  <2>4. Story(book, ports'[p].device \in powered') BY <1>1, <2>1, <2>2 DEF Story
  <2> QED BY <2>3, <2>4 DEF Hrd!Reverse, Story
<1> QED BY <1>1, <1>2, <1>3, <1>4, <1>5 DEF HrdInv
-----------------------------------------------------------------------------
LEMMA HrdSteps == [AllNext]_allvars => [Hrd!Next]_hardware_vars
BY DEF AllNext, Only, allvars

LEMMA HrdStarts == ASSUME Hrd!Init PROVE HrdInv
<1>1. /\ stage = "config" /\ ports = <<>> /\ listed = [k \in Hrd!Kinds |-> <<>>] /\ powered = {}
  BY DEF Hrd!Init
<1>2. DOMAIN ports = {} BY <1>1
<1>3. ports = [p \in DOMAIN ports |-> [protocol |-> ports[p].protocol, device |-> ports[p].device]]
  BY <1>1, <1>2
<1>4. listed = [k \in Hrd!Kinds |-> listed[k]] BY <1>1
<1>5. ASSUME NEW k \in Hrd!Kinds
      PROVE listed[k] = [ident \in DOMAIN listed[k] |-> listed[k][ident]] /\ DOMAIN listed[k] = {}
  BY <1>1
<1> QED
  BY <1>1, <1>2, <1>3, <1>4, <1>5 DEF HrdInv, HrdTypes, PortsKnown, ListKnown, PoweredKnown, LogsTell

(* The hardware system keeps its invariant.                                  *)
THEOREM HardwareInvariant == AllSpec => []HrdInv
<1>1. AllInit => HrdInv BY HrdStarts DEF AllInit
<1>2. HrdInv /\ [AllNext]_allvars => HrdInv'
  <2> SUFFICES ASSUME HrdInv, [Hrd!Next]_hardware_vars PROVE HrdInv' BY HrdSteps
  <2>1. CASE UNCHANGED hardware_vars
    <3>1. /\ stage' = stage /\ ports' = ports /\ listed' = listed /\ powered' = powered
          /\ log_stacks' = log_stacks /\ log_files' = log_files
      BY <2>1 DEF hardware_vars
    <3>2. HrdTypes' /\ PortsKnown' BY <3>1 DEF HrdInv, HrdTypes, PortsKnown, KnownAtPort
    <3>3. ListKnown' /\ PoweredKnown' BY <3>1 DEF HrdInv, ListKnown, PoweredKnown, AtItsPort
    <3>4. LogsTell' BY <3>1 DEF HrdInv, LogsTell, StackTells, Story, Hrd!Reverse
    <3> QED BY <3>2, <3>3, <3>4 DEF HrdInv
  <2>2. CASE Hrd!Next
    <3>1. CASE Hrd!LoadConfiguration \/ Hrd!addDev \/ Hrd!rmDev \/ Hrd!logOperation
      BY <3>1, LoadKeeps, AddDevKeeps, RmDevKeeps, LogOperationKeeps
    <3>2. CASE Hrd!turnON \/ Hrd!turnOFF BY <3>2, PowerKeeps
    <3>3. CASE \/ Hrd!readSensor \/ Hrd!printDisplay \/ Hrd!setMotorSpeed \/ Hrd!writeWireless
               \/ Hrd!readWireless
      BY <3>3, UsesKeep
    <3> QED BY <2>2, <3>1, <3>2, <3>3 DEF Hrd!Next
  <2> QED BY <2>1, <2>2
<1> QED BY <1>1, <1>2, PTL DEF AllSpec

(* SaysOn of a log, and of what is before an entry, is what it tells. *)
LEMMA SaysOnIsOn ==
  ASSUME NEW S, NEW book \in Seq(S)
  PROVE  /\ Hrd!SaysOn(book) <=> OnBefore(book, Len(book) + 1)
         /\ \A i \in 1 .. Len(book) : Hrd!SaysOn(SubSeq(book, 1, i - 1)) <=> OnBefore(book, i)
<1>1. Len(book) \in Nat /\ DOMAIN book = 1 .. Len(book) /\ (Len(book) + 1) - 1 = Len(book) OBVIOUS
<1>2. Hrd!SaysOn(book) <=> OnBefore(book, Len(book) + 1) BY <1>1 DEF Hrd!SaysOn, OnBefore
<1>3. ASSUME NEW i \in 1 .. Len(book)
      PROVE Hrd!SaysOn(SubSeq(book, 1, i - 1)) <=> OnBefore(book, i)
  <2>1. PICK u : u = SubSeq(book, 1, i - 1) OBVIOUS
  <2>2. Len(u) = i - 1 /\ DOMAIN u = 1 .. i - 1 /\ \A k \in 1 .. i - 1 : u[k] = book[k] BY <2>1
  <2>3. Hrd!SaysOn(u) <=> OnBefore(book, i)
    <3>1. \A k \in 1 .. i - 1 : k + 1 .. Len(u) = k + 1 .. i - 1 /\ k + 1 .. i - 1 \subseteq 1 .. i - 1
      BY <2>2
    <3> QED BY <2>2, <3>1 DEF Hrd!SaysOn, OnBefore
  <2> QED BY <2>1, <2>3
<1> QED BY <1>2, <1>3

LEMMA StoryIsPowerLogged ==
  ASSUME NEW book \in Seq(Hrd!Entries), NEW on \in BOOLEAN, Story(book, on)
  PROVE  /\ \A i \in DOMAIN book :
              LET before == SubSeq(book, 1, i - 1) IN
              CASE book[i] = "opened" -> i = 1
                [] book[i] = "turnON" -> ~Hrd!SaysOn(before)
                [] OTHER             -> Hrd!SaysOn(before)
         /\ Hrd!SaysOn(book) <=> on
<1>1. DOMAIN book = 1 .. Len(book) OBVIOUS
<1>2. ASSUME NEW i \in 1 .. Len(book)
      PROVE CASE book[i] = "opened" -> i = 1
              [] book[i] = "turnON" -> ~Hrd!SaysOn(SubSeq(book, 1, i - 1))
              [] OTHER             -> Hrd!SaysOn(SubSeq(book, 1, i - 1))
  <2>1. Tells(book, i) BY DEF Story
  <2>2. Hrd!SaysOn(SubSeq(book, 1, i - 1)) <=> OnBefore(book, i) BY SaysOnIsOn
  <2>3. CASE book[i] = "opened" BY <2>1, <2>3 DEF Tells
  <2>4. CASE book[i] = "turnON" BY <2>1, <2>2, <2>4 DEF Tells
  <2>5. CASE book[i] \notin {"opened", "turnON"} BY <2>1, <2>2, <2>5 DEF Tells
  <2> QED BY <2>3, <2>4, <2>5
<1>3. Hrd!SaysOn(book) <=> on BY SaysOnIsOn DEF Story
<1> QED BY <1>1, <1>2, <1>3

(* A port's log tells that its devices were turned on and off in turn and    *)
(* used only in between, and the three places that know a device agree       *)
(* (HWSystem.java:87-142, 149-264, Port.java:52, SPI.java:48-81).            *)
THEOREM DevicesAreAccounted == AllSpec => []DevicesAccounted
<1>1. HrdInv => DevicesAccounted
  <2> SUFFICES ASSUME HrdInv PROVE Hrd!PowerLogged /\ Hrd!DevicesListed BY DEF DevicesAccounted
  <2>1. Hrd!DevicesListed
    BY DEF HrdInv, PortsKnown, KnownAtPort, ListKnown, AtItsPort, Hrd!DevicesListed
  <2>2. ASSUME NEW p \in DOMAIN ports
        PROVE /\ Hrd!Log(p) \in Seq(Hrd!Entries)
              /\ Story(Hrd!Log(p), ports[p].device \in powered)
    <3>1. stage # "config" BY DEF HrdInv, HrdTypes
    <3>2. CASE stage = "commands" BY <3>2 DEF HrdInv, LogsTell, StackTells, Hrd!Log
    <3>3. CASE stage = "exit" BY <3>3 DEF HrdInv, LogsTell, Hrd!Log
    <3> QED BY <3>1, <3>2, <3>3 DEF HrdInv, HrdTypes
  <2>3. ASSUME NEW p \in DOMAIN ports
        PROVE /\ \A i \in DOMAIN Hrd!Log(p) :
                   LET before == SubSeq(Hrd!Log(p), 1, i - 1) IN
                   CASE Hrd!Log(p)[i] = "opened" -> i = 1
                     [] Hrd!Log(p)[i] = "turnON" -> ~Hrd!SaysOn(before)
                     [] OTHER                    -> Hrd!SaysOn(before)
              /\ Hrd!SaysOn(Hrd!Log(p)) <=> ports[p].device \in powered
    <3>1. PICK book \in Seq(Hrd!Entries) : book = Hrd!Log(p) BY <2>2
    <3>2. CASE ports[p].device \in powered
      <4>1. Story(book, TRUE) BY <2>2, <3>1, <3>2 DEF Story
      <4> QED BY <3>1, <3>2, <4>1, StoryIsPowerLogged
    <3>3. CASE ports[p].device \notin powered
      <4>1. Story(book, FALSE) BY <2>2, <3>1, <3>3 DEF Story
      <4> QED BY <3>1, <3>3, <4>1, StoryIsPowerLogged
    <3> QED BY <3>2, <3>3
  <2>4. Hrd!PowerLogged BY <2>3 DEF Hrd!PowerLogged
  <2> QED BY <2>1, <2>4
<1> QED BY <1>1, HardwareInvariant, PTL
-----------------------------------------------------------------------------
(* The school management system, for any IDs and codes and any bounds.       *)
(* First, the least of some numbers, and lists that lose an element.         *)
Below == {ss \in Nat \X Nat : ss[1] < ss[2]}

LEMMA BelowIsWellFounded == IsWellFoundedOn(Below, Nat)
BY NatLessThanWellFounded, Zenon DEF OpToRel, Below

LEMMA Least == ASSUME NEW I \in SUBSET Nat, I # {} PROVE \E x \in I : \A y \in I : x <= y
<1>1. PICK x \in I : \A y \in I : <<y, x>> \notin Below
  BY BelowIsWellFounded, WFMin
<1>2. ASSUME NEW y \in I PROVE x <= y
  <2>1. <<y, x>> \notin Below BY <1>1
  <2> QED BY <2>1 DEF Below
<1> QED BY <1>2

LEMMA MinIsLeast ==
  ASSUME NEW I \in SUBSET Nat, I # {}
  PROVE Sch!Min(I) \in I /\ \A y \in I : Sch!Min(I) <= y
BY Least DEF Sch!Min

LEMMA IndexIsFirst ==
  ASSUME NEW S, students \in Seq(S), NEW ident
  PROVE \/ /\ Sch!IndexOfID(ident) = 0
           /\ \A k \in DOMAIN students : students[k].ID # ident
        \/ /\ Sch!IndexOfID(ident) \in DOMAIN students /\ students[Sch!IndexOfID(ident)].ID = ident
           /\ \A k \in DOMAIN students : k < Sch!IndexOfID(ident) => students[k].ID # ident
<1> DEFINE I == {k \in 1 .. Len(students) : students[k].ID = ident}
<1>1. DOMAIN students = 1 .. Len(students) /\ Len(students) \in Nat OBVIOUS
<1>2. Sch!IndexOfID(ident) = IF I # {} THEN Sch!Min(I) ELSE 0
  BY DEF Sch!IndexOfID, Sch!SelectInSeq
<1>3. CASE I = {} BY <1>1, <1>2, <1>3
<1>4. CASE I # {}
  <2>1. I \in SUBSET Nat OBVIOUS
  <2>2. PICK m : m = Sch!Min(I) OBVIOUS
  <2>3. m \in I /\ \A y \in I : m <= y BY <1>4, <2>1, <2>2, MinIsLeast
  <2>4. Sch!IndexOfID(ident) = m BY <1>2, <1>4, <2>2
  <2>5. m \in DOMAIN students /\ students[m].ID = ident BY <1>1, <2>3
  <2>6. \A k \in DOMAIN students : k < m => students[k].ID # ident BY <1>1, <2>3
  <2> QED BY <2>4, <2>5, <2>6
<1> QED BY <1>3, <1>4

LEMMA IndexOfCodeIsOne ==
  ASSUME NEW S, courses \in Seq(S), NEW c
  PROVE Sch!IndexOfCode(c) = 0 \/ Sch!IndexOfCode(c) \in DOMAIN courses
<1> DEFINE I == {k \in 1 .. Len(courses) : courses[k].code = c}
<1>1. Sch!IndexOfCode(c) = IF I # {} THEN Sch!Min(I) ELSE 0
  BY DEF Sch!IndexOfCode, Sch!SelectInSeq
<1>2. I \in SUBSET Nat /\ I \subseteq DOMAIN courses OBVIOUS
<1> HIDE DEF I
<1> QED BY <1>1, <1>2, MinIsLeast

LEMMA Concatenated ==
  ASSUME NEW S, NEW a \in Seq(S), NEW b \in Seq(S)
  PROVE  /\ a \o b \in Seq(S) /\ Len(a \o b) = Len(a) + Len(b)
         /\ \A i \in 1 .. Len(a) + Len(b) : (a \o b)[i] = IF i <= Len(a) THEN a[i] ELSE b[i - Len(a)]
OBVIOUS

LEMMA RemovedAt ==
  ASSUME NEW S, NEW q \in Seq(S), NEW k \in 1 .. Len(q)
  PROVE  /\ Sch!RemoveAt(q, k) \in Seq(S) /\ Len(Sch!RemoveAt(q, k)) = Len(q) - 1
         /\ \A i \in 1 .. Len(q) - 1 : Sch!RemoveAt(q, k)[i] = IF i < k THEN q[i] ELSE q[i + 1]
<1> DEFINE u == SubSeq(q, 1, k - 1)
           v == SubSeq(q, k + 1, Len(q))
           t == Sch!RemoveAt(q, k)
<1>1. t = u \o v BY DEF Sch!RemoveAt
<1>2. /\ u \in Seq(S) /\ Len(u) = k - 1 /\ \A i \in 1 .. k - 1 : u[i] = q[i]
      /\ v \in Seq(S) /\ Len(v) = Len(q) - k /\ \A i \in 1 .. Len(q) - k : v[i] = q[i + k]
      /\ Len(q) \in Nat /\ DOMAIN q = 1 .. Len(q) /\ k \in Int
  BY SMTT(30)
<1> HIDE DEF u, v, t
<1>3. /\ t \in Seq(S) /\ Len(t) = Len(u) + Len(v)
      /\ \A i \in 1 .. Len(u) + Len(v) : t[i] = IF i <= Len(u) THEN u[i] ELSE v[i - Len(u)]
  BY <1>1, <1>2, Concatenated
<1>4. Len(u) + Len(v) = Len(q) - 1 BY <1>2
<1>5. ASSUME NEW i \in 1 .. Len(q) - 1 PROVE t[i] = IF i < k THEN q[i] ELSE q[i + 1]
  <2>1. CASE i < k BY <1>2, <1>3, <1>4, <2>1
  <2>2. CASE ~(i < k)
    <3>1. i - (k - 1) \in 1 .. Len(q) - k /\ (i - (k - 1)) + k = i + 1 BY <1>2, <2>2
    <3>2. v[i - (k - 1)] = q[i + 1] BY <1>2, <3>1
    <3>3. i \in 1 .. Len(u) + Len(v) /\ ~(i <= Len(u)) BY <1>2, <1>4, <2>2
    <3>4. t[i] = v[i - (k - 1)] BY <1>2, <1>3, <3>3
    <3> QED BY <2>2, <3>2, <3>4
  <2> QED BY <2>1, <2>2
<1> QED BY <1>3, <1>4, <1>5 DEF t

(* What is left has been there, in another place perhaps; nothing is doubled *)
(* and only what was at that place is gone.                                  *)
LEMMA RemovedContains ==
  ASSUME NEW S, NEW q \in Seq(S), NEW k \in 1 .. Len(q)
  PROVE  /\ \A x : Sch!Contains(Sch!RemoveAt(q, k), x) => Sch!Contains(q, x)
         /\ \A x : Sch!Contains(q, x) /\ x # q[k] => Sch!Contains(Sch!RemoveAt(q, k), x)
         /\ Sch!IsInjective(q) =>
              Sch!IsInjective(Sch!RemoveAt(q, k)) /\ ~Sch!Contains(Sch!RemoveAt(q, k), q[k])
<1>1. PICK t : t = Sch!RemoveAt(q, k) OBVIOUS
<1>2. /\ t \in Seq(S) /\ Len(t) = Len(q) - 1 /\ DOMAIN t = 1 .. Len(q) - 1
      /\ \A i \in 1 .. Len(q) - 1 : t[i] = IF i < k THEN q[i] ELSE q[i + 1]
  BY SMTT(30), <1>1, RemovedAt
<1>3. Len(q) \in Nat /\ k \in Int /\ DOMAIN q = 1 .. Len(q) OBVIOUS
<1>4. ASSUME NEW x, Sch!Contains(t, x) PROVE Sch!Contains(q, x)
  BY <1>2, <1>3, <1>4 DEF Sch!Contains
<1>5. ASSUME NEW x, Sch!Contains(q, x), x # q[k] PROVE Sch!Contains(t, x)
  <2>1. PICK i \in 1 .. Len(q) : q[i] = x /\ i # k BY <1>5 DEF Sch!Contains
  <2>2. CASE i < k BY <1>2, <1>3, <2>1, <2>2 DEF Sch!Contains
  <2>3. CASE i > k
    <3>1. i - 1 \in 1 .. Len(q) - 1 /\ ~(i - 1 < k) /\ (i - 1) + 1 = i BY <1>3, <2>3
    <3>2. t[i - 1] = x BY <1>2, <2>1, <3>1
    <3> QED BY <1>2, <3>1, <3>2 DEF Sch!Contains
  <2> QED BY <1>3, <2>1, <2>2, <2>3
<1>6. ASSUME Sch!IsInjective(q) PROVE Sch!IsInjective(t) /\ ~Sch!Contains(t, q[k])
  <2>1. \A i, j \in 1 .. Len(q) : q[i] = q[j] => i = j BY <1>6, <1>3 DEF Sch!IsInjective
  <2>2. ASSUME NEW i \in 1 .. Len(q) - 1, NEW j \in 1 .. Len(q) - 1, t[i] = t[j] PROVE i = j
    BY <1>2, <1>3, <2>1, <2>2
  <2>3. \A i \in 1 .. Len(q) - 1 : t[i] # q[k] BY SMTT(30), <1>2, <1>3, <2>1
  <2> QED BY <1>2, <2>2, <2>3 DEF Sch!IsInjective, Sch!Contains
<1> QED BY <1>1, <1>4, <1>5, <1>6

LEMMA FirstRemoved ==
  ASSUME NEW S, NEW q \in Seq(S), NEW e
  PROVE  /\ Sch!RemoveFirst(q, e) \in Seq(S)
         /\ \A x : Sch!Contains(Sch!RemoveFirst(q, e), x) => Sch!Contains(q, x)
         /\ \A x : Sch!Contains(q, x) /\ x # e => Sch!Contains(Sch!RemoveFirst(q, e), x)
         /\ Sch!IsInjective(q) =>
              Sch!IsInjective(Sch!RemoveFirst(q, e)) /\ ~Sch!Contains(Sch!RemoveFirst(q, e), e)
<1>1. CASE Sch!Contains(q, e)
  <2> DEFINE I == {i \in 1 .. Len(q) : q[i] = e}
  <2>1. Sch!SelectInSeq(q, LAMBDA v : v = e) = IF I # {} THEN Sch!Min(I) ELSE 0
    BY DEF Sch!SelectInSeq
  <2>2. I \in SUBSET Nat /\ I # {} BY <1>1 DEF Sch!Contains
  <2>3. PICK k : k = Sch!Min(I) OBVIOUS
  <2>4. k \in 1 .. Len(q) /\ q[k] = e BY <2>2, <2>3, MinIsLeast
  <2>5. Sch!RemoveFirst(q, e) = Sch!RemoveAt(q, k)
    BY <1>1, <2>1, <2>2, <2>3 DEF Sch!RemoveFirst, Sch!Contains
  <2> QED BY <2>4, <2>5, RemovedAt, RemovedContains
<1>2. CASE ~Sch!Contains(q, e)
  <2>1. Sch!RemoveFirst(q, e) = q BY <1>2 DEF Sch!RemoveFirst, Sch!Contains
  <2> QED BY <1>2, <2>1
<1> QED BY <1>1, <1>2
-----------------------------------------------------------------------------
Students == [ID : SIDs, courses : Seq(Codes)]
Courses  == [code : Codes, students : Seq(SIDs)]

(* Only the first student of an ID is ever selected and takes courses, each  *)
(* once and registered for it.                                               *)
First(i) == \A j \in DOMAIN students : j < i => students[j].ID # students[i].ID
Lists(k, c, ident) == courses[k].code = c /\ Sch!Contains(courses[k].students, ident)
Registered(i) ==
  \A c \in Codes : Sch!Contains(students[i].courses, c) =>
    \E k \in DOMAIN courses : Lists(k, c, students[i].ID)
StudentOK(i) ==
  /\ students[i].courses # <<>> => First(i)
  /\ Sch!IsInjective(students[i].courses)
  /\ Registered(i)

SchTypes == students \in Seq(Students) /\ courses \in Seq(Courses)
SchSelected ==
  /\ menu = "student" => selected \in DOMAIN students /\ First(selected)
  /\ menu = "course" => selected \in DOMAIN courses

SchInv ==
  /\ SchTypes
  /\ menu # "undefined" => SchSelected /\ \A i \in DOMAIN students : StudentOK(i)

LEMMA ListsKept ==
  ASSUME SchInv, menu # "undefined", students' = students, courses' = courses,
         menu' # "undefined" => SchSelected'
  PROVE  SchInv'
BY DEF SchInv, SchTypes, StudentOK, Registered, First, Lists

LEMMA MenuKeeps ==
  ASSUME SchInv, Sch!Up \/ Sch!Down \/ Sch!Mistype \/ Sch!ChooseBeyond
  PROVE  SchInv'
<1>1. /\ menu # "undefined" /\ students' = students /\ courses' = courses
      /\ menu' \notin {"student", "course"}
  BY DEF Sch!Up, Sch!Down, Sch!Mistype, Sch!ChooseBeyond, Sch!ShowMenu
<1> QED BY <1>1, ListsKept DEF SchSelected

LEMMA SelectStudentKeeps == ASSUME SchInv, Sch!select_student PROVE SchInv'
<1>1. PICK ident \in SIDs :
        /\ selected' = Sch!IndexOfID(ident) /\ menu = "students"
        /\ menu' = IF Sch!IndexOfID(ident) = 0 THEN "undefined" ELSE "student"
        /\ students' = students /\ courses' = courses
  BY DEF Sch!select_student, Sch!ShowMenu
<1>2. ASSUME menu' # "undefined" PROVE SchSelected'
  <2>1. menu' = "student" /\ Sch!IndexOfID(ident) # 0 BY <1>1, <1>2
  <2>2. students \in Seq(Students) BY DEF SchInv, SchTypes
  <2>3. PICK n : n = Sch!IndexOfID(ident) OBVIOUS
  <2>4. n \in DOMAIN students /\ students[n].ID = ident /\ \A k \in DOMAIN students : k < n => students[k].ID # ident
    BY <2>1, <2>2, <2>3, IndexIsFirst
  <2> QED BY <1>1, <2>1, <2>3, <2>4 DEF SchSelected, First
<1> QED BY <1>1, <1>2, ListsKept

LEMMA SelectCourseKeeps == ASSUME SchInv, Sch!select_course PROVE SchInv'
<1>1. PICK c \in Codes :
        /\ selected' = Sch!IndexOfCode(c) /\ menu = "courses"
        /\ menu' = IF Sch!IndexOfCode(c) = 0 THEN "undefined" ELSE "course"
        /\ students' = students /\ courses' = courses
  BY DEF Sch!select_course, Sch!ShowMenu
<1>2. ASSUME menu' # "undefined" PROVE SchSelected'
  <2>1. menu' = "course" /\ Sch!IndexOfCode(c) # 0 BY <1>1, <1>2
  <2>2. courses \in Seq(Courses) BY DEF SchInv, SchTypes
  <2>3. Sch!IndexOfCode(c) \in DOMAIN courses BY <2>1, <2>2, IndexOfCodeIsOne
  <2> QED BY <1>1, <2>1, <2>3 DEF SchSelected
<1> QED BY <1>1, <1>2, ListsKept

LEMMA AddStudentKeeps == ASSUME SchInv, Sch!add_student PROVE SchInv'
<1>1. PICK ident \in SIDs :
        /\ menu = "students" /\ menu' = "students" /\ courses' = courses
        /\ students' = Append(students, [ID |-> ident, courses |-> <<>>])
  BY DEF Sch!add_student, Sch!ShowMenu
<1>0. <<>> \in Seq(Codes) OBVIOUS
<1>2. PICK s \in Students : s = [ID |-> ident, courses |-> <<>>] BY <1>0 DEF Students
<1>3. students \in Seq(Students) /\ courses \in Seq(Courses) BY DEF SchInv, SchTypes
<1>4. /\ students' \in Seq(Students) /\ Len(students) \in Nat /\ DOMAIN students = 1 .. Len(students)
      /\ DOMAIN students' = 1 .. Len(students) + 1
      /\ \A i \in 1 .. Len(students) : students'[i] = students[i]
      /\ students'[Len(students) + 1] = s
  BY <1>1, <1>2, <1>3
<1>5. ASSUME NEW i \in DOMAIN students PROVE StudentOK(i)'
  <2>1. StudentOK(i) BY <1>1 DEF SchInv
  <2>2. students'[i] = students[i] BY <1>4
  <2>3. First(i) => First(i)' BY <1>4, <2>2 DEF First
  <2>4. Registered(i)' BY <1>1, <2>1, <2>2 DEF StudentOK, Registered, Lists
  <2> QED BY <2>1, <2>2, <2>3, <2>4 DEF StudentOK
<1>6. PICK n : n = Len(students) + 1 OBVIOUS
<1>7. StudentOK(n)'
  <2>1. students'[n].courses = <<>> BY <1>2, <1>4, <1>6
  <2>2. Sch!IsInjective(students'[n].courses) BY <2>1 DEF Sch!IsInjective
  <2>3. Registered(n)' BY <2>1 DEF Registered, Sch!Contains
  <2> QED BY <2>1, <2>2, <2>3 DEF StudentOK
<1>8. ASSUME NEW i \in DOMAIN students' PROVE StudentOK(i)'
  <2>1. i \in DOMAIN students \/ i = n BY <1>4, <1>6
  <2> QED BY <2>1, <1>5, <1>7
<1> QED BY <1>1, <1>3, <1>4, <1>8 DEF SchInv, SchTypes, SchSelected

LEMMA AddCourseKeeps == ASSUME SchInv, Sch!add_course PROVE SchInv'
<1>1. PICK c \in Codes :
        /\ menu = "courses" /\ menu' = "courses" /\ students' = students
        /\ courses' = Append(courses, [code |-> c, students |-> <<>>])
  BY DEF Sch!add_course, Sch!ShowMenu
<1>2. <<>> \in Seq(SIDs) OBVIOUS
<1>3. PICK d \in Courses : d = [code |-> c, students |-> <<>>] BY <1>2 DEF Courses
<1>4. students \in Seq(Students) /\ courses \in Seq(Courses) BY DEF SchInv, SchTypes
<1>5. /\ courses' \in Seq(Courses) /\ Len(courses) \in Nat /\ DOMAIN courses = 1 .. Len(courses)
      /\ DOMAIN courses' = 1 .. Len(courses) + 1
      /\ \A i \in 1 .. Len(courses) : courses'[i] = courses[i]
  BY <1>1, <1>3, <1>4
<1>6. ASSUME NEW i \in DOMAIN students PROVE StudentOK(i)'
  <2>1. StudentOK(i) BY <1>1 DEF SchInv
  <2>2. First(i) => First(i)' BY <1>1 DEF First
  <2>3. Registered(i)'
    <3> SUFFICES ASSUME NEW x \in Codes, Sch!Contains(students[i].courses, x)
                 PROVE \E k \in DOMAIN courses' : Lists(k, x, students[i].ID)'
      BY <1>1 DEF Registered, Sch!Contains
    <3>1. PICK k \in DOMAIN courses : Lists(k, x, students[i].ID) BY <2>1 DEF StudentOK, Registered
    <3>2. k \in DOMAIN courses' /\ courses'[k] = courses[k] BY <1>5
    <3> QED BY <1>1, <3>1, <3>2 DEF Lists, Sch!Contains
  <2> QED BY <1>1, <2>1, <2>2, <2>3 DEF StudentOK
<1> QED BY <1>1, <1>4, <1>5, <1>6 DEF SchInv, SchTypes, SchSelected

LEMMA Appended ==
  ASSUME NEW S, NEW q \in Seq(S), NEW e \in S
  PROVE  /\ Append(q, e) \in Seq(S)
         /\ \A x : Sch!Contains(Append(q, e), x) <=> Sch!Contains(q, x) \/ x = e
         /\ Sch!IsInjective(q) /\ ~Sch!Contains(q, e) => Sch!IsInjective(Append(q, e))
<1>1. PICK t : t = Append(q, e) OBVIOUS
<1>2. /\ t \in Seq(S) /\ Len(q) \in Nat /\ DOMAIN q = 1 .. Len(q)
      /\ Len(t) = Len(q) + 1 /\ DOMAIN t = 1 .. Len(q) + 1
      /\ \A i \in 1 .. Len(q) : t[i] = q[i]
      /\ t[Len(q) + 1] = e
  BY <1>1
<1>3. ASSUME NEW x PROVE Sch!Contains(t, x) <=> Sch!Contains(q, x) \/ x = e
  <2>1. ASSUME NEW i \in 1 .. Len(q) + 1 PROVE i \in 1 .. Len(q) \/ i = Len(q) + 1 BY <1>2
  <2> QED BY <1>2, <2>1 DEF Sch!Contains
<1>4. ASSUME Sch!IsInjective(q), ~Sch!Contains(q, e) PROVE Sch!IsInjective(t)
  <2> SUFFICES ASSUME NEW i \in 1 .. Len(q) + 1, NEW j \in 1 .. Len(q) + 1, t[i] = t[j] PROVE i = j
    BY <1>2 DEF Sch!IsInjective
  <2>1. CASE i \in 1 .. Len(q) /\ j \in 1 .. Len(q) BY <1>2, <1>4, <2>1 DEF Sch!IsInjective
  <2>2. CASE i \in 1 .. Len(q) /\ j = Len(q) + 1 BY <1>2, <1>4, <2>2 DEF Sch!Contains
  <2>3. CASE j \in 1 .. Len(q) /\ i = Len(q) + 1 BY <1>2, <1>4, <2>3 DEF Sch!Contains
  <2> QED BY <1>2, <2>1, <2>2, <2>3
<1> QED BY <1>1, <1>2, <1>3, <1>4

LEMMA PlaceUpdated ==
  ASSUME NEW S, NEW q \in Seq(S), NEW k \in DOMAIN q, NEW e \in S
  PROVE  /\ [q EXCEPT ![k] = e] \in Seq(S) /\ DOMAIN [q EXCEPT ![k] = e] = DOMAIN q
         /\ \A i \in DOMAIN q : [q EXCEPT ![k] = e][i] = IF i = k THEN e ELSE q[i]
<1>1. q \in [1 .. Len(q) -> S] /\ Len(q) \in Nat /\ DOMAIN q = 1 .. Len(q) OBVIOUS
<1>2. [q EXCEPT ![k] = e] \in [1 .. Len(q) -> S] BY <1>1
<1>3. [q EXCEPT ![k] = e] \in Seq(S) BY <1>1, <1>2
<1> QED BY <1>1, <1>3

LEMMA StudentUpdated ==
  ASSUME NEW s \in Students, NEW x
  PROVE  [s EXCEPT !.courses = x] = [ID |-> s.ID, courses |-> x]
BY DEF Students

LEMMA CourseUpdated ==
  ASSUME NEW c \in Courses, NEW x
  PROVE  [c EXCEPT !.students = x] = [code |-> c.code, students |-> x]
BY DEF Courses

LEMMA AddToCourseKeeps == ASSUME SchInv, Sch!AddToCourse PROVE SchInv'
<1>0. PICK n : n = selected OBVIOUS
<1>1. PICK k \in DOMAIN courses :
        /\ menu = "student" /\ menu' = "student" /\ selected' = selected
        /\ ~Sch!Contains(students[n].courses, courses[k].code)
        /\ students' = [students EXCEPT ![n].courses = Append(@, courses[k].code)]
        /\ courses' = [courses EXCEPT ![k].students = Append(@, students[n].ID)]
  BY <1>0 DEF Sch!AddToCourse, Sch!ShowMenu, Sch!list_courses
<1>2. students \in Seq(Students) /\ courses \in Seq(Courses) BY DEF SchInv, SchTypes
<1>3. n \in DOMAIN students /\ First(n) BY <1>0, <1>1 DEF SchInv, SchSelected
<1>4. PICK s \in Students, c \in Courses : s = students[n] /\ c = courses[k] BY <1>2, <1>3
<1>5. /\ s.courses \in Seq(Codes) /\ s.ID \in SIDs /\ c.students \in Seq(SIDs) /\ c.code \in Codes
      /\ s = [ID |-> s.ID, courses |-> s.courses] /\ c = [code |-> c.code, students |-> c.students]
  BY DEF Students, Courses
<1>6. PICK s2, c2 : /\ s2 = [ID |-> s.ID, courses |-> Append(s.courses, c.code)]
                    /\ c2 = [code |-> c.code, students |-> Append(c.students, s.ID)]
  OBVIOUS
<1>7. s2 \in Students /\ c2 \in Courses BY <1>5, <1>6 DEF Students, Courses
<1>8. students' = [students EXCEPT ![n] = s2] /\ courses' = [courses EXCEPT ![k] = c2]
  <2>1. [s EXCEPT !.courses = Append(s.courses, c.code)] = s2 BY <1>6, StudentUpdated
  <2>2. [c EXCEPT !.students = Append(c.students, s.ID)] = c2 BY <1>6, CourseUpdated
  <2>3. students' = [students EXCEPT ![n] = [s EXCEPT !.courses = Append(s.courses, c.code)]] BY <1>1, <1>4
  <2>4. courses' = [courses EXCEPT ![k] = [c EXCEPT !.students = Append(c.students, s.ID)]] BY <1>1, <1>4
  <2> QED BY <2>1, <2>2, <2>3, <2>4
<1>9. /\ students' \in Seq(Students) /\ courses' \in Seq(Courses)
      /\ DOMAIN students' = DOMAIN students /\ DOMAIN courses' = DOMAIN courses
  BY <1>2, <1>3, <1>7, <1>8, PlaceUpdated
<1>10. /\ \A i \in DOMAIN students : students'[i] = IF i = n THEN s2 ELSE students[i]
       /\ \A j \in DOMAIN courses : courses'[j] = IF j = k THEN c2 ELSE courses[j]
  <2>1. \A i \in DOMAIN students : students'[i] = IF i = n THEN s2 ELSE students[i]
    BY <1>2, <1>3, <1>7, <1>8, PlaceUpdated
  <2>2. \A j \in DOMAIN courses : courses'[j] = IF j = k THEN c2 ELSE courses[j]
    BY <1>2, <1>7, <1>8, PlaceUpdated
  <2> QED BY <2>1, <2>2
<1>11. ASSUME NEW i \in DOMAIN students PROVE students'[i].ID = students[i].ID
  <2>1. s2.ID = s.ID BY <1>6
  <2>2. students'[i] = IF i = n THEN s2 ELSE students[i] BY <1>10
  <2> QED BY <1>4, <2>1, <2>2
<1>12. ASSUME NEW i \in DOMAIN students, First(i) PROVE First(i)'
  BY <1>9, <1>11, <1>12 DEF First
<1>13. ASSUME NEW j \in DOMAIN courses, NEW x, NEW ident, Lists(j, x, ident) PROVE Lists(j, x, ident)'
  <2>1. CASE j = k
    <3>1. c.code = x /\ Sch!Contains(c.students, ident) BY <1>4, <1>13, <2>1 DEF Lists
    <3>2. c2.code = x /\ Sch!Contains(c2.students, ident) BY <1>5, <1>6, <3>1, Appended
    <3>3. courses'[j] = c2 BY <1>10, <2>1
    <3> QED BY <3>2, <3>3 DEF Lists, Sch!Contains
  <2>2. CASE j # k BY <1>10, <1>13, <2>2 DEF Lists, Sch!Contains
  <2> QED BY <2>1, <2>2
<1>14. Lists(k, c.code, s.ID)'
  <2>1. Sch!Contains(c2.students, s.ID) BY <1>5, <1>6, Appended
  <2>2. courses'[k] = c2 BY <1>10
  <2>3. c2.code = c.code BY <1>6
  <2> QED BY <2>1, <2>2, <2>3 DEF Lists, Sch!Contains
<1>15. ASSUME NEW i \in DOMAIN students PROVE StudentOK(i)'
  <2>1. StudentOK(i) BY <1>1 DEF SchInv
  <2>2. CASE i = n
    <3>1. students'[i] = s2 BY <1>10, <2>2
    <3>2. First(i)' BY <1>3, <1>12, <2>2
    <3>3. Sch!IsInjective(s2.courses) BY <1>1, <1>4, <1>5, <1>6, <2>1, <2>2, Appended DEF StudentOK
    <3>4. ASSUME NEW x \in Codes, Sch!Contains(s2.courses, x) PROVE \E j \in DOMAIN courses : Lists(j, x, s.ID)'
      <4>1. x = c.code \/ Sch!Contains(s.courses, x) BY <1>5, <1>6, <3>4, Appended
      <4>2. CASE x = c.code BY <1>14, <4>2
      <4>3. CASE Sch!Contains(s.courses, x)
        <5>1. PICK j \in DOMAIN courses : Lists(j, x, s.ID)
          BY <1>4, <2>1, <2>2, <4>3 DEF StudentOK, Registered
        <5> QED BY <1>13, <5>1
      <4> QED BY <4>1, <4>2, <4>3
    <3>5. s2.ID = s.ID BY <1>6
    <3>6. Registered(i)' BY <1>9, <3>1, <3>4, <3>5 DEF Registered, Lists
    <3> QED BY <3>1, <3>2, <3>3, <3>6 DEF StudentOK
  <2>3. CASE i # n
    <3>1. students'[i] = students[i] BY <1>10, <2>3
    <3>2. First(i) => First(i)' BY <1>12
    <3>3. Registered(i)'
      <4> SUFFICES ASSUME NEW x \in Codes, Sch!Contains(students[i].courses, x)
                   PROVE \E j \in DOMAIN courses' : Lists(j, x, students[i].ID)'
        BY <3>1 DEF Registered, Sch!Contains
      <4>1. PICK j \in DOMAIN courses : Lists(j, x, students[i].ID) BY <2>1 DEF StudentOK, Registered
      <4>2. PICK ident : ident = students[i].ID OBVIOUS
      <4>3. Lists(j, x, ident)' BY <1>13, <4>1, <4>2
      <4> QED BY <1>9, <3>1, <4>2, <4>3 DEF Lists
    <3> QED BY <2>1, <3>1, <3>2, <3>3 DEF StudentOK
  <2> QED BY <2>2, <2>3
<1>16. SchSelected' BY <1>0, <1>1, <1>3, <1>9, <1>12 DEF SchSelected
<1> QED BY <1>9, <1>15, <1>16 DEF SchInv, SchTypes

LEMMA DropCourseKeeps == ASSUME SchInv, Sch!DropCourse PROVE SchInv'
<1>1. PICK n : n = selected OBVIOUS
<1>2. PICK i \in DOMAIN students[n].courses :
        /\ menu = "student" /\ selected' = selected /\ courses' = courses
        /\ students' = [students EXCEPT ![n].courses = Sch!RemoveAt(@, i)]
        /\ menu' \in {"student", "undefined"}
  BY <1>1 DEF Sch!DropCourse, Sch!ShowMenu
<1>3. students \in Seq(Students) /\ courses \in Seq(Courses) BY DEF SchInv, SchTypes
<1>4. n \in DOMAIN students /\ First(n) BY <1>1, <1>2 DEF SchInv, SchSelected
<1>5. PICK s \in Students : s = students[n] BY <1>3, <1>4
<1>6. s.courses \in Seq(Codes) /\ s.ID \in SIDs /\ i \in 1 .. Len(s.courses) BY <1>2, <1>5 DEF Students
<1>7. PICK s2 : s2 = [ID |-> s.ID, courses |-> Sch!RemoveAt(s.courses, i)] OBVIOUS
<1>8. s2 \in Students
  <2>1. Sch!RemoveAt(s.courses, i) \in Seq(Codes) BY <1>6, RemovedAt
  <2> QED BY <1>6, <1>7, <2>1 DEF Students
<1>9. students' = [students EXCEPT ![n] = s2]
  <2>1. students' = [students EXCEPT ![n] = [s EXCEPT !.courses = Sch!RemoveAt(s.courses, i)]]
    BY <1>2, <1>5
  <2> QED BY <1>7, <2>1, StudentUpdated
<1>10. students' \in Seq(Students) /\ DOMAIN students' = DOMAIN students
  BY <1>3, <1>4, <1>8, <1>9, PlaceUpdated
<1>11. \A j \in DOMAIN students : students'[j] = IF j = n THEN s2 ELSE students[j]
  BY <1>3, <1>4, <1>8, <1>9, PlaceUpdated
<1>12. ASSUME NEW j \in DOMAIN students PROVE students'[j].ID = students[j].ID
  <2>1. s2.ID = s.ID BY <1>7
  <2>2. students'[j] = IF j = n THEN s2 ELSE students[j] BY <1>11
  <2> QED BY <1>5, <2>1, <2>2
<1>13. ASSUME NEW j \in DOMAIN students, First(j) PROVE First(j)'
  BY <1>10, <1>12, <1>13 DEF First
<1>14. ASSUME NEW j \in DOMAIN students PROVE StudentOK(j)'
  <2>1. StudentOK(j) BY <1>2 DEF SchInv
  <2>2. CASE j = n
    <3>1. students'[j] = s2 /\ s2.ID = s.ID /\ s2.courses = Sch!RemoveAt(s.courses, i)
      BY <1>7, <1>11, <2>2
    <3>2. Sch!IsInjective(s2.courses) BY <1>5, <1>6, <2>1, <2>2, <3>1, RemovedContains DEF StudentOK
    <3>3. ASSUME NEW x \in Codes, Sch!Contains(s2.courses, x)
          PROVE \E k \in DOMAIN courses : Lists(k, x, s.ID)
      <4>1. Sch!Contains(s.courses, x) BY <1>6, <3>1, <3>3, RemovedContains
      <4> QED BY <1>5, <2>1, <2>2, <4>1 DEF StudentOK, Registered
    <3>4. Registered(j)' BY <1>2, <3>1, <3>3 DEF Registered, Lists
    <3> QED BY <1>4, <1>13, <2>2, <3>1, <3>2, <3>4 DEF StudentOK
  <2>3. CASE j # n
    <3>1. students'[j] = students[j] BY <1>11, <2>3
    <3>2. First(j) => First(j)' BY <1>13
    <3>3. Registered(j)' BY <1>2, <2>1, <3>1 DEF StudentOK, Registered, Lists
    <3> QED BY <2>1, <3>1, <3>2, <3>3 DEF StudentOK
  <2> QED BY <2>2, <2>3
<1>15. menu' # "undefined" => SchSelected' BY <1>1, <1>2, <1>4, <1>10, <1>13 DEF SchSelected
<1> QED BY <1>2, <1>3, <1>10, <1>14, <1>15 DEF SchInv, SchTypes

LEMMA DeleteStudentKeeps == ASSUME SchInv, Sch!delete_student PROVE SchInv'
<1>1. PICK n : n = selected OBVIOUS
<1>2. /\ menu = "student" /\ menu' \in {"students", "undefined"}
      /\ courses' = [k \in DOMAIN courses |->
           IF Sch!Contains(students[n].courses, courses[k].code) /\ k = Sch!IndexOfCode(courses[k].code)
           THEN [courses[k] EXCEPT !.students = Sch!RemoveFirst(@, students[n].ID)] ELSE courses[k]]
      /\ students' = Sch!RemoveAt(students, n)
  BY <1>1 DEF Sch!delete_student, Sch!ShowMenu
<1>3. /\ students \in Seq(Students) /\ Len(students) \in Nat /\ DOMAIN students = 1 .. Len(students)
      /\ courses \in Seq(Courses) /\ Len(courses) \in Nat /\ DOMAIN courses = 1 .. Len(courses)
  BY DEF SchInv, SchTypes
<1>4. n \in 1 .. Len(students) /\ First(n) BY <1>1, <1>2, <1>3 DEF SchInv, SchSelected
<1>5. PICK gone : gone = students[n].ID OBVIOUS
<1>6. ASSUME NEW k \in DOMAIN courses
      PROVE \/ courses'[k] = courses[k]
            \/ courses'[k] = [code |-> courses[k].code,
                              students |-> Sch!RemoveFirst(courses[k].students, gone)]
  <2>1. courses[k] \in Courses BY <1>3
  <2>2. \/ courses'[k] = courses[k]
        \/ courses'[k] = [courses[k] EXCEPT !.students = Sch!RemoveFirst(courses[k].students, gone)]
    BY <1>2, <1>5
  <2> QED BY <2>1, <2>2, CourseUpdated
<1>7. ASSUME NEW k \in DOMAIN courses
      PROVE courses'[k] \in Courses /\ \A x, ident : Lists(k, x, ident) /\ ident # gone => Lists(k, x, ident)'
  <2>1. PICK c \in Courses : c = courses[k] BY <1>3
  <2>2. c.students \in Seq(SIDs) /\ c.code \in Codes BY DEF Courses
  <2>3. CASE courses'[k] = courses[k] BY <2>1, <2>3 DEF Lists
  <2>4. CASE courses'[k] = [code |-> c.code, students |-> Sch!RemoveFirst(c.students, gone)]
    <3>1. PICK r : r = Sch!RemoveFirst(c.students, gone) OBVIOUS
    <3>2. r \in Seq(SIDs) /\ \A x : Sch!Contains(c.students, x) /\ x # gone => Sch!Contains(r, x)
      BY <2>2, <3>1, FirstRemoved
    <3>3. courses'[k].code = c.code /\ courses'[k].students = r BY <2>4, <3>1
    <3>4. courses'[k] \in Courses BY <2>2, <2>4, <3>1, <3>2 DEF Courses
    <3> QED BY <2>1, <3>2, <3>3, <3>4 DEF Lists, Sch!Contains
  <2> QED BY <1>6, <2>1, <2>3, <2>4
<1>8. courses' \in Seq(Courses) /\ DOMAIN courses' = DOMAIN courses
  <2>1. DOMAIN courses' = 1 .. Len(courses) /\ courses' = [k \in 1 .. Len(courses) |-> courses'[k]]
    BY <1>2, <1>3
  <2>2. courses' \in [1 .. Len(courses) -> Courses] BY <1>3, <1>7, <2>1
  <2> QED BY <1>3, <2>1, <2>2
<1>9. /\ students' \in Seq(Students) /\ DOMAIN students' = 1 .. Len(students) - 1
      /\ \A i \in 1 .. Len(students) - 1 : students'[i] = IF i < n THEN students[i] ELSE students[i + 1]
  BY SMTT(30), <1>2, <1>3, <1>4, RemovedAt
<1>10. ASSUME NEW i \in DOMAIN students' PROVE StudentOK(i)'
  <2>1. PICK m \in DOMAIN students : m = (IF i < n THEN i ELSE i + 1) /\ m # n
    BY <1>3, <1>4, <1>9
  <2>2. students'[i] = students[m] BY <1>9, <2>1
  <2>3. StudentOK(m) BY <1>2 DEF SchInv
  <2>4. ASSUME First(m) PROVE First(i)'
    <3> SUFFICES ASSUME NEW j \in DOMAIN students', j < i PROVE students'[j].ID # students'[i].ID
      BY DEF First
    <3>1. PICK l \in DOMAIN students : l = (IF j < n THEN j ELSE j + 1) BY <1>3, <1>4, <1>9
    <3>2. students'[j] = students[l] BY <1>9, <3>1
    <3>3. l < m BY <1>3, <1>4, <1>9, <2>1, <3>1
    <3> QED BY <2>2, <2>4, <3>2, <3>3 DEF First
  <2>5. students[m].courses # <<>> => students[m].ID # gone
    <3> SUFFICES ASSUME students[m].courses # <<>> PROVE students[m].ID # gone OBVIOUS
    <3>1. First(m) BY <2>3 DEF StudentOK
    <3>2. m < n \/ n < m BY <1>3, <1>4, <2>1
    <3> QED BY <1>3, <1>4, <1>5, <2>1, <3>1, <3>2 DEF First
  <2>6. Registered(i)'
    <3> SUFFICES ASSUME NEW x \in Codes, Sch!Contains(students[m].courses, x)
                 PROVE \E k \in DOMAIN courses' : Lists(k, x, students[i].ID)'
      BY <2>2 DEF Registered, Sch!Contains
    <3>1. PICK k \in DOMAIN courses : Lists(k, x, students[m].ID) BY <2>3 DEF StudentOK, Registered
    <3>2. students[m].courses # <<>> BY DEF Sch!Contains
    <3>3. PICK ident : ident = students[m].ID OBVIOUS
    <3>4. Lists(k, x, ident)' BY <1>7, <2>5, <3>1, <3>2, <3>3
    <3> QED BY <1>8, <2>2, <3>3, <3>4 DEF Lists
  <2> QED BY <2>2, <2>3, <2>4, <2>6 DEF StudentOK
<1>11. SchSelected' BY <1>2 DEF SchSelected
<1> QED BY <1>8, <1>9, <1>10, <1>11 DEF SchInv, SchTypes

LEMMA DeleteCourseKeeps == ASSUME SchInv, Sch!delete_course PROVE SchInv'
<1>1. PICK n : n = selected OBVIOUS
<1>2. /\ menu = "course" /\ menu' \in {"courses", "undefined"}
      /\ students' = [k \in DOMAIN students |->
           IF Sch!Contains(courses[n].students, students[k].ID) /\ k = Sch!IndexOfID(students[k].ID)
           THEN [students[k] EXCEPT !.courses = Sch!RemoveFirst(@, courses[n].code)] ELSE students[k]]
      /\ courses' = Sch!RemoveAt(courses, n)
  BY <1>1 DEF Sch!delete_course, Sch!ShowMenu
<1>3. /\ students \in Seq(Students) /\ Len(students) \in Nat /\ DOMAIN students = 1 .. Len(students)
      /\ courses \in Seq(Courses) /\ Len(courses) \in Nat /\ DOMAIN courses = 1 .. Len(courses)
  BY DEF SchInv, SchTypes
<1>4. n \in 1 .. Len(courses) BY <1>1, <1>2, <1>3 DEF SchInv, SchSelected
<1>5. PICK gone : gone = courses[n].code OBVIOUS
<1>6. ASSUME NEW i \in DOMAIN students
      PROVE IF Sch!Contains(courses[n].students, students[i].ID) /\ i = Sch!IndexOfID(students[i].ID)
            THEN students'[i] = [ID |-> students[i].ID,
                                 courses |-> Sch!RemoveFirst(students[i].courses, gone)]
            ELSE students'[i] = students[i]
  <2>1. students[i] \in Students BY <1>3
  <2>2. students'[i] =
          IF Sch!Contains(courses[n].students, students[i].ID) /\ i = Sch!IndexOfID(students[i].ID)
          THEN [students[i] EXCEPT !.courses = Sch!RemoveFirst(students[i].courses, gone)] ELSE students[i]
    BY <1>2, <1>5
  <2> QED BY <2>1, <2>2, StudentUpdated
<1>7. ASSUME NEW i \in DOMAIN students
      PROVE /\ students'[i] \in Students /\ students'[i].ID = students[i].ID
            /\ \A x : Sch!Contains(students'[i].courses, x) => Sch!Contains(students[i].courses, x)
            /\ Sch!IsInjective(students'[i].courses)
            /\ Sch!Contains(courses[n].students, students[i].ID) /\ i = Sch!IndexOfID(students[i].ID) =>
                 ~Sch!Contains(students'[i].courses, gone)
  <2>1. PICK s \in Students : s = students[i] BY <1>3
  <2>2. s.courses \in Seq(Codes) /\ s.ID \in SIDs BY DEF Students
  <2>3. Sch!IsInjective(s.courses) BY <1>2, <2>1 DEF SchInv, StudentOK
  <2>4. PICK r : r = Sch!RemoveFirst(s.courses, gone) OBVIOUS
  <2>5. /\ r \in Seq(Codes) /\ Sch!IsInjective(r) /\ ~Sch!Contains(r, gone)
        /\ \A x : Sch!Contains(r, x) => Sch!Contains(s.courses, x)
    BY <2>2, <2>3, <2>4, FirstRemoved
  <2>6. CASE Sch!Contains(courses[n].students, s.ID) /\ i = Sch!IndexOfID(s.ID)
    <3>1. students'[i] = [ID |-> s.ID, courses |-> r] BY <1>6, <2>1, <2>4, <2>6
    <3>2. students'[i] \in Students BY <2>2, <2>5, <3>1 DEF Students
    <3>3. students'[i].ID = s.ID /\ students'[i].courses = r BY <3>1
    <3> QED BY <2>1, <2>5, <3>2, <3>3
  <2>7. CASE ~(Sch!Contains(courses[n].students, s.ID) /\ i = Sch!IndexOfID(s.ID))
    <3>1. students'[i] = s BY <1>6, <2>1, <2>7
    <3> QED BY <2>1, <2>3, <2>7, <3>1
  <2> QED BY <2>6, <2>7
<1>8. students' \in Seq(Students) /\ DOMAIN students' = DOMAIN students
  <2>1. DOMAIN students' = 1 .. Len(students) /\ students' = [k \in 1 .. Len(students) |-> students'[k]]
    BY <1>2, <1>3
  <2>2. students' \in [1 .. Len(students) -> Students] BY <1>3, <1>7, <2>1
  <2> QED BY <1>3, <2>1, <2>2
<1>9. /\ courses' \in Seq(Courses) /\ DOMAIN courses' = 1 .. Len(courses) - 1
      /\ \A k \in 1 .. Len(courses) - 1 : courses'[k] = IF k < n THEN courses[k] ELSE courses[k + 1]
  BY SMTT(30), <1>2, <1>3, <1>4, RemovedAt
<1>10. ASSUME NEW k \in DOMAIN courses, k # n PROVE \E l \in DOMAIN courses' : courses'[l] = courses[k]
  <2>1. CASE k < n BY <1>3, <1>4, <1>9, <1>10, <2>1
  <2>2. CASE n < k
    <3>1. k - 1 \in 1 .. Len(courses) - 1 /\ ~(k - 1 < n) /\ (k - 1) + 1 = k BY <1>3, <1>4, <2>2
    <3> QED BY <1>9, <3>1
  <2> QED BY <1>3, <1>4, <1>10, <2>1, <2>2
<1>11. ASSUME NEW i \in DOMAIN students PROVE StudentOK(i)'
  <2>1. StudentOK(i) BY <1>2 DEF SchInv
  <2>2. First(i) => First(i)' BY <1>7, <1>8 DEF First
  <2>3. students'[i].courses # <<>> => students[i].courses # <<>>
    <3> SUFFICES ASSUME students'[i].courses # <<>> PROVE students[i].courses # <<>> OBVIOUS
    <3>1. PICK q \in Seq(Codes) : q = students'[i].courses BY <1>7 DEF Students
    <3>2. 1 \in 1 .. Len(q) BY <3>1
    <3>3. Sch!Contains(students[i].courses, q[1]) BY <1>7, <3>1, <3>2 DEF Sch!Contains
    <3> QED BY <3>3 DEF Sch!Contains
  <2>4. Registered(i)'
    <3> SUFFICES ASSUME NEW x \in Codes, Sch!Contains(students'[i].courses, x)
                 PROVE \E l \in DOMAIN courses' : Lists(l, x, students[i].ID)'
      BY DEF Registered, Sch!Contains
    <3>1. Sch!Contains(students[i].courses, x) BY <1>7
    <3>2. PICK k \in DOMAIN courses : Lists(k, x, students[i].ID) BY <2>1, <3>1 DEF StudentOK, Registered
    <3>3. k # n
      <4> SUFFICES ASSUME k = n PROVE FALSE OBVIOUS
      <4>1. x = gone /\ Sch!Contains(courses[n].students, students[i].ID) BY <1>5, <3>2 DEF Lists
      <4>2. students[i].courses # <<>> BY <3>1 DEF Sch!Contains
      <4>3. First(i) BY <2>1, <4>2 DEF StudentOK
      <4>4. PICK f : f = Sch!IndexOfID(students[i].ID) OBVIOUS
      <4>5. f \in DOMAIN students /\ students[f].ID = students[i].ID
            /\ \A j \in DOMAIN students : j < f => students[j].ID # students[i].ID
        BY <1>3, <4>4, IndexIsFirst
      <4>6. ~(f < i) /\ ~(i < f) BY <4>3, <4>5 DEF First
      <4>7. f = i BY <1>3, <4>5, <4>6
      <4> QED BY <1>7, <4>1, <4>4, <4>7
    <3>4. PICK l \in DOMAIN courses' : courses'[l] = courses[k] BY <1>10, <3>3
    <3>5. students'[i].ID = students[i].ID BY <1>7
    <3> QED BY <3>2, <3>4, <3>5 DEF Lists, Sch!Contains
  <2> QED BY <1>7, <2>1, <2>2, <2>3, <2>4 DEF StudentOK
<1>12. SchSelected' BY <1>2 DEF SchSelected
<1> QED BY <1>8, <1>9, <1>11, <1>12 DEF SchInv, SchTypes
-----------------------------------------------------------------------------
LEMMA SchSteps == [AllNext]_allvars => [Sch!Next]_school_vars
BY DEF AllNext, Only, allvars

(* The school management system keeps its invariant.                         *)
THEOREM SchoolInvariant == AllSpec => []SchInv
<1>1. AllInit => SchInv
  <2> SUFFICES ASSUME Sch!Init PROVE SchInv BY DEF AllInit
  <2>1. students = <<>> /\ courses = <<>> /\ menu = "main" BY DEF Sch!Init
  <2>2. <<>> \in Seq(Students) /\ <<>> \in Seq(Courses) OBVIOUS
  <2>3. DOMAIN students = {} BY <2>1
  <2> QED BY <2>1, <2>2, <2>3 DEF SchInv, SchTypes, SchSelected
<1>2. SchInv /\ [AllNext]_allvars => SchInv'
  <2> SUFFICES ASSUME SchInv, [Sch!Next]_school_vars PROVE SchInv' BY SchSteps
  <2>1. CASE UNCHANGED school_vars
    <3>1. students' = students /\ courses' = courses /\ menu' = menu /\ selected' = selected
      BY <2>1 DEF school_vars
    <3>2. CASE menu = "undefined" BY <3>1, <3>2 DEF SchInv, SchTypes
    <3>3. CASE menu # "undefined"
      <4>1. SchSelected' BY <3>1, <3>3 DEF SchInv, SchSelected, First
      <4> QED BY <3>1, <3>3, <4>1, ListsKept
    <3> QED BY <3>2, <3>3
  <2>2. CASE Sch!Next
    <3>1. CASE Sch!Up \/ Sch!Down \/ Sch!Mistype \/ Sch!ChooseBeyond BY <3>1, MenuKeeps
    <3>2. CASE Sch!add_student \/ Sch!add_course BY <3>2, AddStudentKeeps, AddCourseKeeps
    <3>3. CASE Sch!select_student \/ Sch!select_course BY <3>3, SelectStudentKeeps, SelectCourseKeeps
    <3>4. CASE Sch!AddToCourse \/ Sch!DropCourse BY <3>4, AddToCourseKeeps, DropCourseKeeps
    <3>5. CASE Sch!delete_student \/ Sch!delete_course BY <3>5, DeleteStudentKeeps, DeleteCourseKeeps
    <3> QED BY <2>2, <3>1, <3>2, <3>3, <3>4, <3>5 DEF Sch!Next
  <2> QED BY <2>1, <2>2
<1> QED BY <1>1, <1>2, PTL DEF AllSpec

(* A course that a student takes is there and lists the student, whatever is *)
(* deleted and whatever IDs and codes are used twice                         *)
(* (SchoolManagementSystem.cpp:142-191, 285-311).                            *)
THEOREM TakenCoursesAreRegistered == AllSpec => []TakenAreRegistered
<1>1. SchInv => TakenAreRegistered
  <2> SUFFICES ASSUME SchInv, menu # "undefined", NEW i \in DOMAIN students
               PROVE /\ Sch!IsInjective(students[i].courses)
                     /\ \A c \in Sch!ToSet(students[i].courses) :
                          \E d \in Sch!ToSet(courses) :
                            d.code = c /\ Sch!Contains(d.students, students[i].ID)
    BY DEF TakenAreRegistered, Sch!TakenAreRegistered, Sch!ToSet
  <2>1. StudentOK(i) /\ students \in Seq(Students) BY DEF SchInv, SchTypes
  <2>2. PICK q \in Seq(Codes) : q = students[i].courses
    <3>1. students[i] \in Students BY <2>1
    <3> QED BY <3>1 DEF Students
  <2>3. ASSUME NEW c \in Sch!ToSet(q)
        PROVE \E d \in Sch!ToSet(courses) : d.code = c /\ Sch!Contains(d.students, students[i].ID)
    <3>1. c \in Codes /\ Sch!Contains(q, c) BY DEF Sch!ToSet, Sch!Contains
    <3>2. PICK k \in DOMAIN courses : Lists(k, c, students[i].ID)
      BY <2>1, <2>2, <3>1 DEF StudentOK, Registered
    <3> QED BY <3>2 DEF Lists, Sch!ToSet
  <2> QED BY <2>1, <2>2, <2>3 DEF StudentOK
<1> QED BY <1>1, SchoolInvariant, PTL
-----------------------------------------------------------------------------
(* The CPU simulator, for any programs: an instruction in user mode spares   *)
(* the kernel's memory.                                                      *)
MemInt(m) == \A a \in DOMAIN m : m[a] \in Int

(* The kernel's cells, but for three of the thread table entry at e. *)
KernelCells(e) == (21 .. 999) \ (e + 1 .. e + 3)
Spares(e, m, n) == \A a \in KernelCells(e) : Sys!ReadIn(n, a) = Sys!ReadIn(m, a)

CodeRead(program) ==
  /\ DOMAIN program \subseteq Nat
  /\ \A a \in DOMAIN program : \A k \in 1 .. Len(program[a].args) : program[a].args[k] \in Int
SysInv == MemInt(mem) /\ CodeRead(code) /\ (code = <<>> => kernelMode) /\ kernelMode \in BOOLEAN

Machines(M)  == [mem : M, kernel : BOOLEAN, halted : BOOLEAN, thrown : BOOLEAN]
IsMachine(c) == c \in Machines({c.mem}) /\ MemInt(c.mem)

(* What an instruction on machine c may do. *)
Good(e, c, d) == IsMachine(d) /\ (~c.kernel => Spares(e, c.mem, d.mem))

LEMMA Written ==
  ASSUME NEW m, NEW a, NEW v
  PROVE  \A b : Sys!ReadIn(Sys!WriteIn(m, a, v), b) = IF b = a THEN v ELSE Sys!ReadIn(m, b)
BY DEF Sys!ReadIn, Sys!WriteIn

LEMMA WrittenInt ==
  ASSUME NEW m, MemInt(m), NEW a, NEW v \in Int
  PROVE  MemInt(Sys!WriteIn(m, a, v))
BY DEF MemInt, Sys!WriteIn

LEMMA ReadInt == ASSUME NEW m, MemInt(m), NEW a PROVE Sys!ReadIn(m, a) \in Int
BY DEF MemInt, Sys!ReadIn

LEMMA MachineIn == ASSUME NEW M, NEW c \in Machines(M), MemInt(c.mem) PROVE IsMachine(c)
BY DEF Machines, IsMachine

LEMMA PutIs ==
  ASSUME NEW c, IsMachine(c), NEW a, NEW v \in Int
  PROVE  /\ IsMachine(Sys!Put(c, a, v)) /\ Sys!Put(c, a, v).mem = Sys!WriteIn(c.mem, a, v)
         /\ Sys!Put(c, a, v).kernel = c.kernel /\ Sys!Put(c, a, v).halted = c.halted
<1> DEFINE M == {c.mem, Sys!WriteIn(c.mem, a, v)}
<1>1. c \in Machines(M) BY DEF IsMachine, Machines
<1>2. /\ Sys!Put(c, a, v) \in Machines(M) /\ Sys!Put(c, a, v).mem = Sys!WriteIn(c.mem, a, v)
      /\ Sys!Put(c, a, v).kernel = c.kernel /\ Sys!Put(c, a, v).halted = c.halted
  BY <1>1 DEF Machines, Sys!Put
<1>3. MemInt(Sys!Put(c, a, v).mem) BY <1>2, WrittenInt DEF IsMachine
<1> QED BY <1>2, <1>3, MachineIn

(* Stopping, an exception, the mode. *)
LEMMA HaltIs ==
  ASSUME NEW c, IsMachine(c)
  PROVE  /\ IsMachine(Sys!Halt(c)) /\ Sys!Halt(c).mem = c.mem /\ Sys!Halt(c).kernel = c.kernel
         /\ IsMachine(Sys!Throw(c)) /\ Sys!Throw(c).mem = c.mem /\ Sys!Throw(c).kernel = c.kernel
<1> DEFINE M == {c.mem}
<1>1. c \in Machines(M) BY DEF IsMachine
<1>2. Sys!Halt(c) \in Machines(M) /\ Sys!Halt(c).mem = c.mem /\ Sys!Halt(c).kernel = c.kernel
  BY <1>1 DEF Machines, Sys!Halt
<1>3. Sys!Throw(c) \in Machines(M) /\ Sys!Throw(c).mem = c.mem /\ Sys!Throw(c).kernel = c.kernel
  BY <1>1 DEF Machines, Sys!Throw
<1> QED BY <1>2, <1>3, MachineIn DEF IsMachine

LEMMA ModeIs ==
  ASSUME NEW c, IsMachine(c), NEW b \in BOOLEAN
  PROVE  /\ IsMachine([c EXCEPT !.kernel = b]) /\ [c EXCEPT !.kernel = b].mem = c.mem
         /\ [c EXCEPT !.kernel = b].kernel = b
<1> DEFINE M == {c.mem}
<1>1. c \in Machines(M) BY DEF IsMachine
<1>4. /\ [c EXCEPT !.kernel = b] \in Machines(M) /\ [c EXCEPT !.kernel = b].mem = c.mem
      /\ [c EXCEPT !.kernel = b].kernel = b
  BY <1>1 DEF Machines
<1> QED BY <1>4, MachineIn DEF IsMachine

LEMMA GetInt == ASSUME NEW c, IsMachine(c), NEW a PROVE Sys!Get(c, a) \in Int
BY ReadInt DEF Sys!Get, IsMachine

(* A write to a cell that user mode may touch. *)
LEMMA PutGood ==
  ASSUME NEW e \in Int, NEW c, IsMachine(c), NEW a, NEW v \in Int, c.kernel \/ a \notin KernelCells(e)
  PROVE  /\ Good(e, c, Sys!Put(c, a, v)) /\ IsMachine(Sys!Put(c, a, v))
         /\ Sys!Put(c, a, v).kernel = c.kernel /\ Sys!Put(c, a, v).halted = c.halted
<1>1. ~c.kernel => Spares(e, c.mem, Sys!WriteIn(c.mem, a, v)) BY Written DEF Spares
<1> QED BY <1>1, PutIs DEF Good

LEMMA GoodAgain ==
  ASSUME NEW e, NEW b, NEW c, NEW d, Good(e, b, c), Good(e, c, d), c.kernel = b.kernel
  PROVE  Good(e, b, d)
BY DEF Good, Spares

LEMMA ValidOutside ==
  ASSUME NEW e \in Int, NEW c, NEW A, Sys!Valid(c, A), NEW a \in A
  PROVE  c.kernel \/ a \notin KernelCells(e)
<1>1. Sys!IsAddressValid(a, c.kernel) BY DEF Sys!Valid
<1>2. a \in Int /\ (c.kernel \/ a <= 20 \/ a >= 1000)
  <2>1. a \in Sys!Cells /\ (c.kernel \/ a <= 20 \/ a >= Sys!UserStart) BY <1>1 DEF Sys!IsAddressValid
  <2>2. Sys!Cells \subseteq Int BY DEF Sys!Cells, Sys!MemorySize
  <2> QED BY <2>1, <2>2 DEF Sys!UserStart
<1>3. (a <= 20 \/ a >= 1000) => a \notin KernelCells(e) BY <1>2 DEF KernelCells
<1> QED BY <1>2, <1>3

LEMMA LowCells ==
  ASSUME NEW e \in Int
  PROVE  /\ Sys!PC \notin KernelCells(e) /\ Sys!SP \notin KernelCells(e) /\ 4 \notin KernelCells(e)
         /\ Sys!INSTR_COUNT \notin KernelCells(e)
BY DEF KernelCells, Sys!PC, Sys!SP, Sys!INSTR_COUNT

LEMMA HaltGood ==
  ASSUME NEW e, NEW c, IsMachine(c)
  PROVE  Good(e, c, c) /\ Good(e, c, Sys!Halt(c)) /\ Good(e, c, Sys!Throw(c))
BY HaltIs DEF Good, Spares

(* The instructions. *)
LEMMA PushGood ==
  ASSUME NEW e \in Int, NEW c, IsMachine(c), NEW v \in Int
  PROVE  Good(e, c, Sys!Push(c, v)) /\ Sys!Push(c, v).kernel = c.kernel
<1> DEFINE sp == Sys!Get(c, Sys!SP) - 1
<1>1. sp \in Int BY GetInt
<1>2. CASE Sys!Valid(c, {sp})
  <2> DEFINE p == Sys!Put(c, sp, v)
  <2>1. c.kernel \/ sp \notin KernelCells(e) BY <1>2, ValidOutside
  <2>2. Good(e, c, p) /\ p.kernel = c.kernel /\ IsMachine(p) BY <1>1, <2>1, PutGood DEF Good
  <2>3. Good(e, p, Sys!Put(p, Sys!SP, sp)) /\ Sys!Put(p, Sys!SP, sp).kernel = p.kernel
    BY <1>1, <2>2, PutGood, LowCells
  <2>4. Sys!Push(c, v) = Sys!Put(p, Sys!SP, sp) BY <1>2 DEF Sys!Push
  <2> QED BY <2>2, <2>3, <2>4, GoodAgain
<1>3. CASE ~Sys!Valid(c, {sp})
  <2>1. Sys!Push(c, v) = Sys!Halt(c) BY <1>3 DEF Sys!Push
  <2> QED BY <2>1, HaltIs, HaltGood
<1> QED BY <1>2, <1>3

LEMMA JumpGood ==
  ASSUME NEW e \in Int, NEW c, IsMachine(c), NEW v \in Int
  PROVE  Good(e, c, Sys!Jump(c, v)) /\ Sys!Jump(c, v).kernel = c.kernel
BY PutGood, LowCells DEF Sys!Jump

LEMMA MovesGood ==
  ASSUME NEW e \in Int, NEW c, IsMachine(c), NEW x \in Int, NEW y \in Int
  PROVE  /\ Good(e, c, Sys!ExecuteSET(c, x, y)) /\ Good(e, c, Sys!ExecuteCPY(c, x, y))
         /\ Good(e, c, Sys!ExecuteCPYI(c, x, y)) /\ Good(e, c, Sys!ExecuteCPYI2(c, x, y))
<1>1. \A a : Sys!Get(c, a) \in Int BY GetInt
<1>2. Good(e, c, Sys!Halt(c)) BY HaltGood
<1>3. ASSUME NEW A, Sys!Valid(c, A), NEW a \in A, NEW v \in Int PROVE Good(e, c, Sys!Put(c, a, v))
  BY <1>3, ValidOutside, PutGood
<1>4. Good(e, c, Sys!ExecuteSET(c, x, y)) BY <1>2, <1>3 DEF Sys!ExecuteSET
<1>5. Good(e, c, Sys!ExecuteCPY(c, x, y)) BY <1>1, <1>2, <1>3 DEF Sys!ExecuteCPY
<1>6. Good(e, c, Sys!ExecuteCPYI(c, x, y)) BY <1>1, <1>2, <1>3 DEF Sys!ExecuteCPYI
<1>7. Good(e, c, Sys!ExecuteCPYI2(c, x, y)) BY <1>1, <1>2, <1>3 DEF Sys!ExecuteCPYI2
<1> QED BY <1>4, <1>5, <1>6, <1>7

LEMMA SumsGood ==
  ASSUME NEW e \in Int, NEW c, IsMachine(c), NEW x \in Int, NEW y \in Int
  PROVE  /\ Good(e, c, Sys!ExecuteADD(c, x, y)) /\ Good(e, c, Sys!ExecuteADDI(c, x, y))
         /\ Good(e, c, Sys!ExecuteSUBI(c, x, y)) /\ Good(e, c, Sys!ExecuteJIF(c, x, y))
<1>1. \A a, b : /\ Sys!Get(c, a) + Sys!Get(c, b) \in Int /\ Sys!Get(c, a) - Sys!Get(c, b) \in Int
               /\ Sys!Get(c, a) + y \in Int
  BY GetInt
<1>2. Good(e, c, Sys!Halt(c)) /\ Good(e, c, c) BY HaltGood
<1>3. ASSUME NEW A, Sys!Valid(c, A), NEW a \in A, NEW v \in Int PROVE Good(e, c, Sys!Put(c, a, v))
  BY <1>3, ValidOutside, PutGood
<1>4. Good(e, c, Sys!ExecuteADD(c, x, y)) BY <1>1, <1>2, <1>3 DEF Sys!ExecuteADD
<1>5. Good(e, c, Sys!ExecuteADDI(c, x, y)) BY <1>1, <1>2, <1>3 DEF Sys!ExecuteADDI
<1>6. Good(e, c, Sys!ExecuteSUBI(c, x, y)) BY <1>1, <1>2, <1>3 DEF Sys!ExecuteSUBI
<1>7. Good(e, c, Sys!ExecuteJIF(c, x, y)) BY <1>2, JumpGood DEF Sys!ExecuteJIF
<1> QED BY <1>4, <1>5, <1>6, <1>7

LEMMA StackGood ==
  ASSUME NEW e \in Int, NEW c, IsMachine(c), NEW x \in Int
  PROVE  /\ Good(e, c, Sys!ExecutePUSH(c, x)) /\ Good(e, c, Sys!ExecutePOP(c, x))
         /\ Good(e, c, Sys!ExecuteCALL(c, x)) /\ Good(e, c, Sys!ExecuteRET(c))
<1> DEFINE sp == Sys!Get(c, Sys!SP)
<1>1. \A a : Sys!Get(c, a) \in Int /\ sp + 1 \in Int BY GetInt
<1>2. Good(e, c, Sys!Halt(c)) BY HaltGood
<1>3. Good(e, c, Sys!ExecutePUSH(c, x)) BY <1>1, <1>2, PushGood DEF Sys!ExecutePUSH
<1>4. Good(e, c, Sys!ExecutePOP(c, x))
  <2>1. CASE Sys!Valid(c, {x, sp})
    <3> DEFINE p == Sys!Put(c, x, Sys!Get(c, sp))
    <3>1. Good(e, c, p) /\ p.kernel = c.kernel /\ IsMachine(p)
      BY <1>1, <2>1, ValidOutside, PutGood DEF Good
    <3>2. Good(e, p, Sys!Put(p, Sys!SP, sp + 1)) BY <1>1, <3>1, PutGood, LowCells
    <3>3. Sys!ExecutePOP(c, x) = Sys!Put(p, Sys!SP, sp + 1) BY <2>1 DEF Sys!ExecutePOP
    <3> QED BY <3>1, <3>2, <3>3, GoodAgain
  <2>2. CASE ~Sys!Valid(c, {x, sp}) BY <1>2, <2>2 DEF Sys!ExecutePOP
  <2> QED BY <2>1, <2>2
<1>5. Good(e, c, Sys!ExecuteCALL(c, x))
  <2> DEFINE p == Sys!Push(c, Sys!Get(c, Sys!PC) + 1)
  <2>a. Sys!Get(c, Sys!PC) + 1 \in Int BY <1>1
  <2>1. Good(e, c, p) /\ p.kernel = c.kernel /\ IsMachine(p) BY <2>a, PushGood DEF Good
  <2>2. Good(e, p, Sys!Jump(p, x)) BY <2>1, JumpGood
  <2>3. Good(e, c, Sys!Jump(p, x)) BY <2>1, <2>2, GoodAgain
  <2> QED BY <2>1, <2>3 DEF Sys!ExecuteCALL
<1>6. Good(e, c, Sys!ExecuteRET(c))
  <2>1. CASE Sys!Valid(c, {sp})
    <3> DEFINE p == Sys!Jump(c, Sys!Get(c, sp))
    <3>1. Good(e, c, p) /\ p.kernel = c.kernel /\ IsMachine(p) BY <1>1, JumpGood DEF Good
    <3>2. Good(e, p, Sys!Put(p, Sys!SP, sp + 1)) BY <1>1, <3>1, PutGood, LowCells
    <3>3. Sys!ExecuteRET(c) = Sys!Put(p, Sys!SP, sp + 1) BY <2>1 DEF Sys!ExecuteRET
    <3> QED BY <3>1, <3>2, <3>3, GoodAgain
  <2>2. CASE ~Sys!Valid(c, {sp}) BY <1>2, <2>2 DEF Sys!ExecuteRET
  <2> QED BY <2>1, <2>2
<1> QED BY <1>3, <1>4, <1>5, <1>6

(* USER and SYSCALL change the mode. *)
LEMMA UserGood ==
  ASSUME NEW e \in Int, NEW c, IsMachine(c), NEW args
  PROVE  Good(e, c, Sys!ExecuteUSER(c, args))
<1> DEFINE user == [c EXCEPT !.kernel = FALSE]
<1>3. user.mem = c.mem /\ user.kernel = FALSE /\ IsMachine(user) BY ModeIs
<1>4. \A d : Good(e, user, d) => Good(e, c, d) BY <1>3 DEF Good
<1>5. Good(e, user, user) /\ Good(e, user, Sys!Halt(user)) BY <1>3, HaltGood
<1>6. Good(e, user, Sys!Jump(user, Sys!Get(c, args[1]))) BY <1>3, GetInt, JumpGood
<1> QED BY <1>4, <1>5, <1>6 DEF Sys!ExecuteUSER

LEMMA SyscallGood ==
  ASSUME NEW c, IsMachine(c), NEW sys, NEW args
  PROVE  Good(500 + 10 * Sys!Get(c, Sys!CurrentThread), c, Sys!ExecuteSYSCALL(c, sys, args))
<1> DEFINE e == 500 + 10 * Sys!Get(c, Sys!CurrentThread)
           k == [c EXCEPT !.kernel = TRUE]
           next == Sys!Get(c, Sys!PC) + 1
           p == Sys!Put(k, e + 3, 2)
           q == Sys!Put(p, e + 1, Sys!Get(c, Sys!INSTR_COUNT))
           r == Sys!Jump(q, next)
           s == Sys!Put(k, 4, next)
<1>1. e \in Int /\ next \in Int /\ Sys!Get(c, Sys!INSTR_COUNT) \in Int BY GetInt
<1>4. k.mem = c.mem /\ k.kernel = TRUE /\ IsMachine(k) BY ModeIs
<1> DEFINE Keeps(d) == IsMachine(d) /\ Spares(e, c.mem, d.mem)
<1>5. Keeps(k) BY <1>4 DEF Spares
<1> HIDE DEF k, e, next
<1>6. ASSUME NEW d, Keeps(d), NEW a, a \notin KernelCells(e), NEW v \in Int
      PROVE  Keeps(Sys!Put(d, a, v))
  BY <1>6, PutIs, Written DEF Spares
<1>7. e + 3 \notin KernelCells(e) /\ e + 1 \notin KernelCells(e) BY <1>1 DEF KernelCells
<1>8. Keeps(p) BY <1>5, <1>6, <1>7
<1>9. Keeps(q) BY <1>1, <1>6, <1>7, <1>8
<1>10. Keeps(r) BY <1>1, <1>6, <1>9, LowCells DEF Sys!Jump
<1>11. Keeps(s) BY <1>1, <1>5, <1>6, LowCells
<1> HIDE DEF Keeps, s, r
<1>12. Keeps(Sys!Jump(s, 430)) /\ Keeps(Sys!Jump(s, 400))
  <2>1. \A v \in Int : Keeps(Sys!Jump(s, v)) BY <1>1, <1>6, <1>11, LowCells DEF Sys!Jump
  <2> QED BY <2>1
<1>13. \A d : Keeps(d) => Good(e, c, d) BY DEF Good, Keeps
<1>14. ASSUME NEW d, Keeps(d) PROVE Keeps(Sys!Halt(d)) /\ Keeps(Sys!Throw(d))
  BY <1>14, HaltIs DEF Spares, Keeps
<1>15. Keeps([r EXCEPT !.kernel = FALSE]) BY <1>10, ModeIs DEF Spares, Keeps
<1>16. \/ Sys!ExecuteSYSCALL(c, sys, args) \in {[r EXCEPT !.kernel = FALSE], Sys!Throw(r)}
       \/ Sys!ExecuteSYSCALL(c, sys, args) \in {Sys!Jump(s, 430), Sys!Jump(s, 400), Sys!Halt(k)}
  <2>1. Sys!ExecuteSYSCALL(c, sys, args) =
          CASE sys = "PRN" /\ args # <<>> /\ args[1] \in Sys!Cells -> [r EXCEPT !.kernel = FALSE]
            [] sys = "PRN" /\ ~(args # <<>> /\ args[1] \in Sys!Cells) -> Sys!Throw(r)
            [] sys = "HLT"   -> Sys!Jump(s, 430)
            [] sys = "YIELD" -> Sys!Jump(s, 400)
            [] OTHER         -> Sys!Halt(k)
    BY DEF Sys!ExecuteSYSCALL, e, k, next, r, s
  <2>2. PICK w : w = [r EXCEPT !.kernel = FALSE] OBVIOUS
  <2> QED BY <2>1, <2>2
<1>17. Keeps(Sys!ExecuteSYSCALL(c, sys, args))
  <2>1. Keeps([r EXCEPT !.kernel = FALSE]) /\ Keeps(Sys!Throw(r)) BY <1>10, <1>14, <1>15
  <2>2. Keeps(Sys!Halt(k)) BY <1>5, <1>14
  <2>3. CASE Sys!ExecuteSYSCALL(c, sys, args) \in {[r EXCEPT !.kernel = FALSE], Sys!Throw(r)}
    BY <2>1, <2>3, ZenonT(30)
  <2>4. CASE Sys!ExecuteSYSCALL(c, sys, args) \in {Sys!Jump(s, 430), Sys!Jump(s, 400), Sys!Halt(k)}
    <3>1. PICK d : d = Sys!ExecuteSYSCALL(c, sys, args) OBVIOUS
    <3>2. d = Sys!Jump(s, 430) \/ d = Sys!Jump(s, 400) \/ d = Sys!Halt(k) BY <2>4, <3>1
    <3>3. CASE d = Sys!Jump(s, 430) BY <1>12, <3>1, <3>3
    <3>4. CASE d = Sys!Jump(s, 400) BY <1>12, <3>1, <3>4
    <3>5. CASE d = Sys!Halt(k) BY <2>2, <3>1, <3>5
    <3> QED BY <3>1, <3>2, <3>3, <3>4, <3>5
  <2> QED BY <1>16, <2>3, <2>4
<1>18. Good(e, c, Sys!ExecuteSYSCALL(c, sys, args)) BY <1>13, <1>17
<1> QED BY <1>18 DEF e

(* One instruction, whichever it is. *)
LEMMA ExecuteGood ==
  ASSUME NEW c, IsMachine(c), NEW i, NEW sys, \A k \in 1 .. Len(i.args) : i.args[k] \in Int
  PROVE  Good(500 + 10 * Sys!Get(c, Sys!CurrentThread), c, Sys!Execute1(c, i, sys))
<1> DEFINE e == 500 + 10 * Sys!Get(c, Sys!CurrentThread)
           x == i.args[1]   y == i.args[2]
           two == {"SET", "CPY", "CPYI", "CPYI2", "ADD", "ADDI", "SUBI", "JIF"}
           one == {"PUSH", "POP", "CALL"}
<1>1. e \in Int BY GetInt
<1> HIDE DEF e
<1>2. Good(e, c, Sys!Halt(c)) /\ Good(e, c, Sys!Throw(c)) BY HaltGood
<1>a. /\ two \cup one \subseteq DOMAIN Sys!Arity \ {"USER", "RET", "HLT"}
      /\ \A o \in two : Sys!Arity[o] = 2
      /\ \A o \in one : Sys!Arity[o] = 1
  <2>1. two \cup one \subseteq DOMAIN Sys!Arity BY DEF Sys!Arity
  <2>2. \A o \in one : Sys!Arity[o] = 1 BY DEF Sys!Arity
  <2>3. \A o \in two : Sys!Arity[o] = 2 BY DEF Sys!Arity
  <2> QED BY <2>1, <2>2, <2>3
<1>3. CASE i.op \in DOMAIN Sys!Arity \ {"USER", "RET", "HLT"} /\ Len(i.args) # Sys!Arity[i.op]
  BY <1>2, <1>3 DEF Sys!Execute1, e
<1>4. CASE ~(i.op \in DOMAIN Sys!Arity \ {"USER", "RET", "HLT"} /\ Len(i.args) # Sys!Arity[i.op])
  <2>1. /\ i.op \in two => Len(i.args) = 2
        /\ i.op \in one => Len(i.args) = 1
    BY <1>4, <1>a
  <2>2. CASE i.op \in two
    <3>1. x \in Int /\ y \in Int BY <2>1, <2>2
    <3>2. Sys!Execute1(c, i, sys) \in
            {Sys!ExecuteSET(c, x, y), Sys!ExecuteCPY(c, x, y), Sys!ExecuteCPYI(c, x, y),
             Sys!ExecuteCPYI2(c, x, y), Sys!ExecuteADD(c, x, y), Sys!ExecuteADDI(c, x, y),
             Sys!ExecuteSUBI(c, x, y), Sys!ExecuteJIF(c, x, y)}
      BY <1>4, <2>2 DEF Sys!Execute1
    <3>3. \A d \in {Sys!ExecuteSET(c, x, y), Sys!ExecuteCPY(c, x, y), Sys!ExecuteCPYI(c, x, y),
             Sys!ExecuteCPYI2(c, x, y), Sys!ExecuteADD(c, x, y), Sys!ExecuteADDI(c, x, y),
             Sys!ExecuteSUBI(c, x, y), Sys!ExecuteJIF(c, x, y)} : Good(e, c, d)
      BY <1>1, <3>1, MovesGood, SumsGood
    <3> QED BY <3>2, <3>3 DEF e
  <2>3. CASE i.op \in one
    <3>1. x \in Int BY <2>1, <2>3
    <3>2. Sys!Execute1(c, i, sys) \in
            {Sys!ExecutePUSH(c, x), Sys!ExecutePOP(c, x), Sys!ExecuteCALL(c, x)}
      BY <1>4, <2>3 DEF Sys!Execute1
    <3>3. \A d \in {Sys!ExecutePUSH(c, x), Sys!ExecutePOP(c, x), Sys!ExecuteCALL(c, x)} : Good(e, c, d)
      BY <1>1, <3>1, StackGood
    <3> QED BY <3>2, <3>3 DEF e
  <2>4. CASE i.op = "RET" \/ i.op = "HLT"
    <3>1. Sys!Execute1(c, i, sys) \in {Sys!ExecuteRET(c), Sys!Halt(c)}
      BY <1>4, <2>4 DEF Sys!Execute1
    <3>2. Good(e, c, Sys!ExecuteRET(c)) BY <1>1, StackGood
    <3> QED BY <1>2, <3>1, <3>2 DEF e
  <2>5. CASE i.op \notin two \cup one \cup {"RET", "HLT"}
    <3>1. Sys!Execute1(c, i, sys) \in {Sys!ExecuteUSER(c, i.args), Sys!ExecuteSYSCALL(c, sys, i.args)}
      BY <1>4, <2>5 DEF Sys!Execute1
    <3>2. Good(e, c, Sys!ExecuteUSER(c, i.args)) BY <1>1, UserGood
    <3>3. Good(e, c, Sys!ExecuteSYSCALL(c, sys, i.args)) BY SyscallGood DEF e
    <3> QED BY <3>1, <3>2, <3>3 DEF e
  <2> QED BY <2>2, <2>3, <2>4, <2>5
<1> QED BY <1>3, <1>4

(* The count of the current thread: in its own entry, and never the cell of  *)
(* the current thread itself while the PC is that of an instruction.          *)
LEMMA CountedGood ==
  ASSUME NEW c, IsMachine(c)
  PROVE  /\ Good(500 + 10 * Sys!Get(c, Sys!CurrentThread), c, Sys!Counted(c))
         /\ Sys!Counted(c).kernel = c.kernel
         /\ Sys!Get(Sys!Counted(c), Sys!PC) \in Nat =>
               Sys!Get(Sys!Counted(c), Sys!CurrentThread) = Sys!Get(c, Sys!CurrentThread)
<1> DEFINE t == Sys!Get(c, Sys!CurrentThread)
           e == 500 + 10 * t
           n == 502 + 10 * t
           d == Sys!Put(c, n, Sys!Get(c, n) + 1)
<1>1. t \in Int /\ e \in Int /\ n \in Int /\ Sys!Get(c, n) + 1 \in Int /\ n \notin KernelCells(e)
  <2>1. t \in Int BY GetInt
  <2>2. e \in Int /\ n \in Int /\ Sys!Get(c, n) \in Int BY <2>1, GetInt
  <2>3. n \in e + 1 .. e + 3 BY <2>1
  <2> QED BY <2>1, <2>2, <2>3 DEF KernelCells
<1>2. Good(e, c, d) /\ d.kernel = c.kernel /\ d.mem = Sys!WriteIn(c.mem, n, Sys!Get(c, n) + 1)
  BY <1>1, PutGood, PutIs
<1>3. Good(e, c, c) BY HaltGood
<1>4. CASE Sys!Get(c, Sys!PC) \div 1000 # t
  <2>1. Sys!Counted(c) = c BY <1>4 DEF Sys!Counted
  <2> QED BY <1>3, <2>1
<1>5. CASE Sys!Get(c, Sys!PC) \div 1000 = t
  <2>1. Sys!Counted(c) = d BY <1>5 DEF Sys!Counted
  <2>2. Sys!Get(d, Sys!PC) = Sys!Get(c, Sys!PC)
    <3>1. n # Sys!PC BY <1>1 DEF Sys!PC
    <3> QED BY <1>2, <3>1, Written DEF Sys!Get
  <2>3. ASSUME Sys!Get(d, Sys!PC) \in Nat PROVE Sys!Get(d, Sys!CurrentThread) = t
    <3>1. t >= 0 BY <1>1, <1>5, <2>2, <2>3
    <3>2. n # Sys!CurrentThread BY <1>1, <3>1 DEF Sys!CurrentThread
    <3> QED BY <1>2, <3>2, Written DEF Sys!Get
  <2> QED BY <1>2, <2>1, <2>3
<1> QED BY <1>4, <1>5

LEMMA AdvancedSpares ==
  ASSUME NEW e \in Int, NEW c, IsMachine(c), NEW pc \in Int
  PROVE  IsMachine(Sys!Advanced(c, pc)) /\ Spares(e, c.mem, Sys!Advanced(c, pc).mem)
<1> DEFINE n == Sys!Put(c, Sys!INSTR_COUNT, Sys!Get(c, Sys!INSTR_COUNT) + 1)
<1>1. Sys!Get(c, Sys!INSTR_COUNT) + 1 \in Int /\ pc + 1 \in Int BY GetInt
<1>2. ASSUME NEW d, IsMachine(d), NEW a, a \notin KernelCells(e), NEW v \in Int
      PROVE  IsMachine(Sys!Put(d, a, v)) /\ Spares(e, d.mem, Sys!Put(d, a, v).mem)
  BY <1>2, PutIs, Written DEF Spares
<1>3. IsMachine(n) /\ Spares(e, c.mem, n.mem) BY <1>1, <1>2, LowCells
<1>4. IsMachine(Sys!Jump(n, pc + 1)) /\ Spares(e, n.mem, Sys!Jump(n, pc + 1).mem)
  BY <1>1, <1>2, <1>3, LowCells DEF Sys!Jump
<1>5. Spares(e, c.mem, Sys!Jump(n, pc + 1).mem) BY <1>3, <1>4 DEF Spares
<1> QED BY <1>3, <1>4, <1>5 DEF Sys!Advanced

(* One pass of main's loop. *)
LEMMA ExecuteKeeps ==
  ASSUME SysInv, Sys!Execute
  PROVE  /\ SysInv'
         /\ ~kernelMode => Spares(500 + 10 * Sys!ReadIn(mem, Sys!CurrentThread), mem, mem')
<1> DEFINE b == Sys!Machine
           c == Sys!Counted(b)
           e == 500 + 10 * Sys!ReadIn(mem, Sys!CurrentThread)
           pc == Sys!Get(c, Sys!PC)
<1>1. b.mem = mem /\ b.kernel = kernelMode /\ IsMachine(b)
  BY DEF SysInv, Sys!Machine, IsMachine, Machines
<1>2. Sys!Get(b, Sys!CurrentThread) = Sys!ReadIn(mem, Sys!CurrentThread) BY <1>1 DEF Sys!Get
<1>3. e \in Int /\ pc \in Int
  <2>1. Sys!ReadIn(mem, Sys!CurrentThread) \in Int BY <1>1, <1>2, GetInt
  <2>2. IsMachine(c) BY <1>1, CountedGood DEF Good
  <2> QED BY <2>1, <2>2, GetInt
<1>4. /\ IsMachine(c) /\ c.kernel = kernelMode /\ (~kernelMode => Spares(e, mem, c.mem))
      /\ pc \in Nat => Sys!Get(c, Sys!CurrentThread) = Sys!ReadIn(mem, Sys!CurrentThread)
  BY <1>1, <1>2, CountedGood DEF Good
<1> HIDE DEF b, c, e, pc
<1>5. CASE pc \notin DOMAIN code
  <2>1. mem' = c.mem /\ kernelMode' = kernelMode /\ code' = code
    BY <1>5 DEF Sys!Execute, b, c, pc
  <2> QED BY <1>4, <2>1 DEF SysInv, IsMachine, e
<1>6. CASE pc \in DOMAIN code
  <2>1. PICK sys : LET done == Sys!Execute1(c, code[pc], sys)
                   IN  /\ kernelMode' = done.kernel
                       /\ mem' = IF done.thrown THEN done.mem ELSE Sys!Advanced(done, pc).mem
    BY <1>6 DEF Sys!Execute, b, c, pc
  <2> DEFINE done == Sys!Execute1(c, code[pc], sys)
  <2>2. code' = code /\ code # <<>> BY <1>6 DEF Sys!Execute
  <2>3. pc \in Nat /\ \A k \in 1 .. Len(code[pc].args) : code[pc].args[k] \in Int
    BY <1>6 DEF SysInv, CodeRead
  <2>4. Good(e, c, done)
    <3>1. Good(500 + 10 * Sys!Get(c, Sys!CurrentThread), c, done) BY <1>4, <2>3, ExecuteGood
    <3> QED BY <1>4, <2>3, <3>1 DEF e
  <2>5. IsMachine(done) /\ done.kernel \in BOOLEAN BY <2>4 DEF Good, IsMachine, Machines
  <2> HIDE DEF done
  <2>6. IsMachine(Sys!Advanced(done, pc)) /\ Spares(e, done.mem, Sys!Advanced(done, pc).mem)
    BY <1>3, <2>5, AdvancedSpares
  <2>7. /\ kernelMode' = done.kernel
        /\ mem' = done.mem \/ mem' = Sys!Advanced(done, pc).mem
    BY <2>1 DEF done
  <2>8. MemInt(mem') /\ Spares(e, done.mem, mem') BY <2>5, <2>6, <2>7 DEF IsMachine, Spares
  <2>9. SysInv' BY <2>2, <2>5, <2>7, <2>8 DEF SysInv
  <2>10. ~kernelMode => Spares(e, mem, mem')
    <3>1. ~kernelMode => Spares(e, mem, c.mem) /\ Spares(e, c.mem, done.mem) BY <1>4, <2>4 DEF Good
    <3> QED BY <2>8, <3>1 DEF Spares
  <2> QED BY <2>9, <2>10 DEF e
<1> QED BY <1>5, <1>6
-----------------------------------------------------------------------------
(* What the parser reads, from texts that have numbers where numbers belong. *)
NumbersRead(Words) ==
  \A text \in Texts :
    /\ text \in Seq(Seq(Words))
    /\ \A i \in Sys!LinesIn(text, "data") : text[i][2] \in Int
    /\ \A i \in Sys!LinesIn(text, "code") :
         /\ text[i][1] \in Nat
         /\ \A k \in 3 .. Len(text[i]) : (k = 3 /\ text[i][2] = "SYSCALL") \/ text[i][k] \in Int

LEMMA Latest ==
  ASSUME NEW n \in Nat, NEW S \in SUBSET (1 .. n), S # {}
  PROVE  Sys!Max(S) \in S
<1> DEFINE I == {n - i : i \in S}
<1>1. I \in SUBSET Nat /\ I # {}
  <2>1. PICK i \in S : TRUE OBVIOUS
  <2>2. n - i \in I BY <2>1
  <2> QED BY <2>2
<1>2. PICK x \in I : \A y \in I : x <= y BY <1>1, Least
<1>3. n - x \in S /\ \A i \in S : n - x >= i BY <1>2
<1> QED BY <1>3 DEF Sys!Max

LEMMA OperandsAre ==
  ASSUME NEW Words, NEW line \in Seq(Words), NEW k \in Nat, NEW n \in Nat,
         \A j \in k + 1 .. Len(line) : line[j] \in Int
  PROVE  \A j \in 1 .. Len(Sys!Operands(line, k, n)) : Sys!Operands(line, k, n)[j] \in Int
<1>1. CASE Len(line) >= k + n
  <2>1. Sys!Operands(line, k, n) = SubSeq(line, k + 1, k + n) BY <1>1 DEF Sys!Operands
  <2>2. /\ Len(SubSeq(line, k + 1, k + n)) = n
        /\ \A j \in 1 .. n : SubSeq(line, k + 1, k + n)[j] = line[k + j]
    BY <1>1
  <2> QED BY <1>1, <2>1, <2>2
<1>2. CASE ~(Len(line) >= k + n)
  <2>1. Sys!Operands(line, k, n) = <<>> BY <1>2 DEF Sys!Operands
  <2> QED BY <2>1
<1> QED BY <1>1, <1>2

LEMMA ArgsAre ==
  ASSUME NEW Words, NEW line \in Seq(Words), NEW instr \in Sys!InstructionOf(line),
         \A j \in 3 .. Len(line) : (j = 3 /\ line[2] = "SYSCALL") \/ line[j] \in Int
  PROVE  \A j \in 1 .. Len(instr.args) : instr.args[j] \in Int
<1>1. CASE line[2] \in DOMAIN Sys!Arity
  <2>1. instr.args = Sys!Operands(line, 2, Sys!Arity[line[2]]) BY <1>1 DEF Sys!InstructionOf
  <2>2. Sys!Arity[line[2]] \in Nat /\ line[2] # "SYSCALL" BY <1>1 DEF Sys!Arity
  <2> QED BY <2>1, <2>2, OperandsAre
<1>2. CASE line[2] \notin DOMAIN Sys!Arity
  <2>1. \/ instr.args = <<>> \/ \E n \in {0, 1} : instr.args = Sys!Operands(line, 3, n)
    BY <1>2 DEF Sys!InstructionOf
  <2>2. \A n \in {0, 1} : \A j \in 1 .. Len(Sys!Operands(line, 3, n)) : Sys!Operands(line, 3, n)[j] \in Int
    BY OperandsAre
  <2> QED BY <2>1, <2>2
<1> QED BY <1>1, <1>2

LEMMA TextIsRead ==
  ASSUME NEW Words, NumbersRead(Words), NEW text \in Texts
  PROVE  CodeRead(Sys!ProcessInstructionLines(text)) /\ MemInt(Sys!ProcessDataLines(text))
<1> DEFINE Lines == Sys!LinesIn(text, "code")
           is == {i \in Lines : Sys!InstructionOf(text[i]) # {}}
           data == {i \in Sys!LinesIn(text, "data") : Sys!AllNumbers(SubSeq(text[i], 1, 2))}
<1>1. text \in Seq(Seq(Words)) BY DEF NumbersRead
<1>2. DOMAIN text = 1 .. Len(text) /\ Len(text) \in Nat BY <1>1
<1>3. is \subseteq DOMAIN text /\ data \subseteq DOMAIN text BY DEF Sys!LinesIn
<1>4. ASSUME NEW S \in SUBSET DOMAIN text, NEW a, {i \in S : text[i][1] = a} # {}
      PROVE  \E i \in S : text[i][1] = a /\ Sys!LastFor(text, S, a) = text[i]
  <2>1. Sys!Max({i \in S : text[i][1] = a}) \in {i \in S : text[i][1] = a} BY <1>2, <1>4, Latest
  <2> QED BY <2>1 DEF Sys!LastFor
<1>5. CodeRead(Sys!ProcessInstructionLines(text))
  <2> DEFINE program == Sys!ProcessInstructionLines(text)
  <2>1. /\ DOMAIN program = {text[i][1] : i \in is}
        /\ \A a \in DOMAIN program :
              program[a] = CHOOSE instr \in Sys!InstructionOf(Sys!LastFor(text, is, a)) : TRUE
    BY DEF Sys!ProcessInstructionLines
  <2>2. DOMAIN program \subseteq Nat BY <2>1 DEF NumbersRead
  <2>3. ASSUME NEW a \in DOMAIN program
        PROVE  \A k \in 1 .. Len(program[a].args) : program[a].args[k] \in Int
    <3>1. PICK i \in is : Sys!LastFor(text, is, a) = text[i]
      <4>1. {i \in is : text[i][1] = a} # {} BY <2>1
      <4> HIDE DEF is
      <4> QED BY <1>3, <1>4, <4>1
    <3>2. program[a] \in Sys!InstructionOf(text[i]) BY <2>1, <3>1
    <3>3. text[i] \in Seq(Words) BY <1>1, <1>3
    <3>4. \A k \in 3 .. Len(text[i]) : (k = 3 /\ text[i][2] = "SYSCALL") \/ text[i][k] \in Int
      BY DEF NumbersRead
    <3> QED BY <3>2, <3>3, <3>4, ArgsAre
  <2> QED BY <2>2, <2>3 DEF CodeRead
<1>6. MemInt(Sys!ProcessDataLines(text))
  <2> DEFINE cells == Sys!ProcessDataLines(text)
  <2>1. /\ DOMAIN cells = {text[i][1] : i \in data}
        /\ \A a \in DOMAIN cells : cells[a] = Sys!LastFor(text, data, a)[2]
    BY DEF Sys!ProcessDataLines
  <2>2. ASSUME NEW a \in DOMAIN cells PROVE cells[a] \in Int
    <3>1. PICK i \in data : Sys!LastFor(text, data, a) = text[i]
      <4>1. {i \in data : text[i][1] = a} # {} BY <2>1
      <4> HIDE DEF data
      <4> QED BY <1>3, <1>4, <4>1
    <3> QED BY <2>1, <3>1 DEF NumbersRead
  <2> QED BY <2>2 DEF MemInt
<1> QED BY <1>5, <1>6
-----------------------------------------------------------------------------
LEMMA SysSteps == [AllNext]_allvars => [Sys!Next]_system_vars
BY DEF AllNext, Only, allvars

LEMMA SysNext ==
  ASSUME NEW Words, NumbersRead(Words), SysInv, [Sys!Next]_system_vars
  PROVE  SysInv'
<1>1. CASE UNCHANGED system_vars BY <1>1 DEF system_vars, SysInv
<1>2. CASE Sys!LoadProgram
  <2>1. PICK text \in Texts :
          /\ code' = Sys!ProcessInstructionLines(text)
          /\ LET data == Sys!ProcessDataLines(text)
             IN  mem' = Sys!WriteIn(Sys!WriteIn(Sys!WriteIn(data, Sys!SYSCALL_RESULT, 0),
                                                Sys!INSTR_COUNT, 0), Sys!PC, 0)
    BY <1>2 DEF Sys!LoadProgram
  <2>2. kernelMode' = TRUE BY <1>2 DEF Sys!LoadProgram
  <2>3. MemInt(mem') BY <2>1, TextIsRead, WrittenInt
  <2>4. CodeRead(code') BY <2>1, TextIsRead
  <2> QED BY <2>2, <2>3, <2>4 DEF SysInv
<1>3. CASE Sys!Execute BY <1>3, ExecuteKeeps
<1> QED BY <1>1, <1>2, <1>3 DEF Sys!Next

(* Memory holds numbers, instructions have numbers as operands, and the CPU  *)
(* is in user mode only when it runs a program (cpu.cpp:26-38, 48-105).      *)
THEOREM SystemInvariant ==
  ASSUME NEW Words, NumbersRead(Words)
  PROVE  AllSpec => []SysInv
<1>1. AllInit => SysInv
  <2> SUFFICES ASSUME Sys!Init PROVE SysInv BY DEF AllInit
  <2> QED BY DEF Sys!Init, SysInv, MemInt, CodeRead
<1>2. SysInv /\ [AllNext]_allvars => SysInv' BY SysSteps, SysNext
<1> QED BY <1>1, <1>2, PTL DEF AllSpec

(* No instruction of a thread, wherever its operands, its stack pointer and  *)
(* its indirect addresses point, changes memory of the kernel, but for the   *)
(* count, the time and the state of that thread's own entry                  *)
(* (memory.cpp:21-27, cpu.cpp:65-68, 400-409).                               *)
THEOREM KernelMemoryIsKept ==
  ASSUME NEW Words, NumbersRead(Words)
  PROVE  AllSpec => KernelMemoryKept
<1> DEFINE entryNow == 500 + 10 * Sys!ReadIn(mem, Sys!CurrentThread)
<1>1. SysInv /\ [AllNext]_allvars =>
        [~kernelMode =>
           LET entry_ == 500 + 10 * Sys!ReadIn(mem, Sys!CurrentThread) IN
           \A a \in (21 .. Sys!UserStart - 1) \ (entry_ + 1 .. entry_ + 3) :
             Sys!ReadIn(mem', a) = Sys!ReadIn(mem, a)]_<<mem, kernelMode, halted, code, cycles>>
  <2> SUFFICES ASSUME SysInv, Sys!Next, ~kernelMode
               PROVE  Spares(entryNow, mem, mem')
    BY SysSteps DEF system_vars, Spares, KernelCells, Sys!UserStart
  <2>1. ~Sys!LoadProgram BY DEF Sys!LoadProgram, SysInv
  <2> QED BY <2>1, ExecuteKeeps DEF Sys!Next
<1> QED BY <1>1, SystemInvariant, PTL DEF AllSpec, KernelMemoryKept, Sys!KernelMemoryKept, Sys!cvars
=============================================================================
