------------------------- MODULE MatchEngineProofs --------------------------
(***************************************************************************)
(* Theorems about MatchEngine for every board: any number of pawns, any    *)
(* side, any die, and two, three or four players; about DebugSkip, the     *)
(* request that plays the turn of a dummy; about what EventJournal,        *)
(* MatchResults and MatchAnimation make of every command; and about the    *)
(* buttons MatchScreen offers for it.                                      *)
(***************************************************************************)
EXTENDS DebugSkip, MatchResults, MatchAnimation, MatchScreen,
        SequenceTheorems, FiniteSetTheorems, WellFoundedInduction, TLAPS

-----------------------------------------------------------------------------
(* Lemmas about the board. *)

(* A player has a colour, and different players have different colours.    *)
LEMMA ColorType ==
  /\ \A p \in Players : Color(p) \in Colors
  /\ \A p, q \in Players : p # q => Color(p) # Color(q)
<1> USE BoardAssumption DEF Players, Color, ColorByPlayerCount, Colors
<1>1. CASE NumPlayers = 2
  BY <1>1
<1>2. CASE NumPlayers = 3
  BY <1>2
<1>3. CASE NumPlayers = 4
  BY <1>3
<1>4. QED
  BY <1>1, <1>2, <1>3

(* Every pawn has an owner, and every player a pawn.                       *)
LEMMA OwnerType ==
  /\ \A pawn \in Pawns : Owner(pawn) \in Players
  /\ \A p \in Players : <<p, 1>> \in Pawns /\ Owner(<<p, 1>>) = p
BY BoardAssumption DEF Pawns, Owner

(* The kinds of a position.                                                *)
LEMMA PositionCases ==
  ASSUME NEW pos \in Positions
  PROVE  \/ pos = OffBoard
         \/ pos = Removed
         \/ pos.zone = "PERIMETER" /\ pos.at \in 0 .. (PerimeterLength - 1)
         \/ pos.zone = "HOME" /\ pos.at \in 0 .. HomeEnd
BY DEF Positions, OffBoard, Removed, Perimeter, Home

(* A pawn that fits its throw advances to a board position.                *)
LEMMA AdvanceType ==
  ASSUME NEW pos \in Positions, NEW d \in 1 .. MaxDie, Fits(pos, d)
  PROVE  /\ AdvancePosition(pos, d) \in Positions
         /\ OnBoard(AdvancePosition(pos, d))
<1> USE BoardAssumption DEF PerimeterLength, HomeEnd
<1>0. \/ pos.zone = "PERIMETER" /\ pos.at \in 0 .. (PerimeterLength - 1)
      \/ pos.zone = "HOME" /\ pos.at \in 0 .. HomeEnd
  BY PositionCases DEF Fits, OnBoard, OffBoard, Removed
<1>1. CASE pos.zone = "HOME"
  <2>1. pos.at + d \in 0 .. HomeEnd
    BY <1>0, <1>1 DEF Fits, StepsLeft
  <2>2. AdvancePosition(pos, d) = Home(pos.at + d)
    BY <1>1 DEF AdvancePosition
  <2>3. QED
    BY <2>1, <2>2 DEF Positions, OnBoard, Home
<1>2. CASE pos.zone = "PERIMETER" /\ pos.at + d <= PerimeterLength - 1
  <2>1. pos.at + d \in 0 .. (PerimeterLength - 1)
    BY <1>0, <1>2
  <2>2. AdvancePosition(pos, d) = Perimeter(pos.at + d)
    BY <1>2 DEF AdvancePosition
  <2>3. QED
    BY <2>1, <2>2 DEF Positions, OnBoard, Perimeter
<1>3. CASE pos.zone = "PERIMETER" /\ ~ (pos.at + d <= PerimeterLength - 1)
  <2>1. pos.at + d - PerimeterLength \in 0 .. HomeEnd
    BY <1>0, <1>3 DEF Fits, StepsLeft
  <2>2. AdvancePosition(pos, d) = Home(pos.at + d - PerimeterLength)
    BY <1>3 DEF AdvancePosition
  <2>3. QED
    BY <2>1, <2>2 DEF Positions, OnBoard, Home
<1>4. QED
  BY <1>0, <1>1, <1>2, <1>3

(* Advancing by a throw is what the engine's path does step by step: the   *)
(* first step is NextPosition, and one more step is NextPosition again.    *)
LEMMA AdvanceIteratesNextPosition ==
  ASSUME NEW pos \in Positions, NEW d \in 1 .. MaxDie, Fits(pos, d + 1)
  PROVE  /\ AdvancePosition(pos, 1) = NextPosition(pos)
         /\ AdvancePosition(pos, d + 1) = NextPosition(AdvancePosition(pos, d))
<1> USE BoardAssumption DEF PerimeterLength, HomeEnd
<1>0. \/ pos.zone = "PERIMETER" /\ pos.at \in 0 .. (PerimeterLength - 1)
      \/ pos.zone = "HOME" /\ pos.at \in 0 .. HomeEnd
  BY PositionCases DEF Fits, OnBoard, OffBoard, Removed
<1>1. CASE pos.zone = "HOME"
  BY <1>0, <1>1 DEF AdvancePosition, NextPosition, Home
<1>2. CASE pos.zone = "PERIMETER"
  BY <1>0, <1>2 DEF AdvancePosition, NextPosition, Home, Perimeter
<1>3. QED
  BY <1>0, <1>1, <1>2

-----------------------------------------------------------------------------
(* Turn rotation. *)

(* While somebody else is ACTIVE, the next active player is ACTIVE and     *)
(* somebody else, and everybody passed over is not ACTIVE.                 *)
LEMMA NextActiveIsActive ==
  ASSUME NEW statuses, NEW player \in Players,
         \E q \in Players \ {player} : statuses[q] = "ACTIVE"
  PROVE  \E step \in 1 .. (NumPlayers - 1) :
           /\ Turn!NextActivePlayer(statuses, player) = (player + step) % NumPlayers
           /\ (player + step) % NumPlayers \in Players \ {player}
           /\ statuses[(player + step) % NumPlayers] = "ACTIVE"
           /\ \A s \in 1 .. (step - 1) : statuses[(player + s) % NumPlayers] # "ACTIVE"
<1> USE BoardAssumption DEF Players, Turn!SeatAfter
<1> DEFINE First(step) ==
      /\ statuses[(player + step) % NumPlayers] = "ACTIVE"
      /\ \A s \in 1 .. (step - 1) : statuses[(player + s) % NumPlayers] # "ACTIVE"
<1>1. PICK k \in 1 .. (NumPlayers - 1) : First(k)
  <2>1. CASE NumPlayers = 2
    BY <2>1
  <2>2. CASE NumPlayers = 3
    BY <2>2
  <2>3. CASE NumPlayers = 4
    BY <2>3
  <2>4. QED
    BY <2>1, <2>2, <2>3
<1>2. \A j \in 1 .. NumPlayers : First(j) => j = k
  BY <1>1
<1>3. (CHOOSE step \in 1 .. NumPlayers : First(step)) = k
  <2>1. k \in 1 .. NumPlayers
    OBVIOUS
  <2> HIDE DEF First
  <2>2. QED
    BY <1>1, <1>2, <2>1
<1>4. Turn!NextActivePlayer(statuses, player) = (player + k) % NumPlayers
  BY <1>3 DEF Turn!NextActivePlayer
<1>5. (player + k) % NumPlayers \in Players \ {player}
  <2>1. CASE NumPlayers = 2
    BY <2>1
  <2>2. CASE NumPlayers = 3
    BY <2>2
  <2>3. CASE NumPlayers = 4
    BY <2>3
  <2>4. QED
    BY <2>1, <2>2, <2>3
<1>6. QED
  BY <1>1, <1>4, <1>5

-----------------------------------------------------------------------------
(* Type correctness.  It needs the turn part of SnapshotShape (the current *)
(* player of an active match is a player, and somebody else is ACTIVE), so *)
(* the two are proved together.                                            *)

TurnInv == TypeOK /\ SnapshotShape

(* The effect of a capture or an inactive corner keeps the pawns placed.   *)
LEMMA MovePlacement ==
  ASSUME TypeOK, NEW pawn \in Pawns, diceValue # NoDice,
         CanMovePawn(position, pawn, diceValue), NEW captured
  PROVE  PlacementAfterMove(pawn, AdvancePosition(position[pawn], diceValue), captured)
           \in [Pawns -> Positions]
<1> DEFINE target == AdvancePosition(position[pawn], diceValue)
<1>1. diceValue \in 1 .. MaxDie
  BY BoardAssumption DEF TypeOK, NoDice
<1>2. position[pawn] \in Positions
  BY DEF TypeOK
<1>3. target \in Positions
  BY <1>1, <1>2, AdvanceType DEF CanMovePawn
<1>4. OffBoard \in Positions
  BY DEF Positions
<1> HIDE DEF target
<1>5. PlacementAfterMove(pawn, target, captured) \in [Pawns -> Positions]
  BY <1>3, <1>4 DEF TypeOK, PlacementAfterMove
<1>6. QED
  BY <1>5 DEF target

(* What ChangeTurn and a surrender in turn do to the current player.       *)
LEMMA NextCurrent ==
  ASSUME NEW statuses, NEW player \in Players,
         \E q \in Players \ {player} : statuses[q] = "ACTIVE"
  PROVE  /\ Turn!NextActivePlayer(statuses, player) \in Players \ {player}
         /\ statuses[Turn!NextActivePlayer(statuses, player)] = "ACTIVE"
BY NextActiveIsActive

(* A new match is well-formed.                                             *)
LEMMA TurnInvInit == Init => TurnInv
<1> SUFFICES ASSUME Init PROVE TurnInv
  OBVIOUS
<1> USE BoardAssumption DEF Init, Turn!TurnInit, Turn!Seats, Players, NoDice, Nobody, Turn!Nobody
<1>1. TypeOK
  BY DEF TypeOK, Positions, OffBoard, EventKinds
<1>2. \E p \in Players \ {currentPlayer} : playerStatus[p] = "ACTIVE"
  <2>1. 0 \in Players /\ 1 \in Players
    OBVIOUS
  <2>2. QED
    BY <2>1
<1>3. SnapshotShape
  BY <1>2 DEF SnapshotShape
<1>4. QED
  BY <1>1, <1>3 DEF TurnInv

(* The turn passes to a player who is still in the match.                  *)
LEMMA ChangeTurnKeepsTurnInv ==
  ASSUME TurnInv, status = "ACTIVE", ChangeTurn, position' \in [Pawns -> Positions],
         events' \in SUBSET EventKinds, stateVersion' = stateVersion + 1
  PROVE  TurnInv'
<1>1. /\ currentPlayer' \in Players
      /\ playerStatus[currentPlayer'] = "ACTIVE"
      /\ currentPlayer' # currentPlayer
  BY NextCurrent DEF ChangeTurn, HandOver, TurnInv, SnapshotShape
<1>2. TypeOK'
  BY <1>1, BoardAssumption DEF TurnInv, TypeOK, ChangeTurn, HandOver, Stay, NoDice
<1>3. SnapshotShape'
  BY <1>1 DEF TurnInv, SnapshotShape, ChangeTurn, HandOver, Stay
<1>4. QED
  BY <1>2, <1>3 DEF TurnInv

(* The player who rolls again is the one who was still in it.              *)
LEMMA ExtraRollKeepsTurnInv ==
  ASSUME TurnInv, status = "ACTIVE", GrantExtraRoll, position' \in [Pawns -> Positions],
         events' \in SUBSET EventKinds, stateVersion' = stateVersion + 1
  PROVE  TurnInv'
<1>1. TypeOK'
  BY BoardAssumption DEF TurnInv, TypeOK, GrantExtraRoll, Stay, NoDice
<1>2. SnapshotShape'
  BY DEF TurnInv, SnapshotShape, GrantExtraRoll, Stay
<1>3. QED
  BY <1>1, <1>2 DEF TurnInv

(* A match that ends has a winner and nobody to move.                      *)
LEMMA TerminalKeepsTurnInv ==
  ASSUME TurnInv, status = "ACTIVE",
         NEW statuses \in [Players -> {"ACTIVE", "SURRENDERED", "FINISHED"}],
         NEW player \in Players, statuses[player] # "SURRENDERED",
         NEW reason \in {"HOME_DIAGONAL_COMPLETED", "LAST_ACTIVE_PLAYER"},
         ProjectTerminalState(statuses, player, reason),
         position' \in [Pawns -> Positions],
         events' \in SUBSET EventKinds, turnNumber' \in Nat, stateVersion' = stateVersion + 1
  PROVE  TurnInv'
<1> USE DEF ProjectTerminalState, Turn!Finish, Turn!Seats, Players, Nobody, Turn!Nobody
<1>1. TypeOK'
  BY BoardAssumption DEF TurnInv, TypeOK, NoDice
<1>2. SnapshotShape'
  BY DEF TurnInv, SnapshotShape
<1>3. QED
  BY <1>1, <1>2 DEF TurnInv

(* A throw keeps the snapshot well-formed, whatever it hands over to.      *)
LEMMA RollKeepsTurnInv ==
  ASSUME TurnInv, NEW dice \in 1 .. MaxDie, RollDice(dice)
  PROVE  TurnInv'
<1>1. /\ status = "ACTIVE" /\ stateVersion' = stateVersion + 1
      /\ position' \in [Pawns -> Positions]
      /\ events' \in SUBSET EventKinds
  BY DEF RollDice, TurnInv, TypeOK, Emit, EventKinds
<1>2. CASE GrantExtraRoll
  BY <1>1, <1>2, ExtraRollKeepsTurnInv
<1>3. CASE ChangeTurn
  BY <1>1, <1>3, ChangeTurnKeepsTurnInv
<1>4. CASE /\ turnPhase' = "WAITING_FOR_ACTION" /\ diceValue' = dice
           /\ UNCHANGED <<currentPlayer, turnNumber>> /\ Stay
  <2>1. TypeOK'
    BY <1>1, <1>4, BoardAssumption DEF TurnInv, TypeOK, Stay
  <2>2. SnapshotShape'
    BY <1>1, <1>4, BoardAssumption DEF TurnInv, SnapshotShape, Stay, NoDice
  <2>3. QED
    BY <2>1, <2>2 DEF TurnInv
<1>5. QED
  BY <1>2, <1>3, <1>4 DEF RollDice

(* So does a pawn that enters,                                             *)
LEMMA EnterKeepsTurnInv ==
  ASSUME TurnInv, NEW pawn \in Pawns, EnterPawn(pawn)
  PROVE  TurnInv'
<1>1. /\ status = "ACTIVE" /\ stateVersion' = stateVersion + 1
      /\ events' \in SUBSET EventKinds
      /\ turnNumber' \in Nat
  BY DEF EnterPawn, TurnInv, TypeOK, Emit, EventKinds, GrantExtraRoll
<1>2. position' \in [Pawns -> Positions]
  <2>1. Perimeter(0) \in Positions
    BY BoardAssumption DEF Positions, PerimeterLength
  <2>2. QED
    BY <2>1 DEF EnterPawn, TurnInv, TypeOK
<1>3. CASE GrantExtraRoll
  BY <1>1, <1>2, <1>3, ExtraRollKeepsTurnInv
<1>4. CASE ProjectTerminalState(playerStatus, currentPlayer, WinReason(position', currentPlayer))
  <2>1. /\ currentPlayer \in Players /\ playerStatus[currentPlayer] # "SURRENDERED"
        /\ playerStatus \in [Players -> {"ACTIVE", "SURRENDERED", "FINISHED"}]
    BY <1>1 DEF TurnInv, SnapshotShape, TypeOK
  <2>2. WinReason(position', currentPlayer) \in {"HOME_DIAGONAL_COMPLETED", "LAST_ACTIVE_PLAYER"}
    BY DEF WinReason
  <2>3. QED
    BY <1>1, <1>2, <1>4, <2>1, <2>2, TerminalKeepsTurnInv
<1>5. QED
  BY <1>3, <1>4 DEF EnterPawn

(* a pawn that moves,                                                      *)
LEMMA MoveKeepsTurnInv ==
  ASSUME TurnInv, NEW pawn \in Pawns, MovePawn(pawn)
  PROVE  TurnInv'
<1> DEFINE target   == AdvancePosition(position[pawn], diceValue)
           captured == Capturable(pawn, PathOf(position, pawn, diceValue))
           moved    == MoveEvents(pawn, target, captured)
<1>1. /\ status = "ACTIVE" /\ stateVersion' = stateVersion + 1
      /\ diceValue # NoDice
      /\ CanMovePawn(position, pawn, diceValue)
      /\ position' = PlacementAfterMove(pawn, target, captured)
  BY DEF MovePawn, Movable
<1>2. position' \in [Pawns -> Positions]
  BY <1>1, MovePlacement DEF TurnInv
<1>3. moved \in SUBSET EventKinds
  BY DEF MoveEvents, EventKinds
<1>4. events' \in SUBSET EventKinds
  <2> HIDE DEF moved
  <2>1. \E kind \in EventKinds : events' = moved \union {kind}
    BY DEF MovePawn, Emit, EventKinds, moved
  <2>2. QED
    BY <1>3, <2>1
<1> HIDE DEF target, captured, moved
<1>5. CASE GrantExtraRoll
  BY <1>1, <1>2, <1>4, <1>5, ExtraRollKeepsTurnInv
<1>6. CASE ChangeTurn
  BY <1>1, <1>2, <1>4, <1>6, ChangeTurnKeepsTurnInv
<1>7. CASE /\ ProjectTerminalState(playerStatus, currentPlayer, WinReason(position', currentPlayer))
           /\ turnNumber' \in Nat
  <2>1. /\ currentPlayer \in Players /\ playerStatus[currentPlayer] # "SURRENDERED"
        /\ playerStatus \in [Players -> {"ACTIVE", "SURRENDERED", "FINISHED"}]
    BY <1>1 DEF TurnInv, SnapshotShape, TypeOK
  <2>2. WinReason(position', currentPlayer) \in {"HOME_DIAGONAL_COMPLETED", "LAST_ACTIVE_PLAYER"}
    BY DEF WinReason
  <2>3. QED
    BY <1>1, <1>2, <1>4, <1>7, <2>1, <2>2, TerminalKeepsTurnInv
<1>8. \/ GrantExtraRoll
      \/ ChangeTurn
      \/ /\ ProjectTerminalState(playerStatus, currentPlayer, WinReason(position', currentPlayer))
         /\ turnNumber' \in Nat
  BY DEF MovePawn, TurnInv, TypeOK
<1>9. QED
  BY <1>5, <1>6, <1>7, <1>8

(* and a player who leaves, in turn or out of turn.                        *)
LEMMA SurrenderKeepsTurnInv ==
  ASSUME TurnInv, NEW player \in Players, Surrender(player)
  PROVE  TurnInv'
<1> DEFINE statuses == [playerStatus EXCEPT ![player] = "SURRENDERED"]
           left     == {p \in Players : statuses[p] = "ACTIVE"}
<1>1. /\ status = "ACTIVE" /\ stateVersion' = stateVersion + 1
      /\ playerStatus[player] = "ACTIVE"
      /\ events' \in SUBSET EventKinds
      /\ statuses \in [Players -> {"ACTIVE", "SURRENDERED", "FINISHED"}]
  BY DEF Surrender, HandOver, Emit, EventKinds, TurnInv, TypeOK
<1>2. position' \in [Pawns -> Positions]
  BY DEF Surrender, RemovePlayerPawns, TurnInv, TypeOK, Positions
<1>3. CASE \E last \in left : /\ ProjectTerminalState(statuses, last, "LAST_ACTIVE_PLAYER")
                              /\ UNCHANGED turnNumber
  <2>1. PICK last \in left : /\ ProjectTerminalState(statuses, last, "LAST_ACTIVE_PLAYER")
                             /\ UNCHANGED turnNumber
    BY <1>3
  <2>2. last \in Players /\ statuses[last] = "ACTIVE" /\ turnNumber' \in Nat
    BY <2>1 DEF TurnInv, TypeOK
  <2> HIDE DEF statuses
  <2>3. QED
    BY <1>1, <1>2, <2>1, <2>2, TerminalKeepsTurnInv
<1>4. CASE /\ \A p \in left : left # {p}
           /\ playerStatus' = statuses
           /\ UNCHANGED <<status, winner, winReason>>
           /\ \/ /\ player = currentPlayer
                 /\ currentPlayer' = Turn!NextActivePlayer(statuses, player)
                 /\ turnPhase' = "WAITING_FOR_ROLL" /\ diceValue' = NoDice
                 /\ turnNumber' = turnNumber + 1
              \/ /\ player # currentPlayer
                 /\ UNCHANGED <<currentPlayer, turnPhase, diceValue, turnNumber>>
  <2>1. statuses[player] = "SURRENDERED"
    BY DEF TurnInv, TypeOK
  <2>2. PICK other \in Players \ {player} : statuses[other] = "ACTIVE"
    BY <1>1 DEF TurnInv, SnapshotShape, TypeOK
  <2>3. \E third \in Players \ {player, other} : statuses[third] = "ACTIVE"
    BY <1>4, <2>1, <2>2
  <2>4. CASE player = currentPlayer
    <3>1. /\ currentPlayer' \in Players \ {player}
          /\ statuses[currentPlayer'] = "ACTIVE"
      BY <1>4, <2>2, <2>4, NextCurrent
    <3>2. TypeOK'
      BY <1>1, <1>2, <1>4, <2>4, <3>1, BoardAssumption DEF TurnInv, TypeOK, NoDice
    <3>3. \E p \in Players \ {currentPlayer'} : playerStatus'[p] = "ACTIVE"
      BY <1>4, <2>2, <2>3, <3>1
    <3>4. SnapshotShape'
      BY <1>1, <1>4, <2>4, <3>1, <3>3 DEF TurnInv, SnapshotShape, TypeOK
    <3>5. QED
      BY <3>2, <3>4 DEF TurnInv
  <2>5. CASE player # currentPlayer
    <3>1. TypeOK'
      BY <1>1, <1>2, <1>4, <2>5 DEF TurnInv, TypeOK
    <3>2. \E p \in Players \ {currentPlayer'} : playerStatus'[p] = "ACTIVE"
      BY <1>4, <2>2, <2>3, <2>5
    <3>3. SnapshotShape'
      BY <1>1, <1>4, <2>5, <3>2 DEF TurnInv, SnapshotShape, TypeOK
    <3>4. QED
      BY <3>1, <3>3 DEF TurnInv
  <2>6. QED
    BY <2>4, <2>5
<1>5. QED
  BY <1>3, <1>4 DEF Surrender, HandOver

(* Nothing happens to a match that nobody acts in.                         *)
LEMMA StutterKeepsTurnInv ==
  ASSUME TurnInv, UNCHANGED vars
  PROVE  TurnInv'
BY DEF TurnInv, TypeOK, SnapshotShape, vars, boardVars

(* Every accepted command keeps it.                                        *)
LEMMA NextKeepsTurnInv == TurnInv /\ [Next]_vars => TurnInv'
BY RollKeepsTurnInv, EnterKeepsTurnInv, MoveKeepsTurnInv, SurrenderKeepsTurnInv,
   StutterKeepsTurnInv DEF Next

(* So it holds in every reachable state.                                   *)
LEMMA TurnInvHolds == Spec => []TurnInv
BY TurnInvInit, NextKeepsTurnInv, PTL DEF Spec

(* Every variable keeps its type, whatever the board.                      *)
THEOREM TypeCorrect == Spec => []TypeOK
<1>1. TurnInv => TypeOK
  BY DEF TurnInv
<1>2. QED
  BY <1>1, TurnInvHolds, PTL

(* Every snapshot has the documented shape: in particular the current      *)
(* player of an active match is always a player still in it, after any     *)
(* sequence of surrenders in and out of turn.                              *)
THEOREM SnapshotShapeHolds == Spec => []SnapshotShape
<1>1. TurnInv => SnapshotShape
  BY DEF TurnInv
<1>2. QED
  BY <1>1, TurnInvHolds, PTL

-----------------------------------------------------------------------------
(* Unique occupancy.  The inductive step for a move: an opponent standing  *)
(* on the destination is on the perimeter, it is the only pawn there, so   *)
(* the one victim the engine picks is that pawn.                           *)

(* A pawn enters on a free corner.                                         *)
LEMMA EnterKeepsOccupancy ==
  ASSUME TypeOK, UniqueOccupancy, NEW pawn \in Pawns, EnterPawn(pawn)
  PROVE  UniqueOccupancy'
<1>1. /\ position' = [position EXCEPT ![pawn] = Perimeter(0)]
      /\ Occupants(position, HomeCell(Color(Owner(pawn)), 0)) = {}
  BY DEF EnterPawn, Enterable, CanEnterPawn
<1>2. Cell(position', pawn) = HomeCell(Color(Owner(pawn)), 0)
  BY <1>1 DEF TypeOK, Cell, CoordinateOf, Perimeter
<1>3. ASSUME NEW other \in Pawns, other # pawn
      PROVE  position'[other] = position[other] /\ Cell(position', other) = Cell(position, other)
  BY <1>1, <1>3 DEF TypeOK, Cell
<1>4. \A other \in Pawns : OnBoard(position[other]) =>
        Cell(position, other) # HomeCell(Color(Owner(pawn)), 0)
  BY <1>1 DEF Occupants
<1>5. QED
  BY <1>2, <1>3, <1>4 DEF UniqueOccupancy

(* A pawn lands on a free cell, or its only occupant leaves.               *)
LEMMA MoveKeepsOccupancy ==
  ASSUME TypeOK, UniqueOccupancy, NEW pawn \in Pawns, MovePawn(pawn)
  PROVE  UniqueOccupancy'
<1> DEFINE target   == AdvancePosition(position[pawn], diceValue)
           cell     == PathOf(position, pawn, diceValue)
           captured == Capturable(pawn, cell)
           victim   == CHOOSE other \in captured : TRUE
           landed   == IF InactiveCorner(target, Color(Owner(pawn))) THEN OffBoard ELSE target
<1>1. /\ position' = PlacementAfterMove(pawn, target, captured)
      /\ CanMovePawn(position, pawn, diceValue)
  BY DEF MovePawn, Movable
<1>2. cell = CoordinateOf(target, Color(Owner(pawn)))
  BY DEF PathOf, PathCell
<1>3. position' = [other \in Pawns |->
                     IF other = pawn THEN landed
                     ELSE IF captured # {} /\ other = victim THEN OffBoard
                     ELSE position[other]]
  BY <1>1 DEF PlacementAfterMove
<1>4. \A other \in Occupants(position, cell) : other \in captured
  <2> SUFFICES ASSUME NEW other \in Occupants(position, cell)
               PROVE  other \in captured
    OBVIOUS
  <2>1. Owner(other) # Owner(pawn) /\ position[other].zone # "HOME"
    BY <1>1 DEF CanMovePawn
  <2>2. position[other].zone = "PERIMETER"
    BY <2>1 DEF Occupants, OnBoard
  <2>3. QED
    BY <2>1, <2>2 DEF Capturable
<1>5. \A other \in captured : other = victim
  <2>1. \A a, b \in captured : a = b
    BY DEF Capturable, Occupants, UniqueOccupancy
  <2> HIDE DEF captured
  <2>2. captured # {} => victim \in captured
    OBVIOUS
  <2>3. QED
    BY <2>1, <2>2
<1> HIDE DEF captured, victim, target
<1>6. ASSUME NEW other \in Pawns, other # pawn, OnBoard(position'[other])
      PROVE  /\ position'[other] = position[other]
             /\ Cell(position', other) = Cell(position, other)
             /\ OnBoard(position'[pawn]) => Cell(position', other) # Cell(position', pawn)
  <2>1. position'[other] = position[other] /\ other \notin captured
    BY <1>3, <1>5, <1>6 DEF OnBoard, OffBoard
  <2>2. other \notin Occupants(position, cell)
    BY <1>4, <2>1
  <2>3. Cell(position', other) = Cell(position, other)
    BY <2>1 DEF Cell
  <2>4. Cell(position, other) # cell
    BY <1>6, <2>1, <2>2 DEF Occupants
  <2>5. OnBoard(position'[pawn]) => Cell(position', pawn) = cell
    BY <1>2, <1>3 DEF Cell, OnBoard, OffBoard
  <2>6. QED
    BY <2>1, <2>3, <2>4, <2>5
<1>7. QED
  BY <1>6 DEF UniqueOccupancy

(* A surrender only takes pawns away.                                      *)
LEMMA SurrenderKeepsOccupancy ==
  ASSUME TypeOK, UniqueOccupancy, NEW player \in Players, Surrender(player)
  PROVE  UniqueOccupancy'
<1>1. \A pawn \in Pawns : OnBoard(position'[pawn]) => position'[pawn] = position[pawn]
  BY DEF Surrender, RemovePlayerPawns, OnBoard, Removed
<1>2. QED
  BY <1>1 DEF UniqueOccupancy, Cell

(* No two pawns ever share a physical cell.                                *)
THEOREM UniqueOccupancyHolds == Spec => []UniqueOccupancy
<1>1. Init => UniqueOccupancy
  BY DEF Init, UniqueOccupancy, OnBoard, OffBoard
<1>2. TypeOK /\ UniqueOccupancy /\ [Next]_vars => UniqueOccupancy'
  <2> SUFFICES ASSUME TypeOK, UniqueOccupancy, [Next]_vars
               PROVE  UniqueOccupancy'
    OBVIOUS
  <2>1. ASSUME NEW dice \in 1 .. MaxDie, RollDice(dice)
        PROVE  UniqueOccupancy'
    BY <2>1 DEF RollDice, UniqueOccupancy, Cell
  <2>2. CASE UNCHANGED vars
    BY <2>2 DEF vars, boardVars, UniqueOccupancy, Cell
  <2>3. QED
    BY <2>1, <2>2, EnterKeepsOccupancy, MoveKeepsOccupancy, SurrenderKeepsOccupancy DEF Next
<1>3. QED
  BY <1>1, <1>2, TypeCorrect, PTL DEF Spec

-----------------------------------------------------------------------------
(* The match never waits for an impossible action.                         *)

(* Taking pawns of other players off the board takes no action away.       *)
LEMMA FewerPawnsKeepActions ==
  ASSUME NEW before, NEW after, NEW player, NEW dice,
         \A pawn \in Pawns : OnBoard(after[pawn]) => after[pawn] = before[pawn],
         \A pawn \in Pawns : Owner(pawn) = player => after[pawn] = before[pawn],
         HasLegalAction(before, player, dice)
  PROVE  HasLegalAction(after, player, dice)
<1>1. \A cell : Occupants(after, cell) \subseteq Occupants(before, cell)
  BY DEF Occupants, Cell
<1>2. ASSUME NEW pawn \in Enterable(before, player, dice)
      PROVE  pawn \in Enterable(after, player, dice)
  BY <1>1 DEF Enterable, CanEnterPawn
<1>3. ASSUME NEW pawn \in Movable(before, player, dice)
      PROVE  pawn \in Movable(after, player, dice)
  <2>1. /\ pawn \in Pawns /\ Owner(pawn) = player /\ after[pawn] = before[pawn]
        /\ CanMovePawn(before, pawn, dice)
    BY DEF Movable
  <2>2. \A k : PathOf(after, pawn, k) = PathOf(before, pawn, k)
    BY <2>1 DEF PathOf
  <2>3. \A cell : \A other \in Occupants(after, cell) : after[other] = before[other]
    BY DEF Occupants
  <2>4. \A k \in 1 .. (dice - 1) : Occupants(after, PathOf(after, pawn, k)) = {}
    BY <1>1, <2>1, <2>2 DEF CanMovePawn
  <2>5. \A other \in Occupants(after, PathOf(after, pawn, dice)) :
          Owner(other) # Owner(pawn) /\ after[other].zone # "HOME"
    BY <1>1, <2>1, <2>2, <2>3 DEF CanMovePawn
  <2>6. CanMovePawn(after, pawn, dice)
    BY <2>1, <2>4, <2>5 DEF CanMovePawn
  <2>7. QED
    BY <2>1, <2>6 DEF Movable
<1>4. QED
  BY <1>2, <1>3 DEF HasLegalAction

(* Whoever is asked to act can act, whoever else leaves meanwhile.         *)
THEOREM ActionAvailableHolds == Spec => []ActionAvailable
<1>1. Init => ActionAvailable
  BY DEF Init, Turn!TurnInit, ActionAvailable
<1>2. TurnInv /\ ActionAvailable /\ [Next]_vars => ActionAvailable'
  <2> SUFFICES ASSUME TurnInv, ActionAvailable, [Next]_vars
               PROVE  ActionAvailable'
    OBVIOUS
  <2>1. ASSUME NEW dice \in 1 .. MaxDie, RollDice(dice)
        PROVE  ActionAvailable'
    BY <2>1 DEF RollDice, ActionAvailable, GrantExtraRoll, ChangeTurn, HandOver
  <2>2. ASSUME NEW pawn \in Pawns, EnterPawn(pawn) \/ MovePawn(pawn)
        PROVE  ActionAvailable'
    <3>1. turnPhase' # "WAITING_FOR_ACTION"
      BY <2>2 DEF EnterPawn, MovePawn, GrantExtraRoll, ChangeTurn, HandOver, ProjectTerminalState,
                  Turn!Finish
    <3>2. QED
      BY <3>1 DEF ActionAvailable
  <2>3. ASSUME NEW player \in Players, Surrender(player)
        PROVE  ActionAvailable'
    <3>1. CASE turnPhase' = "WAITING_FOR_ACTION"
      <4>1. /\ player # currentPlayer
            /\ UNCHANGED <<currentPlayer, turnPhase, diceValue>>
            /\ position' = RemovePlayerPawns(player)
        BY <2>3, <3>1 DEF Surrender, HandOver, ProjectTerminalState, Turn!Finish
      <4>2. \A pawn \in Pawns : OnBoard(position'[pawn]) => position'[pawn] = position[pawn]
        BY <4>1 DEF RemovePlayerPawns, OnBoard, Removed
      <4>3. \A pawn \in Pawns : Owner(pawn) = currentPlayer => position'[pawn] = position[pawn]
        BY <4>1 DEF RemovePlayerPawns
      <4>4. HasLegalAction(position, currentPlayer, diceValue)
        BY <3>1, <4>1 DEF ActionAvailable
      <4>5. HasLegalAction(position', currentPlayer, diceValue)
        BY <4>2, <4>3, <4>4, FewerPawnsKeepActions
      <4>6. QED
        BY <4>1, <4>5 DEF ActionAvailable
    <3>2. QED
      BY <3>1 DEF ActionAvailable
  <2>4. CASE UNCHANGED vars
    BY <2>4 DEF vars, boardVars, ActionAvailable
  <2>5. QED
    BY <2>1, <2>2, <2>3, <2>4 DEF Next
<1>3. QED
  BY <1>1, <1>2, TurnInvHolds, PTL DEF Spec

-----------------------------------------------------------------------------
(* Surrendered players and their pawns. *)

(* What an action of the current player does to the others' pawns: nothing,*)
(* or it sends one that stood on the perimeter off the board; and what it  *)
(* does to its own pawn.                                                   *)
LEMMA EnterPlacement ==
  ASSUME TypeOK, NEW pawn \in Pawns, EnterPawn(pawn)
  PROVE  /\ Owner(pawn) = currentPlayer /\ position[pawn] = OffBoard
         /\ position'[pawn] = Perimeter(0)
         /\ \A other \in Pawns : other # pawn => position'[other] = position[other]
BY DEF EnterPawn, Enterable, CanEnterPawn, TypeOK

(* A move: the mover advances or leaves an inactive corner, and whoever    *)
(* else changes is an opponent on the destination.                         *)
LEMMA MoveEffect ==
  ASSUME TypeOK, NEW pawn \in Pawns, MovePawn(pawn)
  PROVE  /\ Owner(pawn) = currentPlayer
         /\ diceValue \in 1 .. MaxDie /\ Fits(position[pawn], diceValue)
         /\ \/ /\ position'[pawn] = AdvancePosition(position[pawn], diceValue)
               /\ ~ InactiveCorner(position'[pawn], Color(Owner(pawn)))
            \/ /\ position'[pawn] = OffBoard
               /\ InactiveCorner(AdvancePosition(position[pawn], diceValue), Color(Owner(pawn)))
         /\ \A other \in Pawns : other # pawn =>
              \/ position'[other] = position[other]
              \/ /\ position'[other] = OffBoard /\ Owner(other) # Owner(pawn)
                 /\ position[other].zone = "PERIMETER"
                 /\ Cell(position, other) = PathOf(position, pawn, diceValue)
<1> DEFINE target   == AdvancePosition(position[pawn], diceValue)
           captured == Capturable(pawn, PathOf(position, pawn, diceValue))
           victim   == CHOOSE other \in captured : TRUE
<1>1. /\ position' = PlacementAfterMove(pawn, target, captured)
      /\ Owner(pawn) = currentPlayer /\ CanMovePawn(position, pawn, diceValue)
      /\ diceValue \in 1 .. MaxDie
  BY BoardAssumption DEF MovePawn, Movable, TypeOK, NoDice
<1>2. captured # {} => victim \in captured
  OBVIOUS
<1>3. \A other \in captured : /\ Owner(other) # Owner(pawn)
                              /\ position[other].zone = "PERIMETER"
                              /\ Cell(position, other) = PathOf(position, pawn, diceValue)
  BY DEF Capturable, Occupants
<1>4. Fits(position[pawn], diceValue)
  BY <1>1 DEF CanMovePawn
<1> HIDE DEF captured, victim, target
<1>5. position' = [other \in Pawns |->
                     IF other = pawn
                     THEN IF InactiveCorner(target, Color(Owner(pawn))) THEN OffBoard ELSE target
                     ELSE IF captured # {} /\ other = victim THEN OffBoard
                     ELSE position[other]]
  BY <1>1 DEF PlacementAfterMove, victim
<1>6. \/ /\ position'[pawn] = target
         /\ ~ InactiveCorner(position'[pawn], Color(Owner(pawn)))
      \/ /\ position'[pawn] = OffBoard
         /\ InactiveCorner(target, Color(Owner(pawn)))
  BY <1>5
<1>7. \A other \in Pawns : other # pawn =>
              \/ position'[other] = position[other]
              \/ /\ position'[other] = OffBoard /\ Owner(other) # Owner(pawn)
                 /\ position[other].zone = "PERIMETER"
                 /\ Cell(position, other) = PathOf(position, pawn, diceValue)
  BY <1>2, <1>3, <1>5
<1>8. QED
  BY <1>1, <1>4, <1>6, <1>7 DEF target

(* Only a surrender makes a player SURRENDERED.                            *)
LEMMA SurrenderedOnlyBySurrender ==
  ASSUME TypeOK, NEW pawn \in Pawns, EnterPawn(pawn) \/ MovePawn(pawn)
  PROVE  \A p \in Players : playerStatus'[p] = "SURRENDERED" <=> playerStatus[p] = "SURRENDERED"
BY DEF EnterPawn, MovePawn, GrantExtraRoll, ChangeTurn, HandOver, Stay, ProjectTerminalState,
       Turn!Finish, Turn!Seats, Players, TypeOK

(* The pawns of a player leave the match exactly when the player does.     *)
THEOREM RemovedWithOwnerHolds == Spec => []RemovedWithOwner
<1>1. Init => RemovedWithOwner
  BY OwnerType DEF Init, Turn!TurnInit, Turn!Seats, Players, RemovedWithOwner, OffBoard
<1>2. TurnInv /\ RemovedWithOwner /\ [Next]_vars => RemovedWithOwner'
  <2> SUFFICES ASSUME TurnInv, RemovedWithOwner, [Next]_vars
               PROVE  RemovedWithOwner'
    OBVIOUS
  <2>0. TypeOK
    BY DEF TurnInv
  <2>1. ASSUME NEW dice \in 1 .. MaxDie, RollDice(dice)
        PROVE  RemovedWithOwner'
    BY <2>1 DEF RollDice, RemovedWithOwner, GrantExtraRoll, ChangeTurn, Stay
  <2>2. ASSUME NEW pawn \in Pawns, EnterPawn(pawn)
        PROVE  RemovedWithOwner'
    <3>1. \A p \in Players : playerStatus'[p] = "SURRENDERED" <=> playerStatus[p] = "SURRENDERED"
      BY <2>0, <2>2, SurrenderedOnlyBySurrender
    <3>2. \A other \in Pawns :
            position'[other].zone = "REMOVED" <=> position[other].zone = "REMOVED"
      BY <2>0, <2>2, EnterPlacement DEF OffBoard, Perimeter
    <3>3. QED
      BY <3>1, <3>2, OwnerType DEF RemovedWithOwner
  <2>3. ASSUME NEW pawn \in Pawns, MovePawn(pawn)
        PROVE  RemovedWithOwner'
    <3>1. \A p \in Players : playerStatus'[p] = "SURRENDERED" <=> playerStatus[p] = "SURRENDERED"
      BY <2>0, <2>3, SurrenderedOnlyBySurrender
    <3>2. OnBoard(position[pawn])
      BY <2>0, <2>3, MoveEffect DEF Fits
    <3>3. position'[pawn].zone # "REMOVED"
      BY <2>0, <2>3, MoveEffect, AdvanceType DEF OffBoard, OnBoard, TypeOK
    <3>4. \A other \in Pawns :
            position'[other].zone = "REMOVED" <=> position[other].zone = "REMOVED"
      BY <2>0, <2>3, <3>2, <3>3, MoveEffect DEF OffBoard, OnBoard
    <3>5. QED
      BY <3>1, <3>4, OwnerType DEF RemovedWithOwner
  <2>4. ASSUME NEW player \in Players, Surrender(player)
        PROVE  RemovedWithOwner'
    <3>1. position' = RemovePlayerPawns(player)
      BY <2>4 DEF Surrender
    <3>2. \A p \in Players : playerStatus'[p] = "SURRENDERED" <=>
                               playerStatus[p] = "SURRENDERED" \/ p = player
      BY <2>0, <2>4 DEF Surrender, ProjectTerminalState, Turn!Finish, Turn!Seats, Players, TypeOK
    <3>3. \A pawn \in Pawns : position'[pawn].zone = "REMOVED" <=>
                                position[pawn].zone = "REMOVED" \/ Owner(pawn) = player
      BY <3>1 DEF RemovePlayerPawns, Removed
    <3>4. QED
      BY <3>2, <3>3, OwnerType DEF RemovedWithOwner
  <2>5. CASE UNCHANGED vars
    BY <2>5 DEF vars, boardVars, RemovedWithOwner
  <2>6. QED
    BY <2>1, <2>2, <2>3, <2>4, <2>5 DEF Next
<1>3. QED
  BY <1>1, <1>2, TurnInvHolds, PTL DEF Spec

-----------------------------------------------------------------------------
(* Inactive corners. *)

(* A start corner belongs to somebody who plays.                           *)
LEMMA OwnCornerIsActive ==
  ASSUME NEW pawn \in Pawns
  PROVE  ~ InactiveCorner(Perimeter(0), Color(Owner(pawn)))
<1> DEFINE color == Color(Owner(pawn))
<1>1. Owner(pawn) \in Players /\ color \in Colors
  BY ColorType, OwnerType
<1>2. PerimeterOffset[color] \in 0 .. (PerimeterLength - 1)
  BY <1>1, BoardAssumption DEF Colors, PerimeterOffset, PerimeterLength
<1>3. \A a \in Nat, b \in Nat : a < b => a % b = a
  BY SMT
<1>4. (PerimeterOffset[color] + 0) % PerimeterLength = PerimeterOffset[color]
  <2> DEFINE a == PerimeterOffset[color]
             b == PerimeterLength
  <2>1. a \in Nat /\ b \in Nat /\ a < b
    BY <1>2, BoardAssumption DEF PerimeterLength
  <2> HIDE DEF a, b
  <2>2. (a + 0) % b = a
    BY <1>3, <2>1
  <2>3. QED
    BY <2>2 DEF a, b
<1>5. PerimeterCell(color, 0) = HomeCell(color, 0)
  BY <1>4 DEF PerimeterCell, HomeCell
<1>6. QED
  BY <1>1, <1>5 DEF InactiveCorner, Perimeter

(* No pawn ever rests on the corner of a colour nobody plays.              *)
THEOREM NoPawnOnInactiveCornerHolds == Spec => []NoPawnOnInactiveCorner
<1>1. Init => NoPawnOnInactiveCorner
  BY DEF Init, NoPawnOnInactiveCorner, InactiveCorner, OffBoard
<1>2. TypeOK /\ NoPawnOnInactiveCorner /\ [Next]_vars => NoPawnOnInactiveCorner'
  <2> SUFFICES ASSUME TypeOK, NoPawnOnInactiveCorner, [Next]_vars
               PROVE  NoPawnOnInactiveCorner'
    OBVIOUS
  <2>1. \A color : ~ InactiveCorner(OffBoard, color) /\ ~ InactiveCorner(Removed, color)
    BY DEF InactiveCorner, OffBoard, Removed
  <2>2. ASSUME NEW dice \in 1 .. MaxDie, RollDice(dice)
        PROVE  NoPawnOnInactiveCorner'
    BY <2>2 DEF RollDice, NoPawnOnInactiveCorner
  <2>3. ASSUME NEW pawn \in Pawns, EnterPawn(pawn)
        PROVE  NoPawnOnInactiveCorner'
    BY <2>3, EnterPlacement, OwnCornerIsActive DEF NoPawnOnInactiveCorner
  <2>4. ASSUME NEW pawn \in Pawns, MovePawn(pawn)
        PROVE  NoPawnOnInactiveCorner'
    <3>1. ~ InactiveCorner(position'[pawn], Color(Owner(pawn)))
      BY <2>1, <2>4, MoveEffect
    <3>2. \A other \in Pawns : other # pawn =>
            position'[other] = position[other] \/ position'[other] = OffBoard
      BY <2>4, MoveEffect
    <3>3. QED
      BY <2>1, <3>1, <3>2 DEF NoPawnOnInactiveCorner
  <2>5. ASSUME NEW player \in Players, Surrender(player)
        PROVE  NoPawnOnInactiveCorner'
    BY <2>1, <2>5 DEF Surrender, RemovePlayerPawns, NoPawnOnInactiveCorner
  <2>6. CASE UNCHANGED vars
    BY <2>6 DEF vars, boardVars, NoPawnOnInactiveCorner
  <2>7. QED
    BY <2>2, <2>3, <2>4, <2>5, <2>6 DEF Next
<1>3. QED
  BY <1>1, <1>2, TypeCorrect, PTL DEF Spec

-----------------------------------------------------------------------------
(* Victory. *)

(* Whether a home diagonal is completed depends on its owner's pawns only. *)
LEMMA CompletionIsLocal ==
  ASSUME NEW before, NEW after, NEW player \in Players,
         \A pawn \in Pawns : Owner(pawn) = player =>
           after[pawn] = before[pawn] \/ after[pawn].zone # "HOME",
         HomeDiagonalCompleted(after, player)
  PROVE  HomeDiagonalCompleted(before, player)
<1>1. \A pawn \in Pawns : Owner(pawn) = player =>
        after[pawn].zone = "HOME" /\ after[pawn] = before[pawn]
  BY DEF HomeDiagonalCompleted, HomePawns
<1>2. HomePawns(after, player) = HomePawns(before, player)
  BY <1>1 DEF HomePawns
<1>3. {after[pawn].at : pawn \in HomePawns(after, player)}
        = {before[pawn].at : pawn \in HomePawns(before, player)}
  BY <1>1, <1>2 DEF HomePawns
<1>4. QED
  BY <1>2, <1>3 DEF HomeDiagonalCompleted

(* An action of the current player: it ends the match when and only when   *)
(* the player has completed the diagonal, for somebody else is ACTIVE.     *)
LEMMA ActionWins ==
  ASSUME TurnInv, NEW pawn \in Pawns, EnterPawn(pawn) \/ MovePawn(pawn)
  PROVE  /\ status = "ACTIVE" /\ currentPlayer \in Players
         /\ \/ /\ HomeDiagonalCompleted(position', currentPlayer)
               /\ winReason' = "HOME_DIAGONAL_COMPLETED" /\ winner' = currentPlayer
               /\ status' = "FINISHED"
            \/ /\ ~ HomeDiagonalCompleted(position', currentPlayer)
               /\ winReason' = "NONE" /\ status' = "ACTIVE"
<1>1. /\ status = "ACTIVE" /\ winReason = "NONE" /\ currentPlayer \in Players
      /\ \E p \in Players \ {currentPlayer} : playerStatus[p] = "ACTIVE"
  BY DEF EnterPawn, MovePawn, TurnInv, SnapshotShape
<1>2. IsWinningState(position', currentPlayer) <=> HomeDiagonalCompleted(position', currentPlayer)
  BY <1>1 DEF IsWinningState
<1>3. \/ /\ IsWinningState(position', currentPlayer)
         /\ ProjectTerminalState(playerStatus, currentPlayer, WinReason(position', currentPlayer))
      \/ /\ ~ IsWinningState(position', currentPlayer)
         /\ UNCHANGED <<status, winReason>>
  BY DEF EnterPawn, MovePawn, GrantExtraRoll, ChangeTurn, Stay
<1>4. QED
  BY <1>1, <1>2, <1>3 DEF ProjectTerminalState, Turn!Finish, WinReason

(* A match ends as soon as somebody has won, and for no other reason.      *)
THEOREM FinishedExactlyWhenWonHolds == Spec => []FinishedExactlyWhenWon
<1>1. Init => FinishedExactlyWhenWon
  <2> SUFFICES ASSUME Init, NEW p \in Players, HomeDiagonalCompleted(position, p)
               PROVE  FALSE
    BY DEF Init, FinishedExactlyWhenWon
  <2>1. <<p, 1>> \in Pawns /\ Owner(<<p, 1>>) = p
    BY OwnerType
  <2>2. QED
    BY <2>1 DEF Init, HomeDiagonalCompleted, HomePawns, OffBoard
<1>2. TurnInv /\ FinishedExactlyWhenWon /\ [Next]_vars => FinishedExactlyWhenWon'
  <2> SUFFICES ASSUME TurnInv, FinishedExactlyWhenWon, [Next]_vars
               PROVE  FinishedExactlyWhenWon'
    OBVIOUS
  <2>0. TypeOK
    BY DEF TurnInv
  <2>1. ASSUME NEW dice \in 1 .. MaxDie, RollDice(dice)
        PROVE  FinishedExactlyWhenWon'
    <3>1. UNCHANGED <<status, playerStatus, winner, winReason, position>>
      BY <2>1 DEF RollDice, GrantExtraRoll, ChangeTurn, Stay
    <3>2. QED
      BY <3>1 DEF FinishedExactlyWhenWon, HomeDiagonalCompleted, HomePawns
  <2>2. ASSUME NEW pawn \in Pawns, EnterPawn(pawn) \/ MovePawn(pawn)
        PROVE  FinishedExactlyWhenWon'
    <3>1. ASSUME NEW p \in Players \ {currentPlayer}
          PROVE  ~ HomeDiagonalCompleted(position', p)
      <4>1. Owner(pawn) = currentPlayer
        BY <2>0, <2>2, EnterPlacement, MoveEffect
      <4>2. \A other \in Pawns : Owner(other) = p =>
              position'[other] = position[other] \/ position'[other].zone # "HOME"
        BY <2>0, <2>2, <4>1, EnterPlacement, MoveEffect DEF OffBoard
      <4>3. ~ HomeDiagonalCompleted(position, p)
        BY <2>2, ActionWins DEF FinishedExactlyWhenWon
      <4>4. QED
        BY <4>2, <4>3, CompletionIsLocal
    <3>2. QED
      BY <2>2, <3>1, ActionWins DEF FinishedExactlyWhenWon
  <2>3. ASSUME NEW player \in Players, Surrender(player)
        PROVE  FinishedExactlyWhenWon'
    <3> DEFINE statuses == [playerStatus EXCEPT ![player] = "SURRENDERED"]
               left     == {p \in Players : statuses[p] = "ACTIVE"}
    <3>1. /\ status = "ACTIVE" /\ winReason = "NONE"
          /\ \A p \in Players : playerStatus[p] \in {"ACTIVE", "SURRENDERED"}
          /\ position' = RemovePlayerPawns(player)
      BY <2>3 DEF Surrender, TurnInv, SnapshotShape, TypeOK
    <3>2. ASSUME NEW p \in Players
          PROVE  ~ HomeDiagonalCompleted(position', p)
      <4>1. \A other \in Pawns : Owner(other) = p =>
              position'[other] = position[other] \/ position'[other].zone # "HOME"
        BY <3>1 DEF RemovePlayerPawns, Removed
      <4>2. ~ HomeDiagonalCompleted(position, p)
        BY <3>1 DEF FinishedExactlyWhenWon
      <4>3. QED
        BY <4>1, <4>2, CompletionIsLocal
    <3>3. CASE /\ \A p \in left : left # {p}
               /\ UNCHANGED <<status, winner, winReason>>
      BY <3>1, <3>2, <3>3 DEF FinishedExactlyWhenWon
    <3>4. CASE \E last \in left : /\ left = {last}
                                  /\ ProjectTerminalState(statuses, last, "LAST_ACTIVE_PLAYER")
      <4>1. PICK last \in left : /\ left = {last}
                                 /\ ProjectTerminalState(statuses, last, "LAST_ACTIVE_PLAYER")
        BY <3>4
      <4>2. \A p \in Players \ {last} : statuses[p] = "SURRENDERED"
        BY <2>0, <3>1, <4>1 DEF TypeOK
      <4>3. /\ winner' = last /\ winReason' = "LAST_ACTIVE_PLAYER"
            /\ \A p \in Players \ {last} : playerStatus'[p] = "SURRENDERED"
            /\ status' = "FINISHED"
        BY <4>1, <4>2 DEF ProjectTerminalState, Turn!Finish, Turn!Seats, Players
      <4>4. QED
        BY <4>3 DEF FinishedExactlyWhenWon
    <3>5. QED
      BY <2>3, <3>3, <3>4 DEF Surrender
  <2>4. CASE UNCHANGED vars
    BY <2>4 DEF vars, boardVars, FinishedExactlyWhenWon, HomeDiagonalCompleted, HomePawns
  <2>5. QED
    BY <2>1, <2>2, <2>3, <2>4 DEF Next
<1>3. QED
  BY <1>1, <1>2, TurnInvHolds, PTL DEF Spec

-----------------------------------------------------------------------------
(* What a step may never do. *)

(* Pawns only ever move forward, and are safe once home.                   *)
LEMMA AdvanceForward ==
  ASSUME NEW pos \in Positions, NEW d \in 1 .. MaxDie, Fits(pos, d)
  PROVE  /\ \/ /\ pos.zone = "PERIMETER" /\ AdvancePosition(pos, d).zone = "PERIMETER"
               /\ AdvancePosition(pos, d).at > pos.at
            \/ pos.zone = "PERIMETER" /\ AdvancePosition(pos, d).zone = "HOME"
            \/ /\ pos.zone = "HOME" /\ AdvancePosition(pos, d).zone = "HOME"
               /\ AdvancePosition(pos, d).at > pos.at
         /\ AdvancePosition(pos, d) # pos
<1>1. \/ pos.zone = "PERIMETER" /\ pos.at \in 0 .. (PerimeterLength - 1)
      \/ pos.zone = "HOME" /\ pos.at \in 0 .. HomeEnd
  BY PositionCases DEF Fits, OnBoard, OffBoard, Removed
<1>2. QED
  BY <1>1, BoardAssumption DEF AdvancePosition, Perimeter, Home, PerimeterLength, HomeEnd

(* An inactive corner is a perimeter cell, so a pawn that steps on one was *)
(* on the perimeter before.                                                *)
LEMMA RemovedFromPerimeter ==
  ASSUME TypeOK, NEW pawn \in Pawns, MovePawn(pawn), position'[pawn] = OffBoard
  PROVE  position[pawn].zone = "PERIMETER"
<1>1. /\ diceValue \in 1 .. MaxDie /\ Fits(position[pawn], diceValue)
      /\ position[pawn] \in Positions
  BY MoveEffect DEF TypeOK
<1>2. AdvancePosition(position[pawn], diceValue).zone = "PERIMETER"
  <2>1. position'[pawn] # AdvancePosition(position[pawn], diceValue)
    BY <1>1, AdvanceType DEF OnBoard, OffBoard
  <2>2. QED
    BY <2>1, MoveEffect DEF InactiveCorner
<1>3. QED
  BY <1>1, <1>2, AdvanceForward

(* No command moves a pawn backwards: it advances on its own track, leaves *)
(* the perimeter for the reserve or leaves the match (movement/path.ts).   *)
THEOREM NeverBackwardsHolds == Spec => NeverBackwards
<1> DEFINE Forward(pawn) ==
      LET old == position[pawn]
          new == position'[pawn]
      IN  \/ new.zone = "REMOVED" \/ new = old
          \/ old.zone = "OFF_BOARD" /\ new = Perimeter(0)
          \/ old.zone = "PERIMETER" /\ new.zone = "OFF_BOARD"
          \/ old.zone = "PERIMETER" /\ new.zone = "PERIMETER" /\ new.at > old.at
          \/ old.zone = "PERIMETER" /\ new.zone = "HOME"
          \/ old.zone = "HOME" /\ new.zone = "HOME" /\ new.at > old.at
<1>1. TypeOK /\ [Next]_vars => [\A pawn \in Pawns : Forward(pawn)]_vars
  <2> SUFFICES ASSUME TypeOK, Next
               PROVE  \A pawn \in Pawns : Forward(pawn)
    OBVIOUS
  <2>1. ASSUME NEW dice \in 1 .. MaxDie, RollDice(dice)
        PROVE  \A pawn \in Pawns : Forward(pawn)
    BY <2>1 DEF RollDice
  <2>2. ASSUME NEW pawn \in Pawns, EnterPawn(pawn)
        PROVE  \A other \in Pawns : Forward(other)
    BY <2>2, EnterPlacement DEF OffBoard
  <2>3. ASSUME NEW pawn \in Pawns, MovePawn(pawn)
        PROVE  \A other \in Pawns : Forward(other)
    <3>1. \A other \in Pawns : other # pawn => Forward(other)
      BY <2>3, MoveEffect DEF OffBoard
    <3>2. ASSUME position'[pawn] = OffBoard
          PROVE  Forward(pawn)
      <4>1. position[pawn].zone = "PERIMETER"
        BY <2>3, <3>2, RemovedFromPerimeter
      <4>2. QED
        BY <3>2, <4>1 DEF OffBoard
    <3>3. ASSUME position'[pawn] = AdvancePosition(position[pawn], diceValue)
          PROVE  Forward(pawn)
      <4>1. diceValue \in 1 .. MaxDie /\ Fits(position[pawn], diceValue)
        BY <2>3, MoveEffect
      <4>2. position[pawn] \in Positions
        BY DEF TypeOK
      <4>3. QED
        BY <3>3, <4>1, <4>2, AdvanceForward
    <3>4. Forward(pawn)
      BY <2>3, <3>2, <3>3, MoveEffect
    <3>5. QED
      BY <3>1, <3>4
  <2>4. ASSUME NEW player \in Players, Surrender(player)
        PROVE  \A pawn \in Pawns : Forward(pawn)
    BY <2>4 DEF Surrender, RemovePlayerPawns, Removed
  <2>5. QED
    BY <2>1, <2>2, <2>3, <2>4 DEF Next
<1>2. QED
  BY <1>1, TypeCorrect, PTL DEF Spec, NeverBackwards

(* A pawn is sent back only by the pawn that lands on it, or by the        *)
(* inactive corner it stepped on; never two pawns at once.  Uniqueness     *)
(* needs UniqueOccupancy: two victims would share the destination; and the *)
(* mover and a victim cannot both go, for no pawn rests on the inactive    *)
(* corner.                                                                 *)
LEMMA SameCellSameCorner ==
  ASSUME NEW pawn \in Pawns, NEW other \in Pawns, TypeOK,
         position[other].zone = "PERIMETER", Fits(position[pawn], diceValue),
         Cell(position, other) = PathOf(position, pawn, diceValue),
         InactiveCorner(AdvancePosition(position[pawn], diceValue), Color(Owner(pawn)))
  PROVE  InactiveCorner(position[other], Color(Owner(other)))
<1> DEFINE target == AdvancePosition(position[pawn], diceValue)
           mine   == Color(Owner(pawn))
           theirs == Color(Owner(other))
<1>1. /\ target.zone = "PERIMETER"
      /\ PerimeterCell(mine, target.at) \in Corners
      /\ \A p \in Players : HomeCell(Color(p), 0) # PerimeterCell(mine, target.at)
  BY DEF InactiveCorner
<1>2. Owner(pawn) \in Players /\ Owner(other) \in Players
  BY OwnerType
<1>3. target.at # 0
  <2>1. target = Perimeter(target.at) => target.at # 0
    BY OwnCornerIsActive
  <2>2. target = Perimeter(target.at)
    BY <1>1 DEF AdvancePosition, Perimeter, Home
  <2>3. QED
    BY <2>1, <2>2
<1>4. PathOf(position, pawn, diceValue) = PerimeterCell(mine, target.at)
  BY <1>1, <1>3 DEF PathOf, PathCell, CoordinateOf
<1>5. position[other].at # 0
  BY <1>1, <1>2, <1>4 DEF Cell, CoordinateOf
<1>6. Cell(position, other) = PerimeterCell(theirs, position[other].at)
  BY <1>5 DEF Cell, CoordinateOf
<1>7. QED
  BY <1>1, <1>4, <1>6 DEF InactiveCorner

(* A pawn goes back to the reserve only when an opponent lands on its cell *)
(* or when it stops on an inactive corner, and one command sends back at   *)
(* most one pawn (transitions/pawn.ts).                                    *)
THEOREM SentBackForACauseHolds == Spec => SentBackForACause
<1> DEFINE Cause(pawn) ==
             IF Owner(pawn) = currentPlayer
             THEN InactiveCorner(AdvancePosition(position[pawn], diceValue), Color(Owner(pawn)))
             ELSE \E mover \in Pawns :
                    /\ Owner(mover) = currentPlayer /\ position'[mover] # position[mover]
                    /\ CoordinateOf(position'[mover], Color(Owner(mover))) = Cell(position, pawn)
           Caused == /\ \A a, b \in Pawns : SentBack(a) /\ SentBack(b) => a = b
                     /\ \A pawn \in Pawns : SentBack(pawn) => Cause(pawn)
<1>1. TypeOK /\ UniqueOccupancy /\ NoPawnOnInactiveCorner /\ [Next]_vars => [Caused]_vars
  <2> SUFFICES ASSUME TypeOK, UniqueOccupancy, NoPawnOnInactiveCorner, Next
               PROVE  Caused
    OBVIOUS
  <2>1. ASSUME \A pawn \in Pawns : ~ SentBack(pawn)
        PROVE  Caused
    BY <2>1
  <2>2. ASSUME NEW dice \in 1 .. MaxDie, RollDice(dice)
        PROVE  Caused
    BY <2>1, <2>2 DEF RollDice, SentBack, OnBoard
  <2>3. ASSUME NEW pawn \in Pawns, EnterPawn(pawn)
        PROVE  Caused
    BY <2>1, <2>3, EnterPlacement DEF SentBack, OnBoard, Perimeter
  <2>4. ASSUME NEW pawn \in Pawns, MovePawn(pawn)
        PROVE  Caused
    <3>1. ASSUME NEW other \in Pawns, other # pawn, SentBack(other)
          PROVE  /\ Owner(other) # Owner(pawn)
                 /\ position[other].zone = "PERIMETER"
                 /\ Cell(position, other) = PathOf(position, pawn, diceValue)
      BY <2>4, <3>1, MoveEffect DEF SentBack, OnBoard
    <3>2. /\ Owner(pawn) = currentPlayer
          /\ diceValue \in 1 .. MaxDie /\ Fits(position[pawn], diceValue)
          /\ position[pawn] \in Positions
      BY <2>4, MoveEffect DEF TypeOK
    <3>3. SentBack(pawn) => Cause(pawn)
      <4>1. ASSUME SentBack(pawn)
            PROVE  position'[pawn] # AdvancePosition(position[pawn], diceValue)
        BY <3>2, <4>1, AdvanceType DEF SentBack, OnBoard
      <4>2. QED
        BY <2>4, <3>2, <4>1, MoveEffect
    <3>4. ASSUME NEW other \in Pawns, other # pawn, SentBack(other)
          PROVE  /\ ~ InactiveCorner(AdvancePosition(position[pawn], diceValue), Color(Owner(pawn)))
                 /\ position'[pawn] = AdvancePosition(position[pawn], diceValue)
      BY <2>4, <3>1, <3>2, <3>4, SameCellSameCorner, MoveEffect DEF NoPawnOnInactiveCorner
    <3>5. ASSUME NEW other \in Pawns, other # pawn, SentBack(other)
          PROVE  Cause(other)
      <4>1. position'[pawn] = AdvancePosition(position[pawn], diceValue)
        BY <3>4, <3>5
      <4>2. CoordinateOf(position'[pawn], Color(Owner(pawn))) = Cell(position, other)
        BY <3>1, <3>5, <4>1 DEF PathOf, PathCell
      <4>3. position'[pawn] # position[pawn]
        BY <3>2, <4>1, AdvanceForward
      <4>4. QED
        BY <3>1, <3>2, <3>5, <4>2, <4>3
    <3>6. ASSUME NEW a \in Pawns, NEW b \in Pawns, SentBack(a), SentBack(b)
          PROVE  a = b
      <4>1. CASE a # pawn /\ b # pawn
        BY <3>1, <3>6, <4>1 DEF UniqueOccupancy, SentBack
      <4>2. CASE a = pawn \/ b = pawn
        <5>1. ~ (SentBack(pawn) /\ \E other \in Pawns : other # pawn /\ SentBack(other))
          BY <3>2, <3>4, AdvanceType DEF SentBack, OnBoard
        <5>2. QED
          BY <3>6, <4>2, <5>1
      <4>3. QED
        BY <4>1, <4>2
    <3>7. QED
      BY <3>3, <3>5, <3>6
  <2>5. ASSUME NEW player \in Players, Surrender(player)
        PROVE  Caused
    BY <2>1, <2>5 DEF Surrender, RemovePlayerPawns, Removed, SentBack, OnBoard
  <2>6. QED
    BY <2>2, <2>3, <2>4, <2>5 DEF Next
<1>2. QED
  BY <1>1, TypeCorrect, UniqueOccupancyHolds, NoPawnOnInactiveCornerHolds, PTL
     DEF Spec, SentBackForACause

(* Nobody who is still in the match is passed over.                        *)
THEOREM NobodySkippedHolds == Spec => NobodySkipped
<1> DEFINE Nearest ==
      currentPlayer' # currentPlayer /\ status' = "ACTIVE" =>
         \E step \in 1 .. (NumPlayers - 1) :
           /\ currentPlayer' = (currentPlayer + step) % NumPlayers
           /\ playerStatus'[currentPlayer'] = "ACTIVE"
           /\ \A s \in 1 .. (step - 1) :
                playerStatus'[(currentPlayer + s) % NumPlayers] = "SURRENDERED"
<1>1. TurnInv /\ TurnInv' /\ [Next]_vars => [Nearest]_vars
  <2> SUFFICES ASSUME TurnInv, TurnInv', Next, currentPlayer' # currentPlayer, status' = "ACTIVE"
               PROVE  Nearest
    OBVIOUS
  <2>1. /\ currentPlayer \in Players /\ status = "ACTIVE"
        /\ currentPlayer' = Turn!NextActivePlayer(playerStatus', currentPlayer)
    <3>1. status = "ACTIVE"
      BY DEF Next, RollDice, EnterPawn, MovePawn, Surrender
    <3>2. ASSUME NEW dice \in 1 .. MaxDie, RollDice(dice)
          PROVE  currentPlayer' = Turn!NextActivePlayer(playerStatus', currentPlayer)
      BY <3>2 DEF RollDice, GrantExtraRoll, ChangeTurn, HandOver, Stay
    <3>3. ASSUME NEW pawn \in Pawns, EnterPawn(pawn) \/ MovePawn(pawn)
          PROVE  currentPlayer' = Turn!NextActivePlayer(playerStatus', currentPlayer)
      BY <3>3 DEF EnterPawn, MovePawn, GrantExtraRoll, ChangeTurn, HandOver, Stay,
                  ProjectTerminalState, Turn!Finish
    <3>4. ASSUME NEW player \in Players, Surrender(player)
          PROVE  currentPlayer' = Turn!NextActivePlayer(playerStatus', currentPlayer)
      BY <3>4 DEF Surrender, HandOver, ProjectTerminalState, Turn!Finish
    <3>5. QED
      BY <3>1, <3>2, <3>3, <3>4 DEF Next, TurnInv, SnapshotShape
  <2>2. /\ \E q \in Players \ {currentPlayer} : playerStatus'[q] = "ACTIVE"
        /\ \A p \in Players : playerStatus'[p] \in {"ACTIVE", "SURRENDERED"}
    BY DEF TurnInv, SnapshotShape, TypeOK
  <2>3. PICK step \in 1 .. (NumPlayers - 1) :
          /\ currentPlayer' = (currentPlayer + step) % NumPlayers
          /\ (currentPlayer + step) % NumPlayers \in Players \ {currentPlayer}
          /\ playerStatus'[(currentPlayer + step) % NumPlayers] = "ACTIVE"
          /\ \A s \in 1 .. (step - 1) : playerStatus'[(currentPlayer + s) % NumPlayers] # "ACTIVE"
    BY <2>1, <2>2, NextActiveIsActive
  <2>4. \A s \in 1 .. (step - 1) : (currentPlayer + s) % NumPlayers \in Players
    BY <2>1, BoardAssumption DEF Players
  <2>5. QED
    BY <2>2, <2>3, <2>4
<1>2. QED
  BY <1>1, TurnInvHolds, PTL DEF Spec, NobodySkipped

-----------------------------------------------------------------------------
(* The engine implements TurnProtocol. *)

(* The turn protocol's step for each command: a roll offers an action,     *)
(* passes the turn or changes nothing (the highest throw with no action);  *)
(* an action earns a roll, passes the turn or wins; a surrender leaves.    *)
LEMMA ActionIsTurnStep ==
  ASSUME NEW pawn \in Pawns, EnterPawn(pawn) \/ MovePawn(pawn)
  PROVE  Turn!TurnNext
<1>1. status = "ACTIVE" /\ turnPhase = "WAITING_FOR_ACTION"
  BY DEF EnterPawn, MovePawn
<1>2. CASE GrantExtraRoll
  BY <1>1, <1>2 DEF GrantExtraRoll, Stay, Turn!ExtraRoll, Turn!TurnNext
<1>3. CASE ChangeTurn
  BY <1>1, <1>3 DEF ChangeTurn, HandOver, Stay, Turn!PassTurn, Turn!TurnNext
<1>4. CASE \E reason : ProjectTerminalState(playerStatus, currentPlayer, reason)
  BY <1>1, <1>4 DEF ProjectTerminalState, Turn!WinWithAction, Turn!TurnNext
<1>5. QED
  BY <1>2, <1>3, <1>4 DEF EnterPawn, MovePawn

(* A surrender is a step of the turn protocol, whoever leaves.             *)
LEMMA SurrenderIsTurnStep ==
  ASSUME NEW player \in Players, Surrender(player)
  PROVE  Turn!TurnNext
<1> DEFINE statuses == [playerStatus EXCEPT ![player] = "SURRENDERED"]
           left     == {p \in Players : statuses[p] = "ACTIVE"}
<1>1. /\ status = "ACTIVE" /\ playerStatus[player] = "ACTIVE"
      /\ \/ \E last \in left : left = {last} /\ Turn!Finish(statuses, last)
         \/ /\ \A p \in left : left # {p}
            /\ playerStatus' = statuses
            /\ UNCHANGED <<status, winner>>
            /\ \/ /\ player = currentPlayer
                  /\ currentPlayer' = Turn!NextActivePlayer(statuses, player)
                  /\ turnPhase' = "WAITING_FOR_ROLL"
               \/ /\ player # currentPlayer
                  /\ UNCHANGED <<currentPlayer, turnPhase>>
  BY DEF Surrender, HandOver, ProjectTerminalState
<1>2. Turn!Seats = Players
  BY DEF Turn!Seats, Players
<1>3. Turn!Leave(player)
  BY <1>1, <1>2 DEF Turn!Leave
<1>4. QED
  BY <1>2, <1>3 DEF Turn!TurnNext

(* Whatever happens on the board, the turns follow TurnProtocol.           *)
THEOREM EngineImplementsTurnProtocol == Spec => FollowsTurnProtocol
<1>1. Init => Turn!TurnInit
  BY DEF Init
<1>2. [Next]_vars => [Turn!TurnNext]_(Turn!turnVars)
  <2> SUFFICES ASSUME [Next]_vars
               PROVE  Turn!TurnNext \/ UNCHANGED Turn!turnVars
    OBVIOUS
  <2>1. ASSUME NEW dice \in 1 .. MaxDie, RollDice(dice)
        PROVE  Turn!TurnNext \/ UNCHANGED Turn!turnVars
    <3>1. status = "ACTIVE" /\ turnPhase = "WAITING_FOR_ROLL"
      BY <2>1 DEF RollDice
    <3>2. CASE turnPhase' = "WAITING_FOR_ACTION" /\ Stay /\ UNCHANGED currentPlayer
      BY <3>1, <3>2 DEF Stay, Turn!OfferAction, Turn!TurnNext
    <3>3. CASE GrantExtraRoll
      BY <3>1, <3>3 DEF GrantExtraRoll, Stay, Turn!turnVars
    <3>4. CASE ChangeTurn
      BY <3>1, <3>4 DEF ChangeTurn, HandOver, Stay, Turn!PassTurn, Turn!TurnNext
    <3>5. QED
      BY <2>1, <3>2, <3>3, <3>4 DEF RollDice
  <2>2. CASE UNCHANGED vars
    BY <2>2 DEF vars, boardVars, Turn!turnVars
  <2>3. QED
    BY <2>1, <2>2, ActionIsTurnStep, SurrenderIsTurnStep DEF Next
<1>3. QED
  BY <1>1, <1>2, PTL DEF Spec, FollowsTurnProtocol, Turn!TurnSpec

-----------------------------------------------------------------------------
(* Every accepted command settles who is next in exactly one way, and its  *)
(* events say which.                                                       *)

(* Entering a pawn cannot win: the pawn just entered is not home.          *)
LEMMA EnterNeverWins ==
  ASSUME TurnInv, NEW pawn \in Pawns, EnterPawn(pawn)
  PROVE  GrantExtraRoll /\ events' = {"pawnEntered", "extraRollGranted"}
<1>1. position'[pawn].zone # "HOME" /\ Owner(pawn) = currentPlayer
  BY EnterPlacement DEF TurnInv, Perimeter
<1>2. ~ HomeDiagonalCompleted(position', currentPlayer)
  BY <1>1 DEF HomeDiagonalCompleted, HomePawns
<1>3. status' = "ACTIVE"
  BY <1>2, ActionWins
<1>4. QED
  BY <1>3 DEF EnterPawn, ProjectTerminalState, Turn!Finish, Emit

(* Every accepted command hands over once.                                 *)
THEOREM HandsOverOnceHolds == Spec => HandsOverOnce
<1> DEFINE Handovers == {"turnChanged", "extraRollGranted", "gameWon"}
           Settled   ==
             LET handover == events' \intersect Handovers
             IN  \/ status' = "FINISHED" /\ handover = {"gameWon"}
                 \/ /\ status' = "ACTIVE" /\ currentPlayer' # currentPlayer
                    /\ handover = {"turnChanged"} /\ turnNumber' = turnNumber + 1
                 \/ /\ status' = "ACTIVE" /\ currentPlayer' = currentPlayer
                    /\ turnNumber' = turnNumber
                    /\ handover = IF /\ turnPhase' = "WAITING_FOR_ROLL"
                                     /\ "playerSurrendered" \notin events'
                                  THEN {"extraRollGranted"} ELSE {}
<1>1. TurnInv /\ [Next]_vars => [Settled]_vars
  <2> SUFFICES ASSUME TurnInv, Next
               PROVE  Settled
    OBVIOUS
  <2>0. /\ status = "ACTIVE" /\ currentPlayer \in Players
        /\ \E q \in Players \ {currentPlayer} : playerStatus[q] = "ACTIVE"
    BY DEF Next, RollDice, EnterPawn, MovePawn, Surrender, TurnInv, SnapshotShape
  <2>1. ASSUME NEW moved, moved \intersect Handovers = {}, ChangeTurn,
               events' = moved \union {"turnChanged"}
        PROVE  Settled
    <3>1. currentPlayer' # currentPlayer /\ status' = "ACTIVE" /\ turnNumber' = turnNumber + 1
      BY <2>0, <2>1, NextCurrent DEF ChangeTurn, HandOver, Stay
    <3>2. events' \intersect Handovers = {"turnChanged"}
      BY <2>1
    <3>3. QED
      BY <3>1, <3>2
  <2>2. ASSUME NEW moved, moved \intersect Handovers = {}, GrantExtraRoll,
               "playerSurrendered" \notin moved,
               events' = moved \union {"extraRollGranted"}
        PROVE  Settled
    <3>1. /\ currentPlayer' = currentPlayer /\ status' = "ACTIVE" /\ turnNumber' = turnNumber
          /\ turnPhase' = "WAITING_FOR_ROLL"
      BY <2>0, <2>2 DEF GrantExtraRoll, Stay
    <3>2. /\ events' \intersect Handovers = {"extraRollGranted"}
          /\ "playerSurrendered" \notin events'
      BY <2>2
    <3>3. QED
      BY <3>1, <3>2
  <2>3. ASSUME NEW moved, moved \intersect Handovers = {}, status' = "FINISHED",
               events' = moved \union {"gameWon"}
        PROVE  Settled
    BY <2>3
  <2>4. ASSUME NEW dice \in 1 .. MaxDie, RollDice(dice)
        PROVE  Settled
    <3>1. {"diceRolled"} \intersect Handovers = {} /\ "playerSurrendered" \notin {"diceRolled"}
      OBVIOUS
    <3>2. CASE ChangeTurn /\ events' = {"diceRolled"} \union {"turnChanged"}
      BY <2>1, <3>1, <3>2
    <3>3. CASE GrantExtraRoll /\ events' = {"diceRolled"} \union {"extraRollGranted"}
      BY <2>2, <3>1, <3>3
    <3>4. CASE /\ turnPhase' = "WAITING_FOR_ACTION" /\ events' = {"diceRolled"}
               /\ UNCHANGED <<currentPlayer, turnNumber, status>>
      BY <2>0, <3>1, <3>4
    <3>5. \/ ChangeTurn /\ events' = {"diceRolled"} \union {"turnChanged"}
          \/ GrantExtraRoll /\ events' = {"diceRolled"} \union {"extraRollGranted"}
          \/ /\ turnPhase' = "WAITING_FOR_ACTION" /\ events' = {"diceRolled"}
             /\ UNCHANGED <<currentPlayer, turnNumber, status>>
      BY <2>4 DEF RollDice, Emit, Stay
    <3>6. QED
      BY <3>2, <3>3, <3>4, <3>5
  <2>5. ASSUME NEW pawn \in Pawns, EnterPawn(pawn)
        PROVE  Settled
    <3>1. GrantExtraRoll /\ events' = {"pawnEntered"} \union {"extraRollGranted"}
      BY <2>5, EnterNeverWins
    <3>2. {"pawnEntered"} \intersect Handovers = {} /\ "playerSurrendered" \notin {"pawnEntered"}
      OBVIOUS
    <3>3. QED
      BY <2>2, <3>1, <3>2
  <2>6. ASSUME NEW pawn \in Pawns, MovePawn(pawn)
        PROVE  Settled
    <3> DEFINE target   == AdvancePosition(position[pawn], diceValue)
               captured == Capturable(pawn, PathOf(position, pawn, diceValue))
               moved    == MoveEvents(pawn, target, captured)
    <3>1. moved \intersect Handovers = {} /\ "playerSurrendered" \notin moved
      BY DEF MoveEvents
    <3>2. \/ GrantExtraRoll /\ events' = moved \union {"extraRollGranted"}
          \/ ChangeTurn /\ events' = moved \union {"turnChanged"}
          \/ status' = "FINISHED" /\ events' = moved \union {"gameWon"}
      BY <2>6 DEF MovePawn, ProjectTerminalState, Turn!Finish, Emit
    <3> HIDE DEF moved
    <3>3. QED
      BY <2>1, <2>2, <2>3, <3>1, <3>2
  <2>7. ASSUME NEW player \in Players, Surrender(player)
        PROVE  Settled
    <3> DEFINE statuses == [playerStatus EXCEPT ![player] = "SURRENDERED"]
               left     == {p \in Players : statuses[p] = "ACTIVE"}
               gone     == {"playerSurrendered", "pawnRemoved"}
    <3>1. gone \intersect Handovers = {}
      OBVIOUS
    <3>2. CASE status' = "FINISHED" /\ events' = gone \union {"gameWon"}
      BY <2>3, <3>1, <3>2
    <3>3. CASE /\ UNCHANGED <<status, currentPlayer, turnPhase, turnNumber>>
               /\ events' = gone
      BY <2>0, <3>1, <3>3
    <3>4. CASE /\ \A p \in left : left # {p}
               /\ status' = status /\ player = currentPlayer
               /\ HandOver(statuses) /\ events' = gone \union {"turnChanged"}
      <4>1. \E q \in Players \ {player} : statuses[q] = "ACTIVE"
        BY <2>0, <3>4 DEF TurnInv, TypeOK
      <4>2. currentPlayer' # currentPlayer
        BY <3>4, <4>1, NextCurrent DEF HandOver
      <4>3. events' \intersect Handovers = {"turnChanged"}
        BY <3>4
      <4>4. QED
        BY <2>0, <3>4, <4>2, <4>3 DEF HandOver
    <3>5. QED
      BY <2>7, <3>2, <3>3, <3>4 DEF Surrender, ProjectTerminalState, Turn!Finish, Emit
  <2>8. QED
    BY <2>4, <2>5, <2>6, <2>7 DEF Next
<1>2. QED
  BY <1>1, TurnInvHolds, PTL DEF Spec, HandsOverOnce

-----------------------------------------------------------------------------
(* The requests that skip the turn of a dummy (DebugSkip). *)

(* What NextDummyCommand may choose, for any board.                        *)
DummyCommands ==
  {NoCommand, Roll} \union
  {[type |-> type, pawn |-> FirstPawn(pawns)] :
     type \in {"ENTER_PAWN", "MOVE_PAWN"}, pawns \in SUBSET Pawns}

SkipRequests ==
  [at : {"done", "asked", "playing"}, fresh : BOOLEAN, passed : BOOLEAN, sent : Nat,
   command : DummyCommands]

(* A request that is playing and still knows the version of the match is   *)
(* in the turn it was asked in, and holds the command for this snapshot.   *)
UpToDate(r) ==
  /\ r.at # "playing" => ~ r.passed
  /\ r.at = "playing" /\ r.fresh =>
       ~ r.passed /\ r.command = NextDummyCommand(turnPhase, position, diceValue)

(* The inductive invariant of the requests.                                *)
SkipInv == skip \in [Skips -> SkipRequests] /\ \A h \in Skips : UpToDate(skip[h])

(* The commands made for a dummy are commands.                             *)
LEMMA DummyCommandType ==
  \A phase, placement, dice : NextDummyCommand(phase, placement, dice) \in DummyCommands
<1> TAKE phase, placement, dice
<1>1. Enterable(placement, Dummy, dice) \in SUBSET Pawns
  BY DEF Enterable
<1>2. Movable(placement, Dummy, dice) \in SUBSET Pawns
  BY DEF Movable
<1> QED
  BY <1>1, <1>2 DEF NextDummyCommand, FirstAction, DummyCommands

(* A request that is done is one.                                          *)
LEMMA DoneType == Done \in SkipRequests /\ UpToDate(Done)
BY DEF Done, SkipRequests, DummyCommands, UpToDate

(* A command of somebody else makes a request stale and leaves it where it *)
(* is.                                                                     *)
LEMMA OvertakenType ==
  ASSUME NEW h, NEW r \in SkipRequests
  PROVE  /\ Overtaken(h, r) \in SkipRequests
         /\ Overtaken(h, r).sent = r.sent \/ r.at = "done"
         /\ Overtaken(h, r).at = r.at
         /\ ~ Overtaken(h, r).fresh
         /\ r.at # "playing" => ~ Overtaken(h, r).passed
BY DoneType DEF Overtaken, SkipRequests, Done

(* At first no request is open.                                            *)
LEMMA SkipInitEstablishes == SkipInit => SkipInv
BY DoneType DEF SkipInit, SkipInv, Done, UpToDate

(* A step of one request that plays nothing.                               *)
LEMMA RequestStep ==
  ASSUME SkipInv, NEW h \in Skips, NEW r \in SkipRequests, skip' = [skip EXCEPT ![h] = r],
         UpToDate(r), UNCHANGED vars
  PROVE  SkipInv'
<1>1. skip' \in [Skips -> SkipRequests]
  BY DEF SkipInv
<1>2. ASSUME NEW g \in Skips PROVE UpToDate(skip[g])'
  <2>1. skip'[g] = r \/ skip'[g] = skip[g]
    BY DEF SkipInv
  <2>2. UpToDate(skip'[g])
    BY <2>1 DEF SkipInv
  <2> QED
    BY <2>2 DEF UpToDate, vars, boardVars
<1> QED
  BY <1>1, <1>2 DEF SkipInv

(* Commands of others are no command of a request.                         *)
LEMMA OthersKeep ==
  ASSUME SkipInv, Others
  PROVE  SkipInv' /\ \A h \in Skips : ~ Plays(h)
<1>1. skip' = [h \in Skips |-> Overtaken(h, skip[h])]
  BY DEF Others
<1>2. ASSUME NEW h \in Skips
      PROVE  /\ skip'[h] \in SkipRequests /\ ~ skip'[h].fresh /\ skip'[h].at = skip[h].at
             /\ skip'[h].at # "playing" => ~ skip'[h].passed
             /\ skip'[h].sent = skip[h].sent \/ skip[h].at = "done"
  <2>1. skip[h] \in SkipRequests /\ skip'[h] = Overtaken(h, skip[h])
    BY <1>1 DEF SkipInv
  <2> QED
    BY <2>1, OvertakenType
<1>3. skip' \in [Skips -> SkipRequests]
  BY <1>1, <1>2
<1>4. ASSUME NEW h \in Skips PROVE UpToDate(skip[h])' /\ ~ Plays(h)
  BY <1>2 DEF UpToDate, Plays
<1> QED
  BY <1>3, <1>4 DEF SkipInv

(* A request that is served stays a request that knows where it is.        *)
LEMMA NextRequest ==
  ASSUME NEW r \in SkipRequests, NEW c \in DummyCommands
  PROVE  /\ [r EXCEPT !.sent = @ + 1, !.command = c] \in SkipRequests
         /\ [r EXCEPT !.sent = @ + 1, !.command = c].passed = r.passed
         /\ [r EXCEPT !.sent = @ + 1, !.command = c].command = c
<1> DEFINE sending == [r EXCEPT !.sent = @ + 1]
<1>1. sending \in SkipRequests /\ sending.passed = r.passed
  BY DEF SkipRequests
<1> HIDE DEF sending
<1>2. /\ [sending EXCEPT !.command = c] \in SkipRequests
      /\ [sending EXCEPT !.command = c].passed = sending.passed
      /\ [sending EXCEPT !.command = c].command = c
  BY <1>1 DEF SkipRequests
<1> QED
  BY <1>1, <1>2, Zenon DEF sending

(* A command of a request: it stays up to date, all others become stale.   *)
LEMMA PlayKeeps ==
  ASSUME SkipInv, NEW h \in Skips, Play(h)
  PROVE  SkipInv' /\ \A g \in Skips : Plays(g) => g = h
<1> DEFINE next == [skip[h] EXCEPT !.sent = @ + 1,
                      !.command = NextDummyCommand(turnPhase', position', diceValue')]
<1>1. skip[h] \in SkipRequests /\ skip[h].at = "playing" /\ skip[h].fresh /\ ~ skip[h].passed
  BY DEF SkipInv, Play, Current, UpToDate
<1>2. /\ next \in SkipRequests /\ ~ next.passed
      /\ next.command = NextDummyCommand(turnPhase', position', diceValue')
  <2>1. NextDummyCommand(turnPhase', position', diceValue') \in DummyCommands
    BY DummyCommandType
  <2> QED
    BY <1>1, <2>1, NextRequest, Zenon
<1>3. \A g \in Skips :
        skip'[g] = IF g # h THEN Overtaken(g, skip[g]) ELSE skip'[h]
  BY DEF Play
<1>4. skip'[h] = next \/ skip'[h] = Done
  BY DEF Play
<1> HIDE DEF next
<1>5. skip' = [g \in Skips |-> skip'[g]]
  <2> DEFINE last == currentPlayer' = Dummy /\ skip[h].sent + 1 < MaxCommands
  <2>1. skip' = [g \in Skips |-> IF g # h THEN Overtaken(g, skip[g])
                                ELSE IF last THEN next ELSE Done]
    BY DEF Play, next
  <2> HIDE DEF last
  <2> QED
    BY <2>1
<1>6. ASSUME NEW g \in Skips, g # h
      PROVE  /\ skip'[g] \in SkipRequests /\ ~ skip'[g].fresh /\ skip'[g].at = skip[g].at
             /\ skip'[g].at # "playing" => ~ skip'[g].passed
             /\ skip'[g].sent = skip[g].sent \/ skip[g].at = "done"
  <2>1. skip[g] \in SkipRequests /\ skip'[g] = Overtaken(g, skip[g])
    BY <1>3, <1>6 DEF SkipInv
  <2> QED
    BY <2>1, OvertakenType
<1>7. ASSUME NEW g \in Skips, g # h PROVE UpToDate(skip[g])' /\ ~ Plays(g)
  BY <1>6, <1>7 DEF UpToDate, Plays
<1>8. skip'[h] \in SkipRequests /\ UpToDate(skip[h])'
  <2>1. CASE skip'[h] = next
    BY <2>1, <1>2 DEF UpToDate
  <2>2. CASE skip'[h] = Done
    BY <2>2, DoneType DEF UpToDate, Done
  <2> QED
    BY <2>1, <2>2, <1>4
<1>9. skip' \in [Skips -> SkipRequests]
  BY <1>5, <1>6, <1>8
<1> QED
  BY <1>7, <1>8, <1>9 DEF SkipInv

(* The invariant is inductive, and a request plays by Play only.           *)
LEMMA SkipInvKept ==
  ASSUME SkipInv, [SkipNext]_skipVars
  PROVE  SkipInv' /\ \A h \in Skips : Plays(h) => Play(h)
<1>1. CASE UNCHANGED skipVars
  BY <1>1 DEF skipVars, vars, boardVars, SkipInv, UpToDate, Plays
<1>2. CASE Others
  BY <1>2, OthersKeep
<1>3. ASSUME NEW h \in Skips, SkipStep(h)
      PROVE  SkipInv' /\ \A g \in Skips : Plays(g) => Play(g)
  <2>1. CASE Play(h)
    BY <2>1, PlayKeeps
  <2>2. CASE \E fresh \in BOOLEAN : Ask(h, fresh)
    <3>1. PICK fresh \in BOOLEAN : Ask(h, fresh)
      BY <2>2
    <3>2. [Done EXCEPT !.at = "asked", !.fresh = fresh] \in SkipRequests
          /\ UpToDate([Done EXCEPT !.at = "asked", !.fresh = fresh])
      BY DoneType DEF SkipRequests, UpToDate, Done
    <3> QED
      BY <3>1, <3>2, RequestStep DEF Ask, Plays, vars
  <2>3. CASE Refuse(h) \/ PlayRefused(h) \/ Break(h)
    BY <2>3, DoneType, RequestStep DEF Refuse, PlayRefused, Break, Answer, Plays, vars
  <2>4. CASE Read(h)
    <3> DEFINE r == [skip[h] EXCEPT !.at = "playing",
                       !.command = NextDummyCommand(turnPhase, position, diceValue)]
    <3>1. skip[h] \in SkipRequests /\ ~ skip[h].passed
      BY <2>4 DEF Read, SkipInv, UpToDate
    <3>2. r \in SkipRequests /\ ~ r.passed
          /\ r.command = NextDummyCommand(turnPhase, position, diceValue)
      BY <3>1, DummyCommandType DEF SkipRequests
    <3>3. skip' = [skip EXCEPT ![h] = r] /\ UNCHANGED vars
      BY <2>4 DEF Read, SkipInv
    <3> HIDE DEF r
    <3>4. UpToDate(r)
      BY <3>2 DEF UpToDate
    <3> QED
      BY <3>2, <3>3, <3>4, RequestStep DEF Plays, vars
  <2> QED
    BY <1>3, <2>1, <2>2, <2>3, <2>4 DEF SkipStep
<1> QED
  BY <1>1, <1>2, <1>3 DEF SkipNext

(* However late a command of a request that skips the turn of the dummy is *)
(* executed, it is not played in a later turn, and is the one chosen for   *)
(* the snapshot it is played on, whatever the bot runner, the human and    *)
(* other requests have played in between.                                  *)
THEOREM SkipsOneTurnHolds == SkipSpec => SkipsOneTurn
<1> DEFINE Turns ==
      \A h \in Skips : Plays(h) =>
        /\ ~ skip[h].passed
        /\ skip[h].command = NextDummyCommand(turnPhase, position, diceValue)
<1>1. SkipInv /\ [SkipNext]_skipVars => [Turns]_skipVars
  <2> SUFFICES ASSUME SkipInv, [SkipNext]_skipVars, NEW h \in Skips, Plays(h)
               PROVE  /\ ~ skip[h].passed
                      /\ skip[h].command = NextDummyCommand(turnPhase, position, diceValue)
    OBVIOUS
  <2>1. Play(h)
    BY SkipInvKept
  <2> QED
    BY <2>1 DEF Play, Current, SkipInv, UpToDate
<1>2. SkipInv /\ [SkipNext]_skipVars => SkipInv'
  BY SkipInvKept
<1> QED
  BY <1>1, <1>2, SkipInitEstablishes, PTL DEF SkipSpec, SkipsOneTurn

-----------------------------------------------------------------------------
(* What the journal makes of a command (EventJournal).                     *)

(* A throw and an action of a pawn are the doing of the current player.    *)
LEMMA ActorOfTurn ==
  ASSUME TurnInv, (\E dice \in 1 .. MaxDie : RollDice(dice))
                  \/ \E pawn \in Pawns : EnterPawn(pawn) \/ MovePawn(pawn)
  PROVE  /\ "playerSurrendered" \notin events'
         /\ Actor = currentPlayer /\ Actor \in Players
<1>1. status = "ACTIVE"
  BY DEF RollDice, EnterPawn, MovePawn
<1>2. currentPlayer \in Players
  BY <1>1 DEF TurnInv, SnapshotShape
<1>3. "playerSurrendered" \notin events'
  <2>1. ASSUME NEW dice \in 1 .. MaxDie, RollDice(dice) PROVE "playerSurrendered" \notin events'
    BY <2>1 DEF RollDice, Emit
  <2>2. ASSUME NEW pawn \in Pawns, EnterPawn(pawn) PROVE "playerSurrendered" \notin events'
    BY <2>2 DEF EnterPawn, Emit
  <2>3. ASSUME NEW pawn \in Pawns, MovePawn(pawn) PROVE "playerSurrendered" \notin events'
    BY <2>3 DEF MovePawn, MoveEvents, Emit
  <2> QED
    BY <2>1, <2>2, <2>3
<1> QED
  BY <1>2, <1>3 DEF Actor

(* A surrender is the doing of the one player it makes SURRENDERED.        *)
LEMMA ActorOfSurrender ==
  ASSUME TurnInv, NEW player \in Players, Surrender(player)
  PROVE  /\ "playerSurrendered" \in events'
         /\ Actor = player
<1>1. "playerSurrendered" \in events'
  BY DEF Surrender, Emit
<1>2. \A p \in Players :
        playerStatus[p] = "ACTIVE" /\ playerStatus'[p] = "SURRENDERED" <=> p = player
  BY DEF Surrender, ProjectTerminalState, Turn!Finish, Turn!Seats, Players, TurnInv, TypeOK
<1> QED
  BY <1>1, <1>2 DEF Actor

(* The pawn of an action is the one pawn of the current player that moves: *)
(* the journal finds it by looking at the board.                           *)
LEMMA MovedPawnOfTurn ==
  ASSUME TurnInv, NEW pawn \in Pawns, EnterPawn(pawn) \/ MovePawn(pawn)
  PROVE  /\ MovedPawn = pawn /\ Owner(pawn) = currentPlayer
         /\ position'[pawn] # position[pawn]
<1>1. Actor = currentPlayer
  BY ActorOfTurn
<1>2. TypeOK
  BY DEF TurnInv
<1>3. /\ Owner(pawn) = currentPlayer /\ position'[pawn] # position[pawn]
      /\ \A other \in Pawns : other # pawn /\ position'[other] # position[other]
           => Owner(other) # currentPlayer
  <2>1. CASE EnterPawn(pawn)
    BY <1>2, <2>1, EnterPlacement DEF OffBoard, Perimeter
  <2>2. CASE MovePawn(pawn)
    <3>1. /\ Owner(pawn) = currentPlayer
          /\ diceValue \in 1 .. MaxDie /\ Fits(position[pawn], diceValue)
          /\ \/ position'[pawn] = AdvancePosition(position[pawn], diceValue)
             \/ position'[pawn] = OffBoard
          /\ \A other \in Pawns : other # pawn =>
               position'[other] = position[other] \/ Owner(other) # Owner(pawn)
      BY <1>2, <2>2, MoveEffect
    <3>2. position[pawn] \in Positions /\ position[pawn] # OffBoard
      BY <1>2, <3>1 DEF TypeOK, Fits, OnBoard, OffBoard
    <3>3. AdvancePosition(position[pawn], diceValue) # position[pawn]
      BY <3>1, <3>2, AdvanceForward
    <3> QED
      BY <3>1, <3>2, <3>3
  <2> QED
    BY <2>1, <2>2
<1> QED
  BY <1>1, <1>3 DEF MovedPawn

(* A position on the board stands for a cell of it.                        *)
LEMMA CellOnTheBoard ==
  ASSUME NEW pos \in Positions, OnBoard(pos), NEW color \in Colors
  PROVE  CoordinateOf(pos, color) \in BoardCoords
<1>1. \/ pos.zone = "PERIMETER" /\ pos.at \in 0 .. (PerimeterLength - 1)
      \/ pos.zone = "HOME" /\ pos.at \in 0 .. HomeEnd
  BY PositionCases DEF OnBoard, OffBoard, Removed
<1>2. 0 \in 0 .. HomeEnd
  BY BoardAssumption DEF HomeEnd
<1>3. CASE pos.zone = "HOME"
  BY <1>1, <1>3 DEF CoordinateOf, BoardCoords
<1>4. CASE pos.zone # "HOME" /\ pos.at = 0
  BY <1>2, <1>4 DEF CoordinateOf, BoardCoords
<1>5. CASE pos.zone # "HOME" /\ pos.at # 0
  <2> DEFINE n == (PerimeterOffset[color] + pos.at) % PerimeterLength
  <2>1. PerimeterOffset[color] \in Nat
    BY BoardAssumption DEF PerimeterOffset, Colors
  <2>2. PerimeterLength \in Nat \ {0} /\ pos.at \in Nat
    BY <1>1, <1>5, BoardAssumption DEF PerimeterLength
  <2>3. n \in 0 .. (PerimeterLength - 1)
    BY <2>1, <2>2
  <2>4. CoordinateOf(pos, color) = RingCell(n)
    BY <1>5 DEF CoordinateOf, PerimeterCell
  <2> HIDE DEF n
  <2> QED
    BY <2>3, <2>4 DEF BoardCoords
<1> QED
  BY <1>3, <1>4, <1>5

(* The owner of a pawn has a colour.                                       *)
LEMMA OwnColor == \A pawn \in Pawns : Color(Owner(pawn)) \in Colors
BY ColorType, OwnerType

(* The coordinate of a pawn on the board resolves.                         *)
LEMMA CoordinateOnBoard ==
  ASSUME NEW placement \in [Pawns -> Positions], NEW pawn \in Pawns, OnBoard(placement[pawn])
  PROVE  PawnCoordinate(placement, pawn) \in BoardCoords
BY CellOnTheBoard, OwnColor DEF PawnCoordinate, Cell

(* So does every cell of the path of a pawn that fits its throw.           *)
LEMMA PathOnBoard ==
  ASSUME TypeOK, NEW pawn \in Pawns, diceValue \in 1 .. MaxDie, Fits(position[pawn], diceValue)
  PROVE  \A k \in 1 .. diceValue :
           /\ PathOf(position, pawn, k) \in BoardCoords
           /\ AdvancePosition(position[pawn], k) \in Positions
           /\ OnBoard(AdvancePosition(position[pawn], k))
<1> TAKE k \in 1 .. diceValue
<1>1. k \in 1 .. MaxDie
  BY BoardAssumption
<1>2. position[pawn] \in Positions
  BY DEF TypeOK
<1>3. StepsLeft(position[pawn]) \in Int
  BY <1>2, PositionCases, BoardAssumption
     DEF StepsLeft, Fits, OnBoard, OffBoard, Removed, HomeEnd, PerimeterLength
<1>4. Fits(position[pawn], k)
  BY <1>1, <1>3 DEF Fits
<1>5. /\ AdvancePosition(position[pawn], k) \in Positions
      /\ OnBoard(AdvancePosition(position[pawn], k))
  BY <1>1, <1>2, <1>4, AdvanceType
<1> QED
  BY <1>5, CellOnTheBoard, OwnColor DEF PathOf, PathCell

(* An event whose one entry fits the schema.                               *)
LEMMA EmittedOnce ==
  ASSUME NEW kind, NEW payload \in EventPayloads, kind \in events' => Entries(kind) = <<payload>>
  PROVE  Emitted(kind) \in Seq(EventPayloads)
<1>1. <<payload>> \in Seq(EventPayloads) /\ <<>> \in Seq(EventPayloads)
  OBVIOUS
<1> QED
  BY <1>1 DEF Emitted

(* An event that was not emitted has no entry.                             *)
LEMMA NotEmitted ==
  ASSUME NEW kind, kind \notin events'
  PROVE  Emitted(kind) \in Seq(EventPayloads)
BY DEF Emitted

(* The entries that name only the actor fit.                               *)
LEMMA PlayerPayloads ==
  ASSUME Actor \in Players
  PROVE  /\ Emitted("diceRolled") \in Seq(EventPayloads)
         /\ Emitted("playerSurrendered") \in Seq(EventPayloads)
         /\ Emitted("extraRollGranted") \in Seq(EventPayloads)
<1>1. ASSUME NEW kind \in {"diceRolled", "playerSurrendered"}
      PROVE  Emitted(kind) \in Seq(EventPayloads)
  <2>1. [type |-> kind, player |-> Actor] \in EventPayloads
    BY DEF EventPayloads, PlayerEventPayloads
  <2>2. Entries(kind) = <<[type |-> kind, player |-> Actor]>>
    BY DEF Entries
  <2> QED
    BY <2>1, <2>2, EmittedOnce
<1>2. ExtraRollGranted \in EventPayloads
  BY DEF ExtraRollGranted, EventPayloads, TurnEventPayloads
<1>3. Entries("extraRollGranted") = <<ExtraRollGranted>>
  BY DEF Entries
<1> QED
  BY <1>1, <1>2, <1>3, EmittedOnce

(* The entry of a handover fits when there is a next player,               *)
LEMMA TurnPayload ==
  ASSUME "turnChanged" \in events' => Actor \in Players /\ currentPlayer' \in Players
  PROVE  Emitted("turnChanged") \in Seq(EventPayloads)
<1>1. Entries("turnChanged") = <<TurnChanged>>
  BY DEF Entries
<1>2. CASE "turnChanged" \in events'
  <2>1. TurnChanged \in EventPayloads
    BY <1>2 DEF TurnChanged, EventPayloads, TurnEventPayloads
  <2> QED
    BY <1>1, <2>1, EmittedOnce
<1> QED
  BY <1>2, NotEmitted

(* and that of a victory when there are a winner and a reason.             *)
LEMMA WinPayload ==
  ASSUME "gameWon" \in events' =>
           winner' \in Players /\ winReason' \in {"HOME_DIAGONAL_COMPLETED", "LAST_ACTIVE_PLAYER"}
  PROVE  Emitted("gameWon") \in Seq(EventPayloads)
<1>1. Entries("gameWon") = <<GameWon>>
  BY DEF Entries
<1>2. CASE "gameWon" \in events'
  <2>1. GameWon \in EventPayloads
    BY <1>2 DEF GameWon, EventPayloads, TurnEventPayloads
  <2> QED
    BY <1>1, <2>1, EmittedOnce
<1> QED
  BY <1>2, NotEmitted

(* The pawn that entered stands on a cell.                                 *)
LEMMA EntryPayload ==
  ASSUME TurnInv, NEW pawn \in Pawns, EnterPawn(pawn)
  PROVE  Emitted("pawnEntered") \in Seq(EventPayloads)
<1>1. MovedPawn = pawn
  BY MovedPawnOfTurn
<1>2. position' \in [Pawns -> Positions] /\ OnBoard(position'[pawn])
  <2>1. TurnInv'
    BY NextKeepsTurnInv DEF Next
  <2> QED
    BY <2>1, EnterPlacement DEF TurnInv, TypeOK, OnBoard, Perimeter
<1>3. PawnCoordinate(position', pawn) \in BoardCoords
  BY <1>2, CoordinateOnBoard
<1>4. PawnEntered \in EventPayloads
  BY <1>1, <1>3 DEF PawnEntered, EventPayloads, PawnEventPayloads
<1>5. Entries("pawnEntered") = <<PawnEntered>>
  BY DEF Entries
<1> QED
  BY <1>4, <1>5, EmittedOnce

(* The events of a move.                                                   *)
LEMMA MoveEmits ==
  ASSUME NEW pawn \in Pawns, MovePawn(pawn)
  PROVE  LET target   == AdvancePosition(position[pawn], diceValue)
             captured == Capturable(pawn, PathOf(position, pawn, diceValue))
         IN  /\ "pawnCaptured" \in events' <=> captured # {}
             /\ "pawnEnteredHome" \in events' => target.zone = "HOME"
             /\ "pawnMoved" \in events'
             /\ events' \intersect {"diceRolled", "pawnEntered", "playerSurrendered"} = {}
BY DEF MovePawn, MoveEvents, Emit

(* The pawn that moved stood on a cell, and so is every cell of its path:  *)
(* the journal resolves them on the board before the move.                 *)
LEMMA MovePayload ==
  ASSUME TurnInv, NEW pawn \in Pawns, MovePawn(pawn)
  PROVE  /\ PhysicalPath[diceValue] \in BoardCoords
         /\ Emitted("pawnMoved") \in Seq(EventPayloads)
<1>1. MovedPawn = pawn
  BY MovedPawnOfTurn
<1>2. /\ diceValue \in 1 .. MaxDie /\ Fits(position[pawn], diceValue) /\ TypeOK
      /\ position \in [Pawns -> Positions] /\ OnBoard(position[pawn])
  BY MoveEffect DEF TurnInv, TypeOK, Fits
<1>3. diceValue \in Nat /\ diceValue \in 1 .. diceValue
  BY <1>2, BoardAssumption
<1>4. \A k \in 1 .. diceValue : PathOf(position, pawn, k) \in BoardCoords
  BY <1>2, PathOnBoard
<1>5. PhysicalPath \in Seq(BoardCoords) /\ PhysicalPath[diceValue] \in BoardCoords
  BY <1>1, <1>3, <1>4 DEF PhysicalPath
<1>6. PawnCoordinate(position, pawn) \in BoardCoords
  BY <1>2, CoordinateOnBoard
<1>7. PawnMoved \in EventPayloads
  BY <1>1, <1>5, <1>6 DEF PawnMoved, EventPayloads, PawnEventPayloads
<1>8. Entries("pawnMoved") = <<PawnMoved>>
  BY DEF Entries
<1> QED
  BY <1>5, <1>7, <1>8, EmittedOnce

(* The victim of a capture is the one pawn of another player that moves.   *)
LEMMA CapturePayload ==
  ASSUME TurnInv, NEW pawn \in Pawns, MovePawn(pawn)
  PROVE  Emitted("pawnCaptured") \in Seq(EventPayloads)
<1> DEFINE target   == AdvancePosition(position[pawn], diceValue)
           captured == Capturable(pawn, PathOf(position, pawn, diceValue))
           victim   == CHOOSE other \in captured : TRUE
<1>1. MovedPawn = pawn /\ Actor = currentPlayer /\ Owner(pawn) = currentPlayer
  BY MovedPawnOfTurn, ActorOfTurn
<1>2. "pawnCaptured" \in events' <=> captured # {}
  BY MoveEmits
<1>3. position' = PlacementAfterMove(pawn, target, captured)
  BY DEF MovePawn
<1>4. \A other \in captured : /\ other \in Pawns /\ Owner(other) # Owner(pawn)
                              /\ position[other].zone = "PERIMETER"
  BY DEF Capturable, Occupants
<1>5. captured # {} => victim \in captured
  OBVIOUS
<1> HIDE DEF target, captured, victim
<1>6. captured # {} => position'[victim] = OffBoard
  BY <1>3, <1>4, <1>5 DEF PlacementAfterMove, victim
<1>7. captured # {} => CapturedPawn \in Pawns
  BY <1>1, <1>4, <1>5, <1>6 DEF CapturedPawn, OffBoard
<1>8. CASE "pawnCaptured" \in events'
  <2>1. PawnCaptured \in EventPayloads
    BY <1>1, <1>2, <1>7, <1>8, MovePayload DEF PawnCaptured, EventPayloads, PawnEventPayloads
  <2>2. Entries("pawnCaptured") = <<PawnCaptured>>
    BY DEF Entries
  <2> QED
    BY <2>1, <2>2, EmittedOnce
<1> QED
  BY <1>8, NotEmitted

(* A pawn that entered its home diagonal stands on a cell before and       *)
(* after.                                                                  *)
LEMMA HomePayload ==
  ASSUME TurnInv, NEW pawn \in Pawns, MovePawn(pawn)
  PROVE  Emitted("pawnEnteredHome") \in Seq(EventPayloads)
<1> DEFINE target == AdvancePosition(position[pawn], diceValue)
<1>1. MovedPawn = pawn
  BY MovedPawnOfTurn
<1>2. /\ OnBoard(position[pawn]) /\ position \in [Pawns -> Positions]
      /\ position'[pawn] = target \/ InactiveCorner(target, Color(Owner(pawn)))
  BY MoveEffect DEF TurnInv, TypeOK, Fits
<1>3. position' \in [Pawns -> Positions]
  <2>1. TurnInv'
    BY NextKeepsTurnInv DEF Next
  <2> QED
    BY <2>1 DEF TurnInv, TypeOK
<1>4. CASE "pawnEnteredHome" \in events'
  <2>1. target.zone = "HOME"
    BY <1>4, MoveEmits
  <2>2. position'[pawn] = target
    BY <1>2, <2>1 DEF InactiveCorner
  <2> HIDE DEF target
  <2>3. position'[pawn].at \in 0 .. HomeEnd /\ OnBoard(position'[pawn])
    BY <1>3, <2>1, <2>2, PositionCases DEF OnBoard, OffBoard, Removed
  <2>4. /\ PawnCoordinate(position, pawn) \in BoardCoords
        /\ PawnCoordinate(position', pawn) \in BoardCoords
    BY <1>2, <1>3, <2>3, CoordinateOnBoard
  <2>5. PawnEnteredHome \in EventPayloads
    BY <1>1, <2>3, <2>4 DEF PawnEnteredHome, EventPayloads, PawnEventPayloads
  <2>6. Entries("pawnEnteredHome") = <<PawnEnteredHome>>
    BY DEF Entries
  <2> QED
    BY <2>5, <2>6, EmittedOnce
<1> QED
  BY <1>4, NotEmitted

(* The entries of the removed pawns fit.                                   *)
LEMMA RemovalPayloads ==
  ASSUME RemovedPawns \in Seq(Pawns)
  PROVE  Emitted("pawnRemoved") \in Seq(EventPayloads)
<1>1. \A pawn \in Pawns : PawnRemoved(pawn) \in EventPayloads
  BY DEF PawnRemoved, EventPayloads, PawnEventPayloads
<1>2. Len(RemovedPawns) \in Nat /\ \A i \in 1 .. Len(RemovedPawns) : RemovedPawns[i] \in Pawns
  OBVIOUS
<1>3. [i \in 1 .. Len(RemovedPawns) |-> PawnRemoved(RemovedPawns[i])] \in Seq(EventPayloads)
  BY <1>1, <1>2
<1>4. Entries("pawnRemoved") = [i \in 1 .. Len(RemovedPawns) |-> PawnRemoved(RemovedPawns[i])]
  BY DEF Entries
<1> QED
  BY <1>3, <1>4 DEF Emitted

(* The turn passes only in an active match, and a match that ends says so. *)
LEMMA HandoverEvents ==
  ASSUME TurnInv, Next
  PROVE  /\ TurnInv'
         /\ "turnChanged" \in events' => status' = "ACTIVE"
         /\ "gameWon" \in events' <=> status' = "FINISHED"
<1>0. TurnInv'
  BY NextKeepsTurnInv
<1>1. ASSUME NEW dice \in 1 .. MaxDie, RollDice(dice)
      PROVE  status' = "ACTIVE" /\ "gameWon" \notin events'
  BY <1>1 DEF RollDice, GrantExtraRoll, ChangeTurn, Stay, Emit
<1>2. ASSUME NEW pawn \in Pawns, EnterPawn(pawn)
      PROVE  status' = "ACTIVE" /\ "gameWon" \notin events'
  <2>1. status = "ACTIVE"
    BY <1>2 DEF EnterPawn
  <2>2. GrantExtraRoll /\ events' = {"pawnEntered", "extraRollGranted"}
    BY <1>2, EnterNeverWins
  <2>3. status' = status
    BY <2>2 DEF GrantExtraRoll, Stay
  <2> QED
    BY <2>1, <2>2, <2>3
<1>3. ASSUME NEW pawn \in Pawns, MovePawn(pawn)
      PROVE  /\ "turnChanged" \in events' => status' = "ACTIVE"
             /\ "gameWon" \in events' <=> status' = "FINISHED"
  <2>1. CASE IsWinningState(position', currentPlayer)
    <3>1. status' = "FINISHED"
      BY <1>3, <2>1 DEF MovePawn, ProjectTerminalState, Turn!Finish
    <3>2. "gameWon" \in events' /\ "turnChanged" \notin events'
      BY <1>3, <2>1 DEF MovePawn, MoveEvents, Emit
    <3> QED
      BY <3>1, <3>2
  <2>2. CASE ~ IsWinningState(position', currentPlayer)
    <3>1. status' = "ACTIVE"
      BY <1>3, <2>2 DEF MovePawn, GrantExtraRoll, ChangeTurn, Stay
    <3>2. "gameWon" \notin events'
      BY <1>3, <2>2 DEF MovePawn, MoveEvents, Emit
    <3> QED
      BY <3>1, <3>2
  <2> QED
    BY <2>1, <2>2
<1>4. ASSUME NEW player \in Players, Surrender(player)
      PROVE  /\ "turnChanged" \in events' => status' = "ACTIVE"
             /\ "gameWon" \in events' <=> status' = "FINISHED"
  BY <1>4 DEF Surrender, ProjectTerminalState, Turn!Finish, Emit
<1> QED
  BY <1>0, <1>1, <1>2, <1>3, <1>4 DEF Next

(* A match is finished by the diagonal of the current player, or by the    *)
(* last surrender.                                                         *)
LEMMA WonHow ==
  ASSUME TurnInv, Next, status' = "FINISHED"
  PROVE  /\ winner' \in Players
         /\ \/ /\ \E pawn \in Pawns : EnterPawn(pawn) \/ MovePawn(pawn)
               /\ winReason' = "HOME_DIAGONAL_COMPLETED" /\ winner' = currentPlayer
            \/ winReason' = "LAST_ACTIVE_PLAYER"
<1>1. winner' \in Players
  BY HandoverEvents DEF TurnInv, SnapshotShape
<1>2. ASSUME NEW pawn \in Pawns, EnterPawn(pawn) \/ MovePawn(pawn)
      PROVE  winReason' = "HOME_DIAGONAL_COMPLETED" /\ winner' = currentPlayer
  BY <1>2, ActionWins
<1>3. ASSUME NEW player \in Players, Surrender(player)
      PROVE  winReason' = "LAST_ACTIVE_PLAYER"
  BY <1>3 DEF Surrender, ProjectTerminalState
<1>4. ASSUME NEW dice \in 1 .. MaxDie, RollDice(dice) PROVE FALSE
  <2>1. "gameWon" \notin events'
    BY <1>4 DEF RollDice, Emit
  <2> QED
    BY <2>1, HandoverEvents
<1> QED
  BY <1>1, <1>2, <1>3, <1>4 DEF Next

(* So the entries of a handover and of a victory fit.                      *)
LEMMA HandoverPayloads ==
  ASSUME TurnInv, Next, Actor \in Players
  PROVE  /\ Emitted("turnChanged") \in Seq(EventPayloads)
         /\ Emitted("gameWon") \in Seq(EventPayloads)
<1>1. "turnChanged" \in events' => currentPlayer' \in Players
  BY HandoverEvents DEF TurnInv, SnapshotShape
<1>2. "gameWon" \in events' =>
        winner' \in Players /\ winReason' \in {"HOME_DIAGONAL_COMPLETED", "LAST_ACTIVE_PLAYER"}
  BY HandoverEvents, WonHow
<1> QED
  BY <1>1, <1>2, TurnPayload, WinPayload

(* The kinds of event that tell about pawns.                               *)
PawnKinds == {"pawnEntered", "pawnMoved", "pawnCaptured", "pawnEnteredHome", "pawnRemoved"}

(* Every command has an actor, its entries about pawns fit, and it emits   *)
(* something.                                                              *)
LEMMA PawnPayloadsFit ==
  ASSUME TurnInv, Next
  PROVE  /\ Actor \in Players
         /\ \A kind \in PawnKinds : Emitted(kind) \in Seq(EventPayloads)
         /\ \E kind \in {"diceRolled", "pawnEntered", "pawnMoved", "playerSurrendered"} :
              kind \in events'
<1>1. ASSUME NEW dice \in 1 .. MaxDie, RollDice(dice)
      PROVE  /\ \A kind \in PawnKinds : Emitted(kind) \in Seq(EventPayloads)
             /\ "diceRolled" \in events'
  <2>1. "diceRolled" \in events' /\ \A kind \in PawnKinds : kind \notin events'
    BY <1>1 DEF RollDice, Emit, PawnKinds
  <2> QED
    BY <2>1, NotEmitted
<1>2. ASSUME NEW pawn \in Pawns, EnterPawn(pawn)
      PROVE  /\ \A kind \in PawnKinds : Emitted(kind) \in Seq(EventPayloads)
             /\ "pawnEntered" \in events'
  <2>1. "pawnEntered" \in events' /\ \A kind \in PawnKinds \ {"pawnEntered"} : kind \notin events'
    BY <1>2 DEF EnterPawn, Emit, PawnKinds
  <2> QED
    BY <1>2, <2>1, NotEmitted, EntryPayload
<1>3. ASSUME NEW pawn \in Pawns, MovePawn(pawn)
      PROVE  /\ \A kind \in PawnKinds : Emitted(kind) \in Seq(EventPayloads)
             /\ "pawnMoved" \in events'
  <2>1. /\ "pawnMoved" \in events'
        /\ "pawnEntered" \notin events' /\ "playerSurrendered" \notin events'
    BY <1>3, MoveEmits
  <2>2. MovedPawn \in Pawns
    BY <1>3, MovedPawnOfTurn
  <2>3. RemovedPawns \in Seq(Pawns)
    BY <2>1, <2>2 DEF RemovedPawns
  <2> QED
    BY <1>3, <2>1, <2>3, NotEmitted, MovePayload, CapturePayload, HomePayload, RemovalPayloads
       DEF PawnKinds
<1>4. ASSUME NEW player \in Players, Surrender(player)
      PROVE  /\ Actor \in Players
             /\ \A kind \in PawnKinds : Emitted(kind) \in Seq(EventPayloads)
             /\ "playerSurrendered" \in events'
  <2>1. "playerSurrendered" \in events' /\ Actor = player
    BY <1>4, ActorOfSurrender
  <2>2. \A slot \in 1 .. PawnsPerPlayer : <<player, slot>> \in Pawns
    BY DEF Pawns
  <2>3. RemovedPawns \in Seq(Pawns)
    BY <2>1, <2>2, BoardAssumption DEF RemovedPawns
  <2>4. \A kind \in PawnKinds \ {"pawnRemoved"} : kind \notin events'
    BY <1>4 DEF Surrender, Emit, PawnKinds
  <2> QED
    BY <2>1, <2>3, <2>4, NotEmitted, RemovalPayloads
<1> QED
  BY <1>1, <1>2, <1>3, <1>4, ActorOfTurn DEF Next

(* Sequences of entries joined.                                            *)
LEMMA Joint ==
  ASSUME NEW S, NEW s \in Seq(S), NEW t \in Seq(S)
  PROVE  s \o t \in Seq(S) /\ (s # <<>> \/ t # <<>> => s \o t # <<>>)
<1>1. Len(s \o t) = Len(s) + Len(t) /\ Len(s) \in Nat /\ Len(t) \in Nat
  OBVIOUS
<1>2. (s # <<>> => Len(s) # 0) /\ (t # <<>> => Len(t) # 0)
  BY EmptySeq
<1> QED
  BY <1>1, <1>2, EmptySeq

(* What a command emits is a non-empty sequence of entries that fit, a     *)
(* victory last.                                                           *)
LEMMA PayloadsFit ==
  ASSUME TurnInv, Next
  PROVE  /\ Payloads \in Seq(EventPayloads) /\ Payloads # <<>>
         /\ \E head \in Seq(EventPayloads) : Payloads = head \o Emitted("gameWon")
<1>1. \A kind \in PawnKinds \union {"diceRolled", "playerSurrendered", "extraRollGranted",
                                    "turnChanged", "gameWon"} :
        Emitted(kind) \in Seq(EventPayloads)
  BY PawnPayloadsFit, PlayerPayloads, HandoverPayloads
<1>2. \E kind \in {"diceRolled", "pawnEntered", "pawnMoved", "playerSurrendered"} :
        Emitted(kind) # <<>>
  <2>1. PICK kind \in {"diceRolled", "pawnEntered", "pawnMoved", "playerSurrendered"} :
          kind \in events'
    BY PawnPayloadsFit
  <2>2. Entries(kind) # <<>>
    BY DEF Entries
  <2> QED
    BY <2>1, <2>2 DEF Emitted
<1> DEFINE entered   == Emitted("pawnEntered")
           moved     == Emitted("pawnMoved")
           captured  == Emitted("pawnCaptured")
           home      == Emitted("pawnEnteredHome")
           gone      == Emitted("playerSurrendered")
           removed   == Emitted("pawnRemoved")
<1>3. /\ PawnPayloads \in Seq(EventPayloads)
      /\ entered # <<>> \/ moved # <<>> \/ gone # <<>> => PawnPayloads # <<>>
  <2>1. /\ entered \o moved \in Seq(EventPayloads)
        /\ entered # <<>> \/ moved # <<>> => entered \o moved # <<>>
    BY <1>1, Joint DEF PawnKinds
  <2>2. /\ entered \o moved \o captured \in Seq(EventPayloads)
        /\ entered \o moved # <<>> => entered \o moved \o captured # <<>>
    BY <1>1, <2>1, Joint DEF PawnKinds
  <2>3. /\ entered \o moved \o captured \o home \in Seq(EventPayloads)
        /\ entered \o moved \o captured # <<>> => entered \o moved \o captured \o home # <<>>
    BY <1>1, <2>2, Joint DEF PawnKinds
  <2> DEFINE four == entered \o moved \o captured \o home
  <2>4. /\ four \o gone \in Seq(EventPayloads)
        /\ four # <<>> \/ gone # <<>> => four \o gone # <<>>
    BY <1>1, <2>3, Joint
  <2>5. /\ four \o gone \o removed \in Seq(EventPayloads)
        /\ four \o gone # <<>> => four \o gone \o removed # <<>>
    BY <1>1, <2>4, Joint DEF PawnKinds
  <2> QED
    BY <2>1, <2>2, <2>3, <2>4, <2>5 DEF PawnPayloads
<1> DEFINE first == Emitted("diceRolled") \o PawnPayloads
           extra == Emitted("extraRollGranted")
           turn  == Emitted("turnChanged")
           won   == Emitted("gameWon")
<1>4. /\ first \in Seq(EventPayloads)
      /\ Emitted("diceRolled") # <<>> \/ PawnPayloads # <<>> => first # <<>>
  BY <1>1, <1>3, Joint
<1>5. first # <<>>
  BY <1>2, <1>3, <1>4
<1>6. first \o extra \in Seq(EventPayloads) /\ first \o extra # <<>>
  BY <1>1, <1>4, <1>5, Joint
<1>7. first \o extra \o turn \in Seq(EventPayloads) /\ first \o extra \o turn # <<>>
  BY <1>1, <1>6, Joint
<1>8. first \o extra \o turn \o won \in Seq(EventPayloads) /\ first \o extra \o turn \o won # <<>>
  BY <1>1, <1>7, Joint
<1> QED
  BY <1>7, <1>8 DEF Payloads

(* The journal's sequence and the turns are numbers, beside the invariant  *)
(* of the turn.                                                            *)
JournalInv == TurnInv /\ lastSequence \in Nat /\ turnNumber \in Nat \ {0}

(* Turns are counted from one.                                             *)
LEMMA TurnsCounted ==
  ASSUME TurnInv, turnNumber \in Nat \ {0}, Next
  PROVE  turnNumber' \in Nat \ {0}
<1>1. turnNumber' = turnNumber \/ turnNumber' = turnNumber + 1
  <2>1. ASSUME NEW dice \in 1 .. MaxDie, RollDice(dice)
        PROVE  turnNumber' = turnNumber \/ turnNumber' = turnNumber + 1
    BY <2>1 DEF RollDice, GrantExtraRoll, ChangeTurn, HandOver
  <2>2. ASSUME NEW pawn \in Pawns, EnterPawn(pawn) PROVE turnNumber' = turnNumber
    BY <2>2 DEF EnterPawn, GrantExtraRoll
  <2>3. ASSUME NEW pawn \in Pawns, MovePawn(pawn)
        PROVE  turnNumber' = turnNumber \/ turnNumber' = turnNumber + 1
    BY <2>3 DEF MovePawn, GrantExtraRoll, ChangeTurn, HandOver
  <2>4. ASSUME NEW player \in Players, Surrender(player)
        PROVE  turnNumber' = turnNumber \/ turnNumber' = turnNumber + 1
    BY <2>4 DEF Surrender, HandOver
  <2> QED
    BY <2>1, <2>2, <2>3, <2>4 DEF Next
<1> QED
  BY <1>1

(* The parts of an envelope.                                               *)
LEMMA EnvelopeParts ==
  ASSUME NEW payload, NEW sequence
  PROVE  /\ Envelope(payload, sequence).payload = payload
         /\ Envelope(payload, sequence).sequence = sequence
         /\ Envelope(payload, sequence).stateVersion = stateVersion'
BY DEF Envelope

(* What a commit sends fits the schema of a transition and carries the     *)
(* payloads.                                                               *)
LEMMA CommitFits ==
  ASSUME JournalInv, JournalNext
  PROVE  /\ FitsTransitionSchema(transition')
         /\ transition'.fromSequence = lastSequence + 1
         /\ lastSequence' \in Nat
         /\ Len(transition'.events) = Len(Payloads)
         /\ \A i \in 1 .. Len(Payloads) : transition'.events[i].payload = Payloads[i]
<1> DEFINE n == Len(Payloads)
           sent == [i \in 1 .. n |-> Envelope(Payloads[i], lastSequence + i)]
<1>1. /\ Payloads \in Seq(EventPayloads) /\ Payloads # <<>>
      /\ lastSequence \in Nat
  BY PayloadsFit DEF JournalInv, JournalNext
<1>2. n \in Nat \ {0} /\ \A i \in 1 .. n : Payloads[i] \in EventPayloads
  BY <1>1, EmptySeq
<1>3. /\ lastSequence' = lastSequence + n
      /\ transition' = [stateVersion |-> stateVersion', fromSequence |-> lastSequence + 1,
                        toSequence |-> lastSequence + n, events |-> sent]
  BY DEF JournalNext, Commit
<1>4. Len(sent) = n /\ sent # <<>>
  <2>1. sent \in Seq({Envelope(Payloads[i], lastSequence + i) : i \in 1 .. n}) /\ Len(sent) = n
    BY <1>2
  <2> HIDE DEF sent, n
  <2> QED
    BY <1>2, <2>1, EmptySeq
<1>5. \A i \in 1 .. n : sent[i] = Envelope(Payloads[i], lastSequence + i)
  OBVIOUS
<1> HIDE DEF n, sent
<1>6. /\ transition'.events = sent /\ transition'.stateVersion = stateVersion'
      /\ transition'.fromSequence = lastSequence + 1
      /\ transition'.toSequence = lastSequence + n
  BY <1>3
<1>7. n = (lastSequence + n) - (lastSequence + 1) + 1
  BY <1>1, <1>2
<1>8. \A i \in 1 .. n :
        /\ sent[i].payload \in EventPayloads
        /\ sent[i].sequence = (lastSequence + 1) + i - 1
        /\ sent[i].stateVersion = stateVersion'
  <2> TAKE i \in 1 .. n
  <2>1. /\ sent[i].payload = Payloads[i] /\ sent[i].stateVersion = stateVersion'
        /\ sent[i].sequence = lastSequence + i
    BY <1>5, EnvelopeParts
  <2>2. lastSequence + i = (lastSequence + 1) + i - 1
    BY <1>1, <1>2
  <2> QED
    BY <1>2, <2>1, <2>2
<1>9. FitsTransitionSchema(transition')
  BY <1>4, <1>6, <1>7, <1>8 DEF FitsTransitionSchema
<1>10. \A i \in 1 .. n : sent[i].payload = Payloads[i]
  BY <1>5, EnvelopeParts
<1>11. lastSequence' \in Nat
  BY <1>1, <1>2, <1>3
<1> QED
  BY <1>4, <1>6, <1>9, <1>10, <1>11 DEF n

(* The journal starts at zero and every commit continues it.               *)
LEMMA JournalInvHolds == JournalSpec => []JournalInv
<1>1. JournalInit => JournalInv
  BY TurnInvInit DEF JournalInit, JournalInv, Init
<1>2. JournalInv /\ [JournalNext]_journalVars => JournalInv'
  <2> SUFFICES ASSUME JournalInv, [JournalNext]_journalVars
               PROVE  JournalInv'
    OBVIOUS
  <2>1. CASE JournalNext
    BY <2>1, NextKeepsTurnInv, TurnsCounted, CommitFits DEF JournalInv, JournalNext
  <2>2. CASE UNCHANGED journalVars
    <3>1. TurnInv'
      BY <2>2, StutterKeepsTurnInv DEF JournalInv, journalVars
    <3> QED
      BY <2>2, <3>1 DEF JournalInv, journalVars, vars
  <2> QED
    BY <2>1, <2>2
<1> QED
  BY <1>1, <1>2, PTL DEF JournalSpec

(* Whatever the board, every accepted command can be journalled - no entry *)
(* asks for the cell of a pawn that has none - and what is sent continues  *)
(* the journal without a gap and fits the schema of the page               *)
(* (realtime/event-journal.ts against shared/src/realtime.ts).             *)
THEOREM TransitionParsesHolds == JournalSpec => TransitionParses
<1> DEFINE Parses == /\ FitsTransitionSchema(transition')
                     /\ transition'.fromSequence = lastSequence + 1
                     /\ Snapshot' \in MatchSnapshots
<1>1. JournalInv /\ JournalInv' /\ [JournalNext]_journalVars => [Parses]_vars
  <2> SUFFICES ASSUME JournalInv, JournalInv', JournalNext
               PROVE  Parses
    BY DEF journalVars
  <2>1. /\ status' \in {"ACTIVE", "FINISHED", "ABANDONED"} /\ stateVersion' \in Nat
        /\ turnPhase' \in {"WAITING_FOR_ROLL", "WAITING_FOR_ACTION", "NONE"}
        /\ currentPlayer' \in Players \union {Nobody} /\ winner' \in Players \union {Nobody}
        /\ diceValue' \in 0 .. MaxDie /\ turnNumber' \in Nat \ {0}
        /\ winReason' \in {"HOME_DIAGONAL_COMPLETED", "LAST_ACTIVE_PLAYER", "NONE"}
        /\ playerStatus' \in [Players -> {"ACTIVE", "SURRENDERED", "FINISHED"}]
        /\ position' \in [Pawns -> Positions]
    BY DEF JournalInv, TurnInv, TypeOK
  <2>2. Snapshot' \in MatchSnapshots
    BY <2>1 DEF Snapshot, MatchSnapshots
  <2> QED
    BY <2>2, CommitFits
<1> QED
  BY <1>1, JournalInvHolds, PTL DEF JournalSpec, TransitionParses

-----------------------------------------------------------------------------
(* The result of a match (MatchResults).                                   *)

(* The last event of the command that ends a match is the victory.         *)
LEMMA VictoryToldLast ==
  ASSUME JournalInv, JournalNext, status' = "FINISHED"
  PROVE  transition'.events[Len(transition'.events)].payload = GameWon
<1>1. TurnInv /\ Next
  BY DEF JournalInv, JournalNext
<1>2. PICK head \in Seq(EventPayloads) : Payloads = head \o Emitted("gameWon")
  BY <1>1, PayloadsFit
<1>3. Emitted("gameWon") = <<GameWon>>
  BY <1>1, HandoverEvents DEF Emitted, Entries
<1>4. /\ Len(head \o <<GameWon>>) = Len(head) + 1 /\ Len(head) + 1 \in 1 .. (Len(head) + 1)
      /\ (head \o <<GameWon>>)[Len(head) + 1] = GameWon
  OBVIOUS
<1>5. Payloads[Len(Payloads)] = GameWon /\ Len(Payloads) \in 1 .. Len(Payloads)
  BY <1>2, <1>3, <1>4
<1> QED
  BY <1>5, CommitFits

(* The players are two, three or four.                                     *)
LEMMA PlayersCounted ==
  /\ IsFiniteSet(Players) /\ Cardinality(Players) = NumPlayers
  /\ NumPlayers \in 2 .. 4
BY FS_Interval, BoardAssumption DEF Players

(* A draft, from who has won, how, and what became of everybody.           *)
Draft(won, reason, outcome) ==
  [winnerUserId     |-> won,
   victoryReason    |-> reason,
   participantCount |-> Cardinality(Players),
   participants     |-> [p \in Players |-> [color |-> Color(p), outcome |-> outcome[p]]]]

(* The card of a result fits its schema: every participant has a face of   *)
(* its own.                                                                *)
LEMMA CardFits ==
  ASSUME NEW won, NEW reason \in VictoryReasons, NEW outcome \in [Players -> Outcomes],
         NEW p \in Players
  PROVE  FitsCardSchema(Card(Draft(won, reason, outcome), p))
<1> DEFINE result == Draft(won, reason, outcome)
           face   == [q \in Players |-> [userId |-> q, color |-> Color(q)]]
           faces  == {[userId |-> q, color |-> result.participants[q].color] :
                        q \in DOMAIN result.participants}
<1>1. /\ DOMAIN result.participants = Players
      /\ \A q \in Players : /\ result.participants[q].color = Color(q)
                            /\ result.participants[q].outcome = outcome[q]
      /\ result.participantCount = Cardinality(Players) /\ result.victoryReason = reason
  BY DEF Draft
<1> HIDE DEF result
<1>2. faces = {face[q] : q \in Players}
  BY <1>1
<1>3. face \in Bijection(Players, {face[q] : q \in Players})
  BY DEF Bijection, Injection, Surjection, IsInjective
<1>4. Cardinality(faces) = NumPlayers
  BY <1>2, <1>3, PlayersCounted, FS_Bijection DEF ExistsBijection
<1>5. \A participant \in faces : participant.color \in Colors
  BY <1>1, ColorType
<1>6. /\ Card(result, p).participantCount = Cardinality(Players)
      /\ Card(result, p).participants = faces
      /\ Card(result, p).victoryReason = reason
      /\ Card(result, p).currentUserOutcome = outcome[p]
  BY <1>1 DEF Card
<1> HIDE DEF faces
<1> QED
  BY <1>4, <1>5, <1>6, PlayersCounted DEF FitsCardSchema, result

(* A result counts as one game of every participant.                       *)
LEMMA OneGame ==
  ASSUME NEW won, NEW reason, NEW outcome \in [Players -> Outcomes], NEW p \in Players
  PROVE  Stats({Draft(won, reason, outcome)}, p).gamesPlayed = 1
<1> DEFINE result == Draft(won, reason, outcome)
<1>1. result.participants[p].outcome = outcome[p]
  BY DEF Draft
<1> HIDE DEF result
<1>2. \A o : Count({result}, p, o) = IF outcome[p] = o THEN 1 ELSE 0
  <2> TAKE o
  <2>1. {r \in {result} : r.participants[p].outcome = o} = IF outcome[p] = o THEN {result} ELSE {}
    BY <1>1
  <2> QED
    BY <2>1, FS_EmptySet, FS_Singleton DEF Count
<1>3. outcome[p] \in {"WIN", "LOSS", "SURRENDERED"}
  BY DEF Outcomes
<1>4. Stats({result}, p).gamesPlayed =
        Count({result}, p, "WIN")
          + (Count({result}, p, "LOSS") + Count({result}, p, "SURRENDERED"))
  BY DEF Stats
<1> QED
  BY <1>2, <1>3, <1>4 DEF result

(* What the command leaves of everybody.                                   *)
OutcomesLeft ==
  [p \in Players |-> IF p = winner' THEN "WIN"
                     ELSE IF HasSurrendered(p) THEN "SURRENDERED" ELSE "LOSS"]

(* The draft of the match that a command has ended.                        *)
LEMMA DraftOfMatch ==
  /\ OutcomesLeft \in [Players -> Outcomes]
  /\ MatchResultDraft(TerminalMatch) = Draft(winner', winReason', OutcomesLeft)
<1>1. \A p \in Players :
        DerivePlayerMatchOutcome(p, HasSurrendered(p), TerminalMatch.terminalResult)
          = OutcomesLeft[p]
  BY DEF DerivePlayerMatchOutcome, OutcomesLeft, TerminalMatch
<1>2. /\ TerminalMatch.terminalResult.winnerPlayerId = winner'
      /\ TerminalMatch.terminalResult.reason = winReason'
  BY DEF TerminalMatch
<1>3. OutcomesLeft \in [Players -> Outcomes]
  BY DEF OutcomesLeft, Outcomes
<1> QED
  BY <1>1, <1>2, <1>3 DEF MatchResultDraft, Draft

(* That draft tells the match: for a completed diagonal somebody else was  *)
(* still playing, and whoever left has no pawn.                            *)
LEMMA ResultTellsTheMatch ==
  ASSUME TurnInv, Next, status' = "FINISHED", RemovedWithOwner', FinishedExactlyWhenWon'
  PROVE  TellsTheMatch(Draft(winner', winReason', OutcomesLeft))
<1> DEFINE result == Draft(winner', winReason', OutcomesLeft)
<1>1. /\ \A p \in Players : result.participants[p].outcome = OutcomesLeft[p]
      /\ result.winnerUserId = winner' /\ result.victoryReason = winReason'
  BY DEF Draft
<1>2. /\ winner' \in Players /\ playerStatus'[winner'] = "FINISHED"
      /\ position' \in [Pawns -> Positions]
  BY HandoverEvents DEF TurnInv, TypeOK, SnapshotShape
<1> HIDE DEF result
<1>3. /\ Winners(result) = {winner'}
      /\ Leavers(result) = {p \in Players : playerStatus'[p] = "SURRENDERED"}
      /\ Losers(result) = {p \in Players : p # winner' /\ playerStatus'[p] # "SURRENDERED"}
  BY <1>1, <1>2 DEF Winners, Leavers, Losers, OutcomesLeft, HasSurrendered
<1>4. \A pawn \in Pawns : position'[pawn] = Removed <=> Owner(pawn) \in Leavers(result)
  <2> TAKE pawn \in Pawns
  <2>1. position'[pawn].zone = "REMOVED" <=> playerStatus'[Owner(pawn)] = "SURRENDERED"
    BY DEF RemovedWithOwner
  <2>2. position'[pawn].zone = "REMOVED" <=> position'[pawn] = Removed
    BY <1>2, PositionCases DEF Removed, OffBoard
  <2> QED
    BY <1>3, <2>1, <2>2, OwnerType
<1>5. winReason' = "LAST_ACTIVE_PLAYER" <=> Losers(result) = {}
  <2>1. CASE winReason' = "LAST_ACTIVE_PLAYER"
    BY <1>3, <2>1 DEF FinishedExactlyWhenWon
  <2>2. CASE winReason' # "LAST_ACTIVE_PLAYER"
    <3>1. PICK pawn \in Pawns : EnterPawn(pawn) \/ MovePawn(pawn)
      BY <2>2, WonHow
    <3>2. winner' = currentPlayer
      BY <2>2, WonHow
    <3>3. PICK other \in Players \ {currentPlayer} : playerStatus[other] = "ACTIVE"
      BY <3>1, ActionWins DEF TurnInv, SnapshotShape
    <3>4. playerStatus'[other] # "SURRENDERED"
      BY <3>1, <3>3, SurrenderedOnlyBySurrender DEF TurnInv
    <3> QED
      BY <1>3, <2>2, <3>2, <3>3, <3>4
  <2> QED
    BY <2>1, <2>2
<1>6. winReason' = "HOME_DIAGONAL_COMPLETED" => HomeDiagonalCompleted(position', winner')
  BY DEF FinishedExactlyWhenWon
<1> QED
  BY <1>1, <1>3, <1>4, <1>5, <1>6 DEF TellsTheMatch, result

(* Altogether, the step that ends a match.                                 *)
LEMMA TerminalStep ==
  ASSUME JournalInv, JournalNext, RemovedWithOwner', FinishedExactlyWhenWon', Recorded
  PROVE  ResultSound(TerminalMatch, MatchResultDraft(TerminalMatch))
<1> DEFINE result == MatchResultDraft(TerminalMatch)
<1>1. TurnInv /\ Next /\ status' = "FINISHED"
  BY DEF JournalInv, JournalNext, Recorded
<1>2. winner' \in Players /\ winReason' \in VictoryReasons
  BY <1>1, WonHow DEF VictoryReasons
<1>3. result = Draft(winner', winReason', OutcomesLeft) /\ OutcomesLeft \in [Players -> Outcomes]
  BY DraftOfMatch
<1>4. IsPersistableFinishedMatch(TerminalMatch) /\ ~ DraftThrows(TerminalMatch)
  BY <1>1, <1>2, BoardAssumption
     DEF IsPersistableFinishedMatch, DraftThrows, TerminalMatch, Players, Nobody, Turn!Nobody
<1>5. TellsTheMatch(result)
  BY <1>1, <1>3, ResultTellsTheMatch
<1>6. ToldToThePages(result)
  <2>1. result.winnerUserId = winner' /\ result.victoryReason = winReason'
    BY DEF MatchResultDraft, TerminalMatch
  <2> HIDE DEF result
  <2> QED
    BY <1>1, <2>1, VictoryToldLast DEF ToldToThePages, GameWon
<1>7. \A p \in Players : FitsCardSchema(Card(result, p)) /\ Stats({result}, p).gamesPlayed = 1
  BY <1>2, <1>3, CardFits, OneGame
<1> HIDE DEF result
<1> QED
  BY <1>4, <1>5, <1>6, <1>7 DEF ResultSound, result

(* The journal only listens to the engine.                                 *)
LEMMA JournalImplementsSpec == JournalSpec => Spec
<1>1. JournalInit => Init
  BY DEF JournalInit
<1>2. [JournalNext]_journalVars => [Next]_vars
  BY DEF JournalNext, journalVars
<1> QED
  BY <1>1, <1>2, PTL DEF JournalSpec, Spec

(* The command that ends a match among humans always leaves a result that  *)
(* can be stored, that tells the match as it was played and as the pages   *)
(* are told, and that every participant's profile shows and counts as one  *)
(* game.                                                                   *)
THEOREM ResultRecordedHolds == JournalSpec => ResultRecorded
<1> DEFINE Told == Recorded => ResultSound(TerminalMatch, MatchResultDraft(TerminalMatch))
<1>1. JournalInv /\ RemovedWithOwner' /\ FinishedExactlyWhenWon' /\ [JournalNext]_journalVars
        => [Told]_vars
  <2> SUFFICES ASSUME JournalInv, [JournalNext]_journalVars,
                      RemovedWithOwner', FinishedExactlyWhenWon'
               PROVE  [Told]_vars
    OBVIOUS
  <2>1. CASE JournalNext
    BY <2>1, TerminalStep
  <2>2. CASE UNCHANGED journalVars
    BY <2>2 DEF journalVars
  <2> QED
    BY <2>1, <2>2
<1> QED
  BY <1>1, JournalInvHolds, JournalImplementsSpec, RemovedWithOwnerHolds,
     FinishedExactlyWhenWonHolds, PTL DEF JournalSpec, ResultRecorded

-----------------------------------------------------------------------------
(* What the board shows while a transition is animated (MatchAnimation).   *)

(* A scene is what matters of a state: the cell each pawn is drawn on, if  *)
(* any, pawns of the snapshot that are hidden for sure, the player to move *)
(* and the winner.                                                         *)
Anchors == BoardCoords \union {NoVisual} \union {ReserveAnchor(pawn) : pawn \in Pawns}
             \union {RemovedAnchor(pawn) : pawn \in Pawns}

AnimationStates ==
  [visual : [Pawns -> Anchors], hidden : SUBSET Pawns, cue : BoardCoords \union {Nowhere},
   rolling : BOOLEAN, player : Players \union {Nobody}, victor : Players \union {Nobody},
   locked : BOOLEAN]

Layouts == [Pawns -> BoardCoords \union {Nowhere}]
CellOf(anchor) == IF anchor \in BoardCoords THEN anchor ELSE Nowhere

Scene(at, held, player, victor) ==
  {state \in AnimationStates :
     /\ held \subseteq state.hidden /\ state.player = player /\ state.victor = victor
     /\ \A pawn \in Pawns : CellsDrawn(state, pawn) = {at[pawn]} \ {Nowhere}}

(* Only a cell of the board is one.                                        *)
LEMMA OtherAnchors ==
  /\ Nowhere \notin BoardCoords
  /\ \A pawn \in Pawns : ReserveAnchor(pawn) \notin BoardCoords
                         /\ RemovedAnchor(pawn) \notin BoardCoords
<1>1. \A cell \in BoardCoords : cell.area \in {"RING", "DIAGONAL"}
  BY DEF BoardCoords, RingCell, HomeCell
<1> QED
  BY <1>1 DEF Nowhere, ReserveAnchor, RemovedAnchor

(* What is drawn of a pawn: the cell of the snapshot unless it is hidden,  *)
(* and the visual above it.                                                *)
LEMMA WhatIsDrawn ==
  ASSUME TypeOK, NEW state, NEW pawn \in Pawns
  PROVE  CellsDrawn(state, pawn) =
           (IF pawn \in state.hidden \/ ~ OnBoard(position[pawn]) THEN {}
                                                                ELSE {Cell(position, pawn)})
             \union ({state.visual[pawn]} \intersect BoardCoords)
<1>1. OnBoard(position[pawn]) => Cell(position, pawn) \in BoardCoords
  BY CoordinateOnBoard DEF TypeOK, PawnCoordinate
<1>2. /\ OnBoard(position[pawn]) => PlaceInSnapshot(pawn) = Cell(position, pawn)
      /\ ~ OnBoard(position[pawn]) => PlaceInSnapshot(pawn) \notin BoardCoords
  BY OtherAnchors DEF PlaceInSnapshot, ResolvedAnchor
<1> QED
  BY <1>1, <1>2, OtherAnchors DEF CellsDrawn, DrawnAt, NoVisual

(* It depends on the visual of the pawn and on whether it is hidden.       *)
LEMMA DrawnAlike ==
  ASSUME NEW state, NEW next, NEW pawn, next.visual[pawn] = state.visual[pawn],
         pawn \in next.hidden <=> pawn \in state.hidden
  PROVE  CellsDrawn(next, pawn) = CellsDrawn(state, pawn)
BY DEF CellsDrawn, DrawnAt

(* The parts of a state in which a pawn was shown or hidden.               *)
LEMMA ChangedParts ==
  ASSUME NEW state \in AnimationStates, NEW pawn \in Pawns, NEW anchor \in Anchors
  PROVE  /\ Show(state, pawn, anchor) \in AnimationStates
         /\ Show(state, pawn, anchor).visual = [state.visual EXCEPT ![pawn] = anchor]
         /\ Show(state, pawn, anchor).hidden = state.hidden
         /\ Show(state, pawn, anchor).player = state.player
         /\ Show(state, pawn, anchor).victor = state.victor
         /\ Hide(state, pawn) \in AnimationStates
         /\ Hide(state, pawn).visual = state.visual
         /\ Hide(state, pawn).hidden = state.hidden \union {pawn}
         /\ Hide(state, pawn).player = state.player
         /\ Hide(state, pawn).victor = state.victor
<1>1. [state.visual EXCEPT ![pawn] = anchor] \in [Pawns -> Anchors]
  BY DEF AnimationStates
<1> QED
  BY <1>1 DEF AnimationStates, Show, Hide

(* Changes that move no pawn.                                              *)
SamePawns(state, next) ==
  next \in AnimationStates /\ next.visual = state.visual /\ next.hidden = state.hidden

Unmoved(state, cell) ==
  {Cue(state, cell), Locked(state), Released(state),
   [state EXCEPT !.rolling = TRUE], [state EXCEPT !.rolling = FALSE]}

(* They keep what is drawn, and change the player or the winner if that    *)
(* is what they do.                                                        *)
LEMMA StillParts ==
  ASSUME NEW state \in AnimationStates, NEW cell \in BoardCoords \union {Nowhere},
         NEW who \in Players \union {Nobody}
  PROVE  /\ \A next \in Unmoved(state, cell) :
              SamePawns(state, next) /\ next.player = state.player /\ next.victor = state.victor
         /\ /\ SamePawns(state, Turned(state, who))
            /\ Turned(state, who).player = who /\ Turned(state, who).victor = state.victor
         /\ /\ SamePawns(state, Won(state, who))
            /\ Won(state, who).player = state.player /\ Won(state, who).victor = who
<1>1. ASSUME NEW next \in Unmoved(state, cell)
      PROVE  SamePawns(state, next) /\ next.player = state.player /\ next.victor = state.victor
  <2>1. CASE next = Cue(state, cell)
    BY <2>1 DEF SamePawns, AnimationStates, Cue
  <2>2. CASE next = Locked(state)
    BY <2>2 DEF SamePawns, AnimationStates, Locked
  <2>3. CASE next = Released(state)
    BY <2>3 DEF SamePawns, AnimationStates, Released
  <2>4. CASE next = [state EXCEPT !.rolling = TRUE]
    BY <2>4 DEF SamePawns, AnimationStates
  <2>5. CASE next = [state EXCEPT !.rolling = FALSE]
    BY <2>5 DEF SamePawns, AnimationStates
  <2> QED
    BY <1>1, <2>1, <2>2, <2>3, <2>4, <2>5 DEF Unmoved
<1>2. /\ SamePawns(state, Turned(state, who))
      /\ Turned(state, who).player = who /\ Turned(state, who).victor = state.victor
  BY DEF SamePawns, AnimationStates, Turned
<1>3. /\ SamePawns(state, Won(state, who))
      /\ Won(state, who).player = state.player /\ Won(state, who).victor = who
  BY DEF SamePawns, AnimationStates, Won
<1> QED
  BY <1>1, <1>2, <1>3

(* What is drawn after them is what was drawn before.                      *)
LEMMA StillScene ==
  ASSUME TypeOK, NEW at, NEW held, NEW player, NEW victor,
         NEW state \in Scene(at, held, player, victor), NEW next, SamePawns(state, next)
  PROVE  next \in Scene(at, held, next.player, next.victor)
<1>1. \A pawn \in Pawns : CellsDrawn(next, pawn) = CellsDrawn(state, pawn)
  BY WhatIsDrawn DEF SamePawns
<1> QED
  BY <1>1 DEF Scene, SamePawns

(* In a scene: all but two of them keep it, the two change what they       *)
(* name.                                                                   *)
LEMMA SceneStill ==
  ASSUME TypeOK, NEW at, NEW held, NEW player, NEW victor,
         NEW state \in Scene(at, held, player, victor),
         NEW cell \in BoardCoords \union {Nowhere}, NEW who \in Players \union {Nobody}
  PROVE  /\ \A next \in Unmoved(state, cell) :
              next \in Scene(at, held, player, victor)
         /\ Turned(state, who) \in Scene(at, held, who, victor)
         /\ Won(state, who) \in Scene(at, held, player, who)
<1>1. state \in AnimationStates /\ state.player = player /\ state.victor = victor
  BY DEF Scene
<1>2. /\ \A next \in Unmoved(state, cell) :
            SamePawns(state, next) /\ next.player = state.player /\ next.victor = state.victor
      /\ /\ SamePawns(state, Turned(state, who))
         /\ Turned(state, who).player = who /\ Turned(state, who).victor = state.victor
      /\ /\ SamePawns(state, Won(state, who))
         /\ Won(state, who).player = state.player /\ Won(state, who).victor = who
  BY <1>1, StillParts
<1>3. \A next : SamePawns(state, next) => next \in Scene(at, held, next.player, next.victor)
  BY StillScene
<1>4. \A next \in Unmoved(state, cell) : next \in Scene(at, held, player, victor)
  BY <1>1, <1>2, <1>3
<1>5. Turned(state, who) \in Scene(at, held, who, victor)
  BY <1>1, <1>2, <1>3
<1>6. Won(state, who) \in Scene(at, held, player, who)
  BY <1>1, <1>2, <1>3
<1> QED
  BY <1>4, <1>5, <1>6

(* A pawn that is shown is drawn where it is shown; in the snapshot it has *)
(* to be hidden or off the board.                                          *)
LEMMA SceneShow ==
  ASSUME TypeOK, NEW at \in Layouts, NEW held, NEW player, NEW victor,
         NEW state \in Scene(at, held, player, victor),
         NEW pawn \in Pawns, NEW anchor \in Anchors, pawn \in held \/ ~ OnBoard(position[pawn])
  PROVE  Show(state, pawn, anchor)
           \in Scene([at EXCEPT ![pawn] = CellOf(anchor)], held, player, victor)
<1> DEFINE next == Show(state, pawn, anchor)
           new  == [at EXCEPT ![pawn] = CellOf(anchor)]
<1>1. state \in AnimationStates /\ held \subseteq state.hidden
  BY DEF Scene
<1>2. /\ next \in AnimationStates /\ next.hidden = state.hidden
      /\ next.visual = [state.visual EXCEPT ![pawn] = anchor]
      /\ next.player = state.player /\ next.victor = state.victor
  BY <1>1, ChangedParts
<1>3. state.visual \in [Pawns -> Anchors]
  BY <1>1 DEF AnimationStates
<1> HIDE DEF next
<1>4. ASSUME NEW other \in Pawns
      PROVE  CellsDrawn(next, other) = {new[other]} \ {Nowhere}
  <2>1. CASE other = pawn
    <3>1. next.visual[other] = anchor /\ new[other] = CellOf(anchor)
      BY <1>2, <1>3, <2>1 DEF Layouts
    <3>2. CellsDrawn(next, other) = {anchor} \intersect BoardCoords
      BY <1>1, <1>2, <2>1, <3>1, WhatIsDrawn
    <3> QED
      BY <3>1, <3>2, OtherAnchors DEF CellOf
  <2>2. CASE other # pawn
    <3>1. next.visual[other] = state.visual[other] /\ new[other] = at[other]
      BY <1>2, <1>3, <2>2 DEF Layouts
    <3>2. CellsDrawn(next, other) = CellsDrawn(state, other)
      BY <1>2, <3>1, DrawnAlike
    <3> QED
      BY <3>1, <3>2 DEF Scene
  <2> QED
    BY <2>1, <2>2
<1> QED
  BY <1>2, <1>4 DEF Scene, next

(* A pawn that is lifted is hidden in the snapshot, so it may be           *)
(* anywhere.                                                               *)
LEMMA SceneLift ==
  ASSUME TypeOK, NEW at \in Layouts, NEW held, NEW player, NEW victor,
         NEW state \in Scene(at, held, player, victor), NEW pawn \in Pawns, NEW anchor \in Anchors
  PROVE  Lift(state, pawn, anchor)
           \in Scene([at EXCEPT ![pawn] = CellOf(anchor)], held \union {pawn}, player, victor)
<1> DEFINE next == Lift(state, pawn, anchor)
           new  == [at EXCEPT ![pawn] = CellOf(anchor)]
<1>1. state \in AnimationStates /\ held \subseteq state.hidden
  BY DEF Scene
<1>2. /\ next \in AnimationStates /\ next.hidden = state.hidden \union {pawn}
      /\ next.visual = [state.visual EXCEPT ![pawn] = anchor]
      /\ next.player = state.player /\ next.victor = state.victor
  <2> DEFINE hid == Hide(state, pawn)
  <2>1. /\ hid \in AnimationStates /\ hid.hidden = state.hidden \union {pawn}
        /\ hid.visual = state.visual /\ hid.player = state.player /\ hid.victor = state.victor
    BY <1>1, ChangedParts
  <2> HIDE DEF hid
  <2>2. next = Show(hid, pawn, anchor)
    BY DEF Lift, hid
  <2> HIDE DEF next
  <2> QED
    BY <2>1, <2>2, ChangedParts
<1>3. state.visual \in [Pawns -> Anchors]
  BY <1>1 DEF AnimationStates
<1> HIDE DEF next
<1>4. ASSUME NEW other \in Pawns
      PROVE  CellsDrawn(next, other) = {new[other]} \ {Nowhere}
  <2>1. CASE other = pawn
    <3>1. next.visual[other] = anchor /\ new[other] = CellOf(anchor)
      BY <1>2, <1>3, <2>1 DEF Layouts
    <3>2. CellsDrawn(next, other) = {anchor} \intersect BoardCoords
      BY <1>1, <1>2, <2>1, <3>1, WhatIsDrawn
    <3> QED
      BY <3>1, <3>2, OtherAnchors DEF CellOf
  <2>2. CASE other # pawn
    <3>1. next.visual[other] = state.visual[other] /\ new[other] = at[other]
      BY <1>2, <1>3, <2>2 DEF Layouts
    <3>2. CellsDrawn(next, other) = CellsDrawn(state, other)
      BY <1>2, <2>2, <3>1, DrawnAlike
    <3> QED
      BY <3>1, <3>2 DEF Scene
  <2> QED
    BY <2>1, <2>2
<1> QED
  BY <1>1, <1>2, <1>4 DEF Scene, next

(* A pawn whose visual is taken away is not drawn.                         *)
LEMMA SceneDrop ==
  ASSUME TypeOK, NEW at \in Layouts, NEW held, NEW player, NEW victor,
         NEW state \in Scene(at, held, player, victor), NEW pawn \in held, pawn \in Pawns
  PROVE  Drop(state, pawn) \in Scene([at EXCEPT ![pawn] = Nowhere], held, player, victor)
<1>1. NoVisual \in Anchors /\ CellOf(NoVisual) = Nowhere
  BY OtherAnchors DEF Anchors, CellOf, NoVisual
<1>2. Drop(state, pawn) = Show(state, pawn, NoVisual)
  BY DEF Drop, Show
<1> QED
  BY <1>1, <1>2, SceneShow

(* Pawns lifted to where they are drawn already.                           *)
LEMMA SceneLiftAll ==
  ASSUME TypeOK, NEW at \in Layouts, NEW held, NEW player, NEW victor,
         NEW state \in Scene(at, held, player, victor),
         NEW pawns \in SUBSET Pawns, NEW anchors \in [Pawns -> Anchors],
         \A pawn \in pawns : CellOf(anchors[pawn]) = at[pawn]
  PROVE  LiftAll(state, pawns, anchors) \in Scene(at, held, player, victor)
<1> DEFINE next   == LiftAll(state, pawns, anchors)
           visual == [pawn \in Pawns |-> IF pawn \in pawns THEN anchors[pawn]
                                                           ELSE state.visual[pawn]]
<1>1. /\ state \in AnimationStates /\ held \subseteq state.hidden
      /\ state.player = player /\ state.victor = victor
      /\ state.visual \in [Pawns -> Anchors] /\ state.hidden \subseteq Pawns
  BY DEF Scene, AnimationStates
<1>2. visual \in [Pawns -> Anchors]
  BY <1>1
<1>3. /\ next \in AnimationStates /\ next.hidden = state.hidden \union pawns
      /\ next.visual = visual /\ next.player = state.player /\ next.victor = state.victor
  <2> HIDE DEF visual
  <2>1. next = [state EXCEPT !.hidden = state.hidden \union pawns, !.visual = visual]
    BY <1>1 DEF LiftAll, AnimationStates, visual
  <2> HIDE DEF next
  <2> QED
    BY <1>1, <1>2, <2>1 DEF AnimationStates
<1>4. \A pawn \in Pawns : visual[pawn] = IF pawn \in pawns THEN anchors[pawn]
                                                          ELSE state.visual[pawn]
  OBVIOUS
<1> HIDE DEF next, visual
<1>5. ASSUME NEW pawn \in Pawns
      PROVE  CellsDrawn(next, pawn) = {at[pawn]} \ {Nowhere}
  <2>1. CASE pawn \in pawns
    <3>1. CellsDrawn(next, pawn) = {anchors[pawn]} \intersect BoardCoords
      BY <1>1, <1>3, <1>4, <2>1, WhatIsDrawn
    <3> QED
      BY <2>1, <3>1, OtherAnchors DEF CellOf
  <2>2. CASE pawn \notin pawns
    <3>1. CellsDrawn(next, pawn) = CellsDrawn(state, pawn)
      BY <1>3, <1>4, <2>2, DrawnAlike
    <3> QED
      BY <3>1 DEF Scene
  <2> QED
    BY <2>1, <2>2
<1> QED
  BY <1>1, <1>3, <1>5 DEF Scene, next

(* What a layout has to do to keep the pawns in sight.                     *)
Clear(at) ==
  /\ \A pawn \in Pawns :
       OnBoard(position[pawn]) /\ OnBoard(position'[pawn]) => at[pawn] # Nowhere
  /\ \A a, b \in Pawns :
       a # b /\ at[a] = at[b] /\ at[a] # Nowhere => Struck(a, b) \/ Struck(b, a)
  /\ "pawnCaptured" \in events' =>
       /\ MovedPawn \in Pawns /\ CapturedPawn \in Pawns
       /\ at[CapturedPawn] = Nowhere =>
            at[MovedPawn] = Cell(position', MovedPawn) /\ at[MovedPawn] # Nowhere

GoodStates == {state \in AnimationStates : InSight(state)}

(* Every state of a scene of such a layout is a good frame.                *)
LEMMA SceneInSight ==
  ASSUME NEW at, Clear(at), NEW held, NEW player, NEW victor,
         NEW state \in Scene(at, held, player, victor)
  PROVE  state \in GoodStates
<1>1. state \in AnimationStates
      /\ \A pawn \in Pawns : CellsDrawn(state, pawn) = {at[pawn]} \ {Nowhere}
  BY DEF Scene
<1>2. ASSUME NEW pawn \in Pawns
      PROVE  /\ \A c, d \in CellsDrawn(state, pawn) : c = d
             /\ OnBoard(position[pawn]) /\ OnBoard(position'[pawn])
                  => CellsDrawn(state, pawn) # {}
  BY <1>1 DEF Clear
<1>3. ASSUME NEW a \in Pawns, NEW b \in Pawns, a # b,
             CellsDrawn(state, a) \intersect CellsDrawn(state, b) # {}
      PROVE  Struck(a, b) \/ Struck(b, a)
  <2>1. at[a] = at[b] /\ at[a] # Nowhere
    BY <1>1, <1>3
  <2> QED
    BY <1>3, <2>1 DEF Clear
<1>4. ASSUME "pawnCaptured" \in events', CellsDrawn(state, CapturedPawn) = {}
      PROVE  CellsDrawn(state, MovedPawn) = {Cell(position', MovedPawn)}
  <2>1. MovedPawn \in Pawns /\ CapturedPawn \in Pawns
    BY <1>4 DEF Clear
  <2>2. at[CapturedPawn] = Nowhere
    BY <1>1, <1>4, <2>1
  <2>3. at[MovedPawn] = Cell(position', MovedPawn) /\ at[MovedPawn] # Nowhere
    BY <1>4, <2>2 DEF Clear
  <2> QED
    BY <1>1, <2>1, <2>3
<1>5. InSight(state)
  BY <1>2, <1>3, <1>4 DEF InSight
<1> QED
  BY <1>1, <1>5 DEF GoodStates

(* Entries lead from one set of states to another, with good frames only,  *)
(* when each leads from a stage to the next one.                           *)
Step(state, event, next) ==
  /\ Frames(state, event).shown \in Seq(GoodStates)
  /\ Frames(state, event).state \in next

Stages(stage, entries) ==
  \A k \in 1 .. Len(entries) : \A state \in stage[k - 1] : Step(state, entries[k], stage[k])

Leads(from, entries, to) ==
  \E stage \in [0 .. Len(entries) -> SUBSET AnimationStates] :
    stage[0] = from /\ stage[Len(entries)] = to /\ Stages(stage, entries)

(* No entry leads from a set of states to itself,                          *)
LEMMA LeadsNowhere ==
  ASSUME NEW from \in SUBSET AnimationStates
  PROVE  Leads(from, <<>>, from)
<1> DEFINE stage == [k \in 0 .. 0 |-> from]
<1>1. stage \in [0 .. Len(<<>>) -> SUBSET AnimationStates] /\ stage[0] = from
  OBVIOUS
<1>2. Stages(stage, <<>>)
  BY DEF Stages
<1> QED
  BY <1>1, <1>2 DEF Leads

(* one leads where its frames lead,                                        *)
LEMMA LeadsOnce ==
  ASSUME NEW from \in SUBSET AnimationStates, NEW to \in SUBSET AnimationStates, NEW event,
         \A state \in from : Step(state, event, to)
  PROVE  Leads(from, <<event>>, to)
<1> DEFINE stage == [k \in 0 .. 1 |-> IF k = 0 THEN from ELSE to]
<1>1. stage \in [0 .. Len(<<event>>) -> SUBSET AnimationStates] /\ stage[0] = from /\ stage[1] = to
  OBVIOUS
<1> HIDE DEF stage
<1>2. Stages(stage, <<event>>)
  BY <1>1 DEF Stages
<1> QED
  BY <1>1, <1>2 DEF Leads

(* and two sequences that meet lead on: their stages are put end to end.   *)
LEMMA LeadsOn ==
  ASSUME NEW from, NEW by, NEW to,
         NEW first \in Seq(EventPayloads), NEW second \in Seq(EventPayloads),
         Leads(from, first, by), Leads(by, second, to)
  PROVE  Leads(from, first \o second, to)
<1>1. PICK early \in [0 .. Len(first) -> SUBSET AnimationStates] :
        early[0] = from /\ early[Len(first)] = by /\ Stages(early, first)
  BY DEF Leads
<1>2. PICK late \in [0 .. Len(second) -> SUBSET AnimationStates] :
        late[0] = by /\ late[Len(second)] = to /\ Stages(late, second)
  BY DEF Leads
<1> DEFINE m     == Len(first)
           n     == Len(second)
           both  == first \o second
           stage == [k \in 0 .. (m + n) |-> IF k <= m THEN early[k] ELSE late[k - m]]
<1>3. /\ m \in Nat /\ n \in Nat /\ Len(both) = m + n
      /\ \A k \in 1 .. m : both[k] = first[k]
      /\ \A k \in (m + 1) .. (m + n) : both[k] = second[k - m]
  OBVIOUS
<1>4. \A k \in 0 .. (m + n) : /\ k <= m => stage[k] = early[k] /\ k \in 0 .. m
                              /\ k > m => stage[k] = late[k - m] /\ k - m \in 1 .. n
  BY <1>3
<1>5. /\ stage \in [0 .. (m + n) -> SUBSET AnimationStates]
      /\ stage[0] = from /\ stage[m + n] = to
  <2>1. stage \in [0 .. (m + n) -> SUBSET AnimationStates]
    BY <1>1, <1>2, <1>4
  <2>2. stage[0] = from
    BY <1>1, <1>3
  <2> HIDE DEF stage, m, n
  <2>3. CASE n = 0
    <3>1. m + n \in 0 .. (m + n) /\ m + n <= m /\ m + n = m
      BY <1>3, <2>3
    <3>2. stage[m + n] = early[m]
      BY <1>4, <3>1
    <3> QED
      <4>1. late[n] = to /\ late[0] = by /\ early[m] = by
        BY <1>1, <1>2 DEF m, n
      <4> QED
        BY <2>1, <2>2, <2>3, <3>2, <4>1
  <2>4. CASE n # 0
    <3>1. m + n \in 0 .. (m + n) /\ m + n > m /\ (m + n) - m = n
      BY <1>3, <2>4
    <3>2. stage[m + n] = late[n]
      BY <1>4, <3>1
    <3> QED
      BY <1>2, <2>1, <2>2, <3>2 DEF n
  <2> QED
    BY <2>1, <2>2, <2>3, <2>4
<1>6. stage[m] = late[0]
  BY <1>1, <1>2, <1>3
<1> HIDE DEF stage, both, m, n
<1>7. Stages(stage, both)
  <2> SUFFICES ASSUME NEW k \in 1 .. (m + n), NEW state \in stage[k - 1]
               PROVE  Step(state, both[k], stage[k])
    BY <1>3 DEF Stages
  <2>1. CASE k <= m
    <3>1. k \in 1 .. m /\ stage[k - 1] = early[k - 1] /\ stage[k] = early[k] /\ both[k] = first[k]
      BY <1>3, <1>4, <2>1
    <3>2. state \in early[k - 1]
      BY <3>1
    <3>3. Step(state, first[k], early[k])
      BY <1>1, <3>1, <3>2 DEF Stages, m
    <3> QED
      BY <3>1, <3>3
  <2>2. CASE k > m
    <3>1. /\ k - m \in 1 .. n /\ stage[k - 1] = late[(k - m) - 1]
          /\ stage[k] = late[k - m] /\ both[k] = second[k - m]
      <4>1. k - m \in 1 .. n /\ both[k] = second[k - m] /\ stage[k] = late[k - m]
        <5>1. k \in 0 .. (m + n) /\ k \in (m + 1) .. (m + n)
          BY <1>3, <2>2
        <5> QED
          BY <1>3, <1>4, <2>2, <5>1
      <4>2. CASE k - 1 = m
        <5>1. (k - m) - 1 = 0
          BY <1>3, <4>2
        <5> QED
          BY <1>6, <4>1, <4>2, <5>1
      <4>3. CASE k - 1 # m
        <5>1. k - 1 \in 0 .. (m + n) /\ k - 1 > m /\ (k - 1) - m = (k - m) - 1
          BY <1>3, <2>2, <4>3
        <5> QED
          BY <1>4, <4>1, <5>1
      <4> QED
        BY <4>1, <4>2, <4>3
    <3>2. state \in late[(k - m) - 1]
      BY <3>1
    <3>3. Step(state, second[k - m], late[k - m])
      <4>1. \A i \in 1 .. n : \A s \in late[i - 1] : Step(s, second[i], late[i])
        BY <1>2 DEF Stages, n
      <4> QED
        BY <3>1, <3>2, <4>1
    <3> QED
      BY <3>1, <3>3
  <2> QED
    BY <1>3, <2>1, <2>2
<1> QED
  BY <1>3, <1>5, <1>7 DEF Leads, both

(* The states a playback goes through, a function of the entries played.  *)
Unrolls(played, begin, sent) ==
  played = [k \in 0 .. Len(sent) |-> IF k = 0 THEN [shown |-> <<>>, state |-> begin]
                                              ELSE Continue(played[k - 1], sent[k].payload)]

Played(begin, sent) == CHOOSE played : Unrolls(played, begin, sent)

(* The value of a playback is the last of them.                            *)
LEMMA PlaybackIsPlayed ==
  ASSUME NEW begin, NEW sent
  PROVE  Playback(begin, sent) = Played(begin, sent)[Len(sent)]
BY DEF Playback, Played, Unrolls

Reached == [shown : Seq(GoodStates), state : AnimationStates]

(* One more entry that leads on adds good frames only.                     *)
LEMMA ContinueReaches ==
  ASSUME NEW played \in Reached, NEW event, NEW next \in SUBSET AnimationStates,
         Step(played.state, event, next)
  PROVE  Continue(played, event) \in Reached /\ Continue(played, event).state \in next
<1> DEFINE pushed == Frames(played.state, event)
<1>1. /\ pushed.shown \in Seq(GoodStates) /\ pushed.state \in next
      /\ pushed.state \in AnimationStates
  BY DEF Step
<1> HIDE DEF pushed
<1>2. played.shown \o pushed.shown \in Seq(GoodStates)
  BY <1>1, ConcatProperties DEF Reached
<1>3. Continue(played, event) = [shown |-> played.shown \o pushed.shown, state |-> pushed.state]
  BY DEF Continue, pushed
<1> QED
  BY <1>1, <1>2, <1>3 DEF Reached

(* The recursion of Playback has a solution: the shortest part of it that  *)
(* had none would be continued by one entry.                               *)
LEMMA PlaybackExists ==
  ASSUME NEW entries \in Seq(EventPayloads), NEW from, NEW to, Leads(from, entries, to),
         NEW begin \in from, NEW sent, Len(sent) = Len(entries),
         \A k \in 1 .. Len(entries) : sent[k].payload = entries[k]
  PROVE  \E played \in [0 .. Len(sent) -> Reached] :
           played[Len(sent)].state \in to /\ Unrolls(played, begin, sent)
<1> DEFINE n == Len(sent)
           Solves(played, m) ==
             /\ played[0] = [shown |-> <<>>, state |-> begin]
             /\ \A k \in 1 .. m : played[k] = Continue(played[k - 1], sent[k].payload)
<1>1. PICK stage \in [0 .. n -> SUBSET AnimationStates] :
        stage[0] = from /\ stage[n] = to /\ Stages(stage, entries)
  BY DEF Leads
<1>2. n \in Nat
  OBVIOUS
<1>3. \A k \in 1 .. n : \A state \in stage[k - 1] : Step(state, sent[k].payload, stage[k])
  BY <1>1 DEF Stages
<1> DEFINE Solved(m) ==
             \E played \in [0 .. m -> Reached] :
               Solves(played, m) /\ \A k \in 0 .. m : played[k].state \in stage[k]
           open == {m \in 0 .. n : ~ Solved(m)}
<1>4. Solved(0)
  <2> DEFINE played == [k \in 0 .. 0 |-> [shown |-> <<>>, state |-> begin]]
  <2>1. [shown |-> <<>>, state |-> begin] \in Reached
    BY <1>1, <1>2 DEF Reached
  <2>2. played \in [0 .. 0 -> Reached] /\ Solves(played, 0) /\ played[0].state \in stage[0]
    BY <1>1, <2>1
  <2> QED
    BY <2>2
<1>5. ASSUME NEW m \in 1 .. n, Solved(m - 1) PROVE Solved(m)
  <2>1. PICK before \in [0 .. (m - 1) -> Reached] :
          /\ Solves(before, m - 1)
          /\ \A k \in 0 .. (m - 1) : before[k].state \in stage[k]
    BY <1>5
  <2> DEFINE new    == Continue(before[m - 1], sent[m].payload)
             played == [k \in 0 .. m |-> IF k = m THEN new ELSE before[k]]
  <2>2. before[m - 1] \in Reached /\ before[m - 1].state \in stage[m - 1]
    BY <1>2, <2>1
  <2>3. new \in Reached /\ new.state \in stage[m]
    <3>1. /\ Step(before[m - 1].state, sent[m].payload, stage[m])
          /\ stage[m] \in SUBSET AnimationStates
      BY <1>1, <1>2, <1>3, <2>2
    <3> QED
      BY <2>2, <3>1, ContinueReaches
  <2> HIDE DEF new
  <2>4. /\ played \in [0 .. m -> Reached] /\ played[m] = new
        /\ \A k \in 0 .. (m - 1) : played[k] = before[k]
    BY <1>2, <2>1, <2>3
  <2> HIDE DEF played
  <2>5. Solves(played, m)
    <3>1. played[0] = [shown |-> <<>>, state |-> begin]
      BY <1>2, <2>1, <2>4
    <3>2. ASSUME NEW k \in 1 .. m PROVE played[k] = Continue(played[k - 1], sent[k].payload)
      <4>1. k - 1 \in 0 .. (m - 1) /\ played[k - 1] = before[k - 1]
        BY <1>2, <2>4
      <4>2. CASE k = m
        BY <2>4, <4>1, <4>2 DEF new
      <4>3. CASE k # m
        <5>1. k \in 1 .. (m - 1) /\ k \in 0 .. (m - 1)
          BY <1>2, <4>3
        <5> QED
          BY <2>1, <2>4, <4>1, <5>1
      <4> QED
        BY <4>2, <4>3
    <3> QED
      BY <3>1, <3>2
  <2>6. \A k \in 0 .. m : played[k].state \in stage[k]
    <3> TAKE k \in 0 .. m
    <3>1. k = m \/ k \in 0 .. (m - 1)
      BY <1>2
    <3> QED
      BY <2>1, <2>3, <2>4, <3>1
  <2> QED
    BY <2>4, <2>5, <2>6
<1> HIDE DEF Solved
<1>6. open = {}
  <2> SUFFICES ASSUME open # {} PROVE FALSE
    OBVIOUS
  <2>1. PICK m \in open : \A k \in open : ~ (<<k, m>> \in OpToRel(<, Nat))
    <3>1. open \subseteq Nat
      BY <1>2
    <3> HIDE DEF open
    <3> QED
      BY <3>1, NatLessThanWellFounded, WFMin
  <2>2. m \in 1 .. n /\ ~ Solved(m)
    BY <1>2, <1>4
  <2>3. m - 1 \in 0 .. n /\ <<m - 1, m>> \in OpToRel(<, Nat)
    BY <1>2, <2>2 DEF OpToRel
  <2>4. Solved(m - 1)
    BY <2>1, <2>3
  <2> QED
    BY <1>5, <2>2, <2>4
<1>7. Solved(n)
  BY <1>2, <1>6
<1>8. PICK played \in [0 .. n -> Reached] :
        Solves(played, n) /\ \A k \in 0 .. n : played[k].state \in stage[k]
  BY <1>7 DEF Solved
<1>9. played[n].state \in to
  BY <1>1, <1>2, <1>8
<1>10. Unrolls(played, begin, sent)
  BY <1>2, <1>8 DEF Unrolls
<1> QED
  BY <1>9, <1>10

(* There is only one.                                                      *)
LEMMA PlayedAlike ==
  ASSUME NEW begin, NEW sent, Len(sent) \in Nat, NEW one, NEW other,
         Unrolls(one, begin, sent), Unrolls(other, begin, sent)
  PROVE  one[Len(sent)] = other[Len(sent)]
<1> DEFINE n    == Len(sent)
           open == {m \in 0 .. n : one[m] # other[m]}
<1>1. one[0] = other[0]
  BY DEF Unrolls
<1>2. ASSUME NEW m \in 1 .. n, one[m - 1] = other[m - 1] PROVE one[m] = other[m]
  <2>1. m \in 0 .. n /\ m # 0
    OBVIOUS
  <2>2. one[m] = Continue(one[m - 1], sent[m].payload)
    BY <2>1 DEF Unrolls
  <2>3. other[m] = Continue(other[m - 1], sent[m].payload)
    BY <2>1 DEF Unrolls
  <2> QED
    BY <1>2, <2>2, <2>3
<1>3. open = {}
  <2> SUFFICES ASSUME open # {} PROVE FALSE
    OBVIOUS
  <2>1. PICK m \in open : \A k \in open : ~ (<<k, m>> \in OpToRel(<, Nat))
    <3>1. open \subseteq Nat
      OBVIOUS
    <3> HIDE DEF open
    <3> QED
      BY <3>1, NatLessThanWellFounded, WFMin
  <2>2. m \in 1 .. n /\ one[m] # other[m]
    BY <1>1
  <2>3. m - 1 \in 0 .. n /\ <<m - 1, m>> \in OpToRel(<, Nat)
    BY <2>2 DEF OpToRel
  <2>4. one[m - 1] = other[m - 1]
    BY <2>1, <2>3
  <2> QED
    BY <1>2, <2>2, <2>4
<1> QED
  BY <1>3

(* So a playback of entries that lead to some states ends in one of them,  *)
(* and has shown good frames only.                                         *)
LEMMA PlaybackLeads ==
  ASSUME NEW entries \in Seq(EventPayloads), NEW from, NEW to, Leads(from, entries, to),
         NEW begin \in from, NEW sent, Len(sent) = Len(entries),
         \A k \in 1 .. Len(entries) : sent[k].payload = entries[k]
  PROVE  Playback(begin, sent) \in Reached /\ Playback(begin, sent).state \in to
<1>1. PICK played \in [0 .. Len(sent) -> Reached] :
        played[Len(sent)].state \in to /\ Unrolls(played, begin, sent)
  BY PlaybackExists
<1> DEFINE chosen == Played(begin, sent)
<1>2. Unrolls(chosen, begin, sent)
  BY <1>1 DEF Played
<1> HIDE DEF chosen
<1>3. chosen[Len(sent)] = played[Len(sent)]
  BY <1>1, <1>2, PlayedAlike
<1> QED
  BY <1>1, <1>3, PlaybackIsPlayed DEF chosen

(* What is pushed, and the state that is left.                             *)
LEMMA PushedOnce ==
  ASSUME NEW S, NEW a \in S
  PROVE  Pushed(<<a>>).shown \in Seq(S) /\ Pushed(<<a>>).state = a
<1>1. <<a>> \in Seq(S) /\ Len(<<a>>) = 1 /\ <<a>>[1] = a
  OBVIOUS
<1> DEFINE shown == <<a>>
<1> HIDE DEF shown
<1>2. Pushed(shown).shown = shown /\ Pushed(shown).state = shown[Len(shown)]
  BY DEF Pushed
<1> QED
  BY <1>1, <1>2 DEF shown

(* Two frames,                                                             *)
LEMMA PushedTwice ==
  ASSUME NEW S, NEW a \in S, NEW b \in S
  PROVE  Pushed(<<a, b>>).shown \in Seq(S) /\ Pushed(<<a, b>>).state = b
<1> DEFINE two == <<a, b>>
<1>1. two \in Seq(S) /\ Len(two) = 2 /\ two[2] = b
  OBVIOUS
<1> HIDE DEF two
<1>2. Pushed(two).shown = two /\ Pushed(two).state = two[Len(two)]
  BY DEF Pushed
<1> QED
  BY <1>1, <1>2 DEF two

(* two more at the end,                                                    *)
LEMMA PushedLast ==
  ASSUME NEW S, NEW a \in S, NEW b \in S, NEW early \in Seq(S)
  PROVE  /\ Pushed(early \o <<a, b>>).shown \in Seq(S)
         /\ Pushed(early \o <<a, b>>).state = b
<1> DEFINE more == early \o <<a, b>>
<1>1. more \in Seq(S) /\ Len(more) = Len(early) + 2 /\ more[Len(early) + 2] = b
  OBVIOUS
<1> HIDE DEF more
<1>2. Pushed(more).shown = more /\ Pushed(more).state = more[Len(more)]
  BY DEF Pushed
<1> QED
  BY <1>1, <1>2 DEF more

(* and a path after a first one.                                           *)
LEMMA PushedPath ==
  ASSUME NEW S, NEW a \in S, NEW path \in Seq(S), path # <<>>
  PROVE  /\ Pushed(<<a>> \o path).shown \in Seq(S)
         /\ Pushed(<<a>> \o path).state = path[Len(path)]
<1> DEFINE all == <<a>> \o path
<1>1. Len(path) \in Nat \ {0}
  BY EmptySeq
<1>2. all \in Seq(S) /\ Len(all) = 1 + Len(path) /\ all[1 + Len(path)] = path[Len(path)]
  BY <1>1
<1> HIDE DEF all
<1>3. Pushed(all).shown = all /\ Pushed(all).state = all[Len(all)]
  BY DEF Pushed
<1> QED
  BY <1>2, <1>3 DEF all

(* The layouts of the two snapshots.                                       *)
OldLayout == [pawn \in Pawns |-> PawnCoordinate(position, pawn)]
NewLayout == [pawn \in Pawns |-> PawnCoordinate(position', pawn)]

(* A pawn on the board is on its cell, any other nowhere, and no two       *)
(* share a cell.                                                           *)
LEMMA SnapshotLayouts ==
  ASSUME TypeOK, TypeOK', UniqueOccupancy, UniqueOccupancy'
  PROVE  /\ OldLayout \in Layouts /\ NewLayout \in Layouts
         /\ \A pawn \in Pawns :
              /\ OnBoard(position[pawn]) => /\ OldLayout[pawn] = Cell(position, pawn)
                                            /\ OldLayout[pawn] \in BoardCoords
              /\ ~ OnBoard(position[pawn]) => OldLayout[pawn] = Nowhere
              /\ OnBoard(position'[pawn]) => /\ NewLayout[pawn] = Cell(position', pawn)
                                             /\ NewLayout[pawn] \in BoardCoords
              /\ ~ OnBoard(position'[pawn]) => NewLayout[pawn] = Nowhere
         /\ \A a, b \in Pawns : /\ a # b /\ OldLayout[a] = OldLayout[b] => OldLayout[a] = Nowhere
                                /\ a # b /\ NewLayout[a] = NewLayout[b] => NewLayout[a] = Nowhere
<1>1. position \in [Pawns -> Positions] /\ position' \in [Pawns -> Positions]
  BY DEF TypeOK
<1>2. ASSUME NEW pawn \in Pawns
      PROVE  /\ OnBoard(position[pawn]) => /\ OldLayout[pawn] = Cell(position, pawn)
                                           /\ OldLayout[pawn] \in BoardCoords
             /\ ~ OnBoard(position[pawn]) => OldLayout[pawn] = Nowhere
  BY <1>1, CoordinateOnBoard DEF OldLayout, PawnCoordinate
<1>3. ASSUME NEW pawn \in Pawns
      PROVE  /\ OnBoard(position'[pawn]) => /\ NewLayout[pawn] = Cell(position', pawn)
                                            /\ NewLayout[pawn] \in BoardCoords
             /\ ~ OnBoard(position'[pawn]) => NewLayout[pawn] = Nowhere
  BY <1>1, CoordinateOnBoard DEF NewLayout, PawnCoordinate
<1>4. OldLayout \in Layouts /\ NewLayout \in Layouts
  <2>1. \A pawn \in Pawns : /\ OldLayout[pawn] \in BoardCoords \union {Nowhere}
                            /\ NewLayout[pawn] \in BoardCoords \union {Nowhere}
    BY <1>2, <1>3
  <2> QED
    BY <2>1 DEF OldLayout, NewLayout, Layouts
<1>5. ASSUME NEW a \in Pawns, NEW b \in Pawns, a # b
      PROVE  /\ OldLayout[a] = OldLayout[b] => OldLayout[a] = Nowhere
             /\ NewLayout[a] = NewLayout[b] => NewLayout[a] = Nowhere
  BY <1>2, <1>3, <1>5 DEF UniqueOccupancy
<1> QED
  BY <1>2, <1>3, <1>4, <1>5

(* A scene is a set of states.                                             *)
LEMMA SceneTyped ==
  ASSUME NEW at, NEW held, NEW player, NEW victor
  PROVE  Scene(at, held, player, victor) \in SUBSET AnimationStates
BY DEF Scene

(* One entry, or none.                                                     *)
LEMMA EmittedLeads ==
  ASSUME NEW kind, NEW payload, NEW from \in SUBSET AnimationStates,
         NEW to \in SUBSET AnimationStates,
         kind \in events' => /\ Entries(kind) = <<payload>>
                             /\ \A state \in from : Step(state, payload, to),
         kind \notin events' => to = from
  PROVE  Leads(from, Emitted(kind), to)
<1>1. CASE kind \in events'
  <2>1. Emitted(kind) = <<payload>>
    BY <1>1 DEF Emitted
  <2> QED
    BY <1>1, <2>1, LeadsOnce
<1>2. CASE kind \notin events'
  <2>1. Emitted(kind) = <<>>
    BY <1>2 DEF Emitted
  <2> QED
    BY <1>2, <2>1, LeadsNowhere
<1> QED
  BY <1>1, <1>2

(* Entries that move no pawn: a throw, the next player and a surrender.    *)
LEMMA StillEntry ==
  ASSUME TypeOK, NEW at, Clear(at), NEW held, NEW player, NEW victor,
         NEW state \in Scene(at, held, player, victor), NEW event, NEW who \in Players
  PROVE  /\ event.type = "diceRolled" => Step(state, event, Scene(at, held, player, victor))
         /\ event.type = "playerSurrendered" => Step(state, event, Scene(at, held, player, victor))
         /\ event.type = "extraRollGranted" /\ event.player = who
              => Step(state, event, Scene(at, held, who, victor))
         /\ event.type = "turnChanged" /\ event.to = who
              => Step(state, event, Scene(at, held, who, victor))
<1> DEFINE rolling == [state EXCEPT !.rolling = TRUE]
           rolled  == [state EXCEPT !.rolling = FALSE]
           turned  == Turned(state, who)
<1>1. /\ rolling \in Scene(at, held, player, victor) /\ rolled \in Scene(at, held, player, victor)
      /\ turned \in Scene(at, held, who, victor)
  BY SceneStill DEF Unmoved
<1>2. rolling \in GoodStates /\ rolled \in GoodStates /\ turned \in GoodStates
  BY <1>1, SceneInSight
<1>3. RollFrames(state) = Pushed(<<rolling, rolled>>) /\ TurnFrames(state, who) = Pushed(<<turned>>)
  BY DEF RollFrames, TurnFrames
<1> HIDE DEF rolling, rolled, turned
<1>4. /\ RollFrames(state).shown \in Seq(GoodStates) /\ RollFrames(state).state = rolled
      /\ TurnFrames(state, who).shown \in Seq(GoodStates) /\ TurnFrames(state, who).state = turned
  BY <1>2, <1>3, PushedOnce, PushedTwice
<1>5. CASE event.type = "diceRolled"
  <2>1. Frames(state, event) = RollFrames(state)
    BY <1>5 DEF Frames
  <2> QED
    BY <1>1, <1>4, <1>5, <2>1 DEF Step
<1>6. CASE event.type = "playerSurrendered"
  <2>1. Frames(state, event) = [shown |-> <<>>, state |-> state]
    BY <1>6 DEF Frames
  <2>2. <<>> \in Seq(GoodStates)
    OBVIOUS
  <2> QED
    BY <1>6, <2>1, <2>2 DEF Step
<1>7. CASE event.type = "extraRollGranted" /\ event.player = who
  <2>1. Frames(state, event) = TurnFrames(state, who)
    BY <1>7 DEF Frames
  <2> QED
    BY <1>1, <1>4, <1>7, <2>1 DEF Step
<1>8. CASE event.type = "turnChanged" /\ event.to = who
  <2>1. Frames(state, event) = TurnFrames(state, who)
    BY <1>8 DEF Frames
  <2> QED
    BY <1>1, <1>4, <1>8, <2>1 DEF Step
<1> QED
  BY <1>5, <1>6, <1>7, <1>8

(* The pawns of a completed home diagonal are lit where they stand.        *)
LEMMA PulsesStay ==
  ASSUME TypeOK, TypeOK', UniqueOccupancy, UniqueOccupancy', NEW held, NEW player, NEW victor,
         NEW state \in Scene(NewLayout, held, player, victor), NEW who \in Players
  PROVE  /\ Len(HomeCompletion(state, who)) = PawnsPerPlayer
         /\ HomeCompletion(state, who) \in Seq(Scene(NewLayout, held, player, victor))
<1> DEFINE Lit(k)  == {pawn \in HomePawns(position', who) : position'[pawn].at < k}
           anchors == [pawn \in Pawns |-> ResolvedAnchor(position', pawn, ReserveAnchor(pawn))]
           pulses  == [k \in 1 .. PawnsPerPlayer |-> LiftAll(state, Lit(k), anchors)]
<1>1. ASSUME NEW pawn \in Pawns
      PROVE  /\ anchors[pawn] \in Anchors
             /\ OnBoard(position'[pawn]) => CellOf(anchors[pawn]) = NewLayout[pawn]
  BY SnapshotLayouts DEF ResolvedAnchor, Anchors, CellOf
<1>2. anchors \in [Pawns -> Anchors]
  BY <1>1
<1>3. ASSUME NEW k \in 1 .. PawnsPerPlayer
      PROVE  Lit(k) \in SUBSET Pawns /\ \A pawn \in Lit(k) : CellOf(anchors[pawn]) = NewLayout[pawn]
  BY <1>1 DEF HomePawns, OnBoard
<1>4. HomeCompletion(state, who) = pulses
  BY DEF HomeCompletion
<1> HIDE DEF anchors, Lit
<1>5. \A k \in 1 .. PawnsPerPlayer :
        LiftAll(state, Lit(k), anchors) \in Scene(NewLayout, held, player, victor)
  BY <1>2, <1>3, SnapshotLayouts, SceneLiftAll
<1>6. PawnsPerPlayer \in Nat
  BY BoardAssumption
<1>7. /\ pulses \in Seq(Scene(NewLayout, held, player, victor))
      /\ Len(pulses) = PawnsPerPlayer
  BY <1>5, <1>6
<1> QED
  BY <1>4, <1>7

(* A victory moves no pawn either.                                         *)
LEMMA WinEntry ==
  ASSUME TypeOK, TypeOK', UniqueOccupancy, UniqueOccupancy', Clear(NewLayout),
         NEW held, NEW player, NEW victor,
         NEW state \in Scene(NewLayout, held, player, victor),
         NEW event, event.type = "gameWon", event.winner \in Players
  PROVE  Step(state, event, Scene(NewLayout, held, player, event.winner))
<1> DEFINE S      == Scene(NewLayout, held, player, victor)
           pulses == IF event.reason = "HOME_DIAGONAL_COMPLETED"
                     THEN HomeCompletion(state, event.winner) ELSE <<>>
           last   == IF pulses = <<>> THEN state ELSE pulses[Len(pulses)]
           won    == Won(last, event.winner)
<1>1. pulses \in Seq(S)
  BY PulsesStay
<1>2. Frames(state, event) = Pushed(pulses \o <<last, won>>)
  <2>1. Frames(state, event) = WinFrames(state, event)
    BY DEF Frames
  <2>2. WinFrames(state, event) = Pushed(pulses \o <<last, won>>)
    BY DEF WinFrames
  <2> QED
    BY <2>1, <2>2
<1> HIDE DEF pulses
<1>3. last \in S
  <2>1. pulses # <<>> => Len(pulses) \in 1 .. Len(pulses)
    BY <1>1, EmptySeq
  <2> QED
    BY <1>1, <2>1
<1> HIDE DEF last
<1>4. won \in Scene(NewLayout, held, player, event.winner)
  BY <1>3, SceneStill
<1> HIDE DEF won
<1>5. S \subseteq GoodStates /\ last \in GoodStates /\ won \in GoodStates
  BY <1>3, <1>4, SceneInSight
<1>6. pulses \in Seq(GoodStates)
  BY <1>1, <1>5
<1>7. /\ Pushed(pulses \o <<last, won>>).shown \in Seq(GoodStates)
      /\ Pushed(pulses \o <<last, won>>).state = won
  BY <1>5, <1>6, PushedLast
<1> QED
  BY <1>2, <1>4, <1>7 DEF Step

(* The handover after the entries about pawns.                             *)
PlayerShown == IF "turnChanged" \in events' THEN currentPlayer' ELSE currentPlayer

(* They show the next player, and the winner if there is one.              *)
LEMMA HandoverLeads ==
  ASSUME TurnInv, Next, UniqueOccupancy, UniqueOccupancy', Clear(NewLayout), NEW held,
         Actor \in Players, "extraRollGranted" \in events' => Actor = currentPlayer
  PROVE  /\ Leads(Scene(NewLayout, held, currentPlayer, Nobody), Emitted("extraRollGranted"),
                  Scene(NewLayout, held, currentPlayer, Nobody))
         /\ Leads(Scene(NewLayout, held, currentPlayer, Nobody), Emitted("turnChanged"),
                  Scene(NewLayout, held, PlayerShown, Nobody))
         /\ Leads(Scene(NewLayout, held, PlayerShown, Nobody), Emitted("gameWon"),
                  Scene(NewLayout, held, PlayerShown, winner'))
<1>1. TypeOK /\ TypeOK' /\ TurnInv'
  BY HandoverEvents DEF TurnInv
<1> DEFINE Now   == Scene(NewLayout, held, currentPlayer, Nobody)
           Then  == Scene(NewLayout, held, PlayerShown, Nobody)
           After == Scene(NewLayout, held, PlayerShown, winner')
<1>2. /\ Now \in SUBSET AnimationStates /\ Then \in SUBSET AnimationStates
      /\ After \in SUBSET AnimationStates
  BY SceneTyped
<1>3. Leads(Now, Emitted("extraRollGranted"), Now)
  <2>1. "extraRollGranted" \in events' =>
          /\ Entries("extraRollGranted") = <<ExtraRollGranted>>
          /\ \A state \in Now : Step(state, ExtraRollGranted, Now)
    <3> SUFFICES ASSUME "extraRollGranted" \in events'
                 PROVE  /\ Entries("extraRollGranted") = <<ExtraRollGranted>>
                        /\ \A state \in Now : Step(state, ExtraRollGranted, Now)
      OBVIOUS
    <3>1. ExtraRollGranted.type = "extraRollGranted" /\ ExtraRollGranted.player = currentPlayer
      BY DEF ExtraRollGranted
    <3>2. Entries("extraRollGranted") = <<ExtraRollGranted>>
      BY DEF Entries
    <3> QED
      BY <1>1, <3>1, <3>2, StillEntry
  <2> HIDE DEF Now
  <2> QED
    BY <1>2, <2>1, EmittedLeads
<1>4. Leads(Now, Emitted("turnChanged"), Then)
  <2>1. "turnChanged" \in events' =>
          /\ Entries("turnChanged") = <<TurnChanged>>
          /\ \A state \in Now : Step(state, TurnChanged, Then)
    <3> SUFFICES ASSUME "turnChanged" \in events'
                 PROVE  /\ Entries("turnChanged") = <<TurnChanged>>
                        /\ \A state \in Now : Step(state, TurnChanged, Then)
      OBVIOUS
    <3>1. TurnChanged.type = "turnChanged" /\ TurnChanged.to = PlayerShown
      BY DEF TurnChanged, PlayerShown
    <3>2. PlayerShown \in Players
      BY HandoverEvents DEF PlayerShown, TurnInv, SnapshotShape
    <3>3. Entries("turnChanged") = <<TurnChanged>>
      BY DEF Entries
    <3> QED
      BY <1>1, <3>1, <3>2, <3>3, StillEntry
  <2>2. "turnChanged" \notin events' => Then = Now
    BY DEF PlayerShown
  <2> HIDE DEF Now, Then
  <2> QED
    BY <1>2, <2>1, <2>2, EmittedLeads
<1>5. Leads(Then, Emitted("gameWon"), After)
  <2>1. "gameWon" \in events' =>
          /\ Entries("gameWon") = <<GameWon>>
          /\ \A state \in Then : Step(state, GameWon, After)
    <3> SUFFICES ASSUME "gameWon" \in events'
                 PROVE  /\ Entries("gameWon") = <<GameWon>>
                        /\ \A state \in Then : Step(state, GameWon, After)
      OBVIOUS
    <3>1. GameWon.type = "gameWon" /\ GameWon.winner = winner'
      BY DEF GameWon
    <3>2. winner' \in Players
      BY HandoverEvents, WonHow
    <3>3. Entries("gameWon") = <<GameWon>>
      BY DEF Entries
    <3> QED
      BY <1>1, <3>1, <3>2, <3>3, WinEntry
  <2>2. "gameWon" \notin events' => After = Then
    <3>1. "gameWon" \notin events' => winner' = Nobody
      BY <1>1, HandoverEvents DEF TurnInv, SnapshotShape, TypeOK
    <3> QED
      BY <3>1
  <2> HIDE DEF Then, After
  <2> QED
    BY <1>2, <2>1, <2>2, EmittedLeads
<1> QED
  BY <1>3, <1>4, <1>5

(* Entries that move pawns.                                                *)
LEMMA LayoutChanged ==
  ASSUME NEW at \in Layouts, NEW pawn \in Pawns, NEW cell \in BoardCoords \union {Nowhere}
  PROVE  [at EXCEPT ![pawn] = cell] \in Layouts
BY DEF Layouts

(* To know less of what is hidden is a weaker claim.                       *)
LEMMA SceneHolds ==
  ASSUME NEW at, NEW held, NEW more, held \subseteq more, NEW player, NEW victor
  PROVE  Scene(at, more, player, victor) \subseteq Scene(at, held, player, victor)
BY DEF Scene

(* Anchors and the cells they stand for.                                   *)
LEMMA AnchorCells ==
  ASSUME TypeOK, NEW pawn \in Pawns
  PROVE  /\ ReserveAnchor(pawn) \in Anchors /\ CellOf(ReserveAnchor(pawn)) = Nowhere
         /\ \A cell \in BoardCoords : cell \in Anchors /\ CellOf(cell) = cell
         /\ ResolvedAnchor(position, pawn, RemovedAnchor(pawn)) \in Anchors
         /\ CellOf(ResolvedAnchor(position, pawn, RemovedAnchor(pawn))) = OldLayout[pawn]
<1>1. OnBoard(position[pawn]) => /\ OldLayout[pawn] = Cell(position, pawn)
                                 /\ OldLayout[pawn] \in BoardCoords
  BY CoordinateOnBoard DEF TypeOK, OldLayout, PawnCoordinate
<1>2. ~ OnBoard(position[pawn]) => OldLayout[pawn] = Nowhere
  BY DEF OldLayout, PawnCoordinate
<1> QED
  BY <1>1, <1>2, OtherAnchors DEF ResolvedAnchor, Anchors, CellOf

(* A pawn that enters: from its reserve to its corner.                     *)
LEMMA EnterEntry ==
  ASSUME TypeOK, NEW at \in Layouts, NEW held, NEW player, NEW victor,
         NEW state \in Scene(at, held, player, victor),
         NEW event, event.type = "pawnEntered", event.pawn \in Pawns, event.to \in BoardCoords,
         ~ OnBoard(position[event.pawn]), Clear([at EXCEPT ![event.pawn] = Nowhere]),
         Clear([at EXCEPT ![event.pawn] = event.to])
  PROVE  Step(state, event, Scene([at EXCEPT ![event.pawn] = event.to], held, player, victor))
<1> DEFINE waiting == Show(state, event.pawn, ReserveAnchor(event.pawn))
           entered == Show(state, event.pawn, event.to)
<1>1. waiting \in Scene([at EXCEPT ![event.pawn] = Nowhere], held, player, victor)
  <2>1. /\ ReserveAnchor(event.pawn) \in Anchors
        /\ CellOf(ReserveAnchor(event.pawn)) = Nowhere
    BY AnchorCells
  <2> QED
    BY <2>1, SceneShow
<1>2. entered \in Scene([at EXCEPT ![event.pawn] = event.to], held, player, victor)
  <2>1. event.to \in Anchors /\ CellOf(event.to) = event.to
    BY AnchorCells
  <2> QED
    BY <2>1, SceneShow
<1>3. Frames(state, event) = Pushed(<<waiting, entered>>)
  <2>1. Frames(state, event) = EnterFrames(state, event)
    BY DEF Frames
  <2> QED
    BY <2>1 DEF EnterFrames
<1> HIDE DEF waiting, entered
<1>4. waiting \in GoodStates /\ entered \in GoodStates
  BY <1>1, <1>2, SceneInSight
<1>5. /\ Pushed(<<waiting, entered>>).shown \in Seq(GoodStates)
      /\ Pushed(<<waiting, entered>>).state = entered
  BY <1>4, PushedTwice
<1> QED
  BY <1>2, <1>3, <1>5 DEF Step

(* A pawn that moves: lifted from its cell and put on every cell of its    *)
(* path.                                                                   *)
LEMMA MoveEntry ==
  ASSUME TypeOK, NEW at \in Layouts, NEW held, NEW player, NEW victor,
         NEW state \in Scene(at, held, player, victor),
         NEW event, event.type = "pawnMoved", event.pawn \in Pawns, event.from \in BoardCoords,
         event.path \in Seq(BoardCoords), event.path # <<>>,
         Clear([at EXCEPT ![event.pawn] = event.from]),
         \A k \in 1 .. Len(event.path) : Clear([at EXCEPT ![event.pawn] = event.path[k]])
  PROVE  Step(state, event, Scene([at EXCEPT ![event.pawn] = event.path[Len(event.path)]],
                                  held \union {event.pawn}, player, victor))
<1> DEFINE pawn  == event.pawn
           n     == Len(event.path)
           begin == Lift(state, pawn, event.from)
           path  == [k \in 1 .. n |-> Lift(state, pawn, event.path[k])]
<1>1. \A cell \in BoardCoords :
        Lift(state, pawn, cell)
          \in Scene([at EXCEPT ![pawn] = cell], held \union {pawn}, player, victor)
  <2> SUFFICES ASSUME NEW cell \in BoardCoords
               PROVE  Lift(state, pawn, cell)
                        \in Scene([at EXCEPT ![pawn] = cell], held \union {pawn}, player, victor)
    OBVIOUS
  <2>1. cell \in Anchors /\ CellOf(cell) = cell
    BY AnchorCells
  <2> QED
    BY <2>1, SceneLift
<1>2. n \in Nat \ {0} /\ \A k \in 1 .. n : event.path[k] \in BoardCoords
  BY EmptySeq
<1>3. begin \in GoodStates
  BY <1>1, SceneInSight
<1>4. \A k \in 1 .. n : Lift(state, pawn, event.path[k]) \in GoodStates
  BY <1>1, <1>2, SceneInSight
<1>5. /\ path \in Seq(GoodStates) /\ Len(path) = n
      /\ path[n] = Lift(state, pawn, event.path[n])
  BY <1>2, <1>4
<1>6. path # <<>>
  <2> HIDE DEF path, n
  <2> QED
    BY <1>2, <1>5, EmptySeq
<1>7. Frames(state, event) = Pushed(<<begin>> \o path)
  <2>1. Frames(state, event) = MoveFrames(state, event)
    BY DEF Frames
  <2> QED
    BY <2>1 DEF MoveFrames
<1>8. path[n] \in Scene([at EXCEPT ![pawn] = event.path[n]], held \union {pawn}, player, victor)
  <2>1. n \in 1 .. n /\ event.path[n] \in BoardCoords
    BY <1>2
  <2> HIDE DEF path, n
  <2> QED
    BY <1>1, <1>5, <2>1
<1> HIDE DEF begin, path, n
<1>9. /\ Pushed(<<begin>> \o path).shown \in Seq(GoodStates)
      /\ Pushed(<<begin>> \o path).state = path[n]
  BY <1>3, <1>5, <1>6, PushedPath
<1> QED
  BY <1>7, <1>8, <1>9 DEF Step, n

(* A victim: hit where it stands, sent to its reserve and taken from the   *)
(* board.                                                                  *)
LEMMA CaptureEntry ==
  ASSUME TypeOK, NEW at \in Layouts, NEW held, NEW player, NEW victor,
         NEW state \in Scene(at, held, player, victor),
         NEW event, event.type = "pawnCaptured", event.pawn \in Pawns, event.by \in Pawns,
         event.by \in held, event.at \in BoardCoords,
         at[event.by] = event.at, at[event.pawn] = event.at,
         Clear(at), Clear([at EXCEPT ![event.pawn] = Nowhere])
  PROVE  Step(state, event, Scene([at EXCEPT ![event.pawn] = Nowhere], held, player, victor))
<1> DEFINE pawn   == event.pawn
           gone   == [at EXCEPT ![pawn] = Nowhere]
           more   == held \union {pawn}
           cued   == Cue(state, event.at)
           struck == Show(cued, event.by, event.at)
           impact == Lift(struck, pawn, event.at)
           return == Show(impact, pawn, ReserveAnchor(pawn))
           out    == Drop(return, pawn)
           last   == Cue(out, Nowhere)
<1>1. /\ event.at \in Anchors /\ CellOf(event.at) = event.at
      /\ ReserveAnchor(pawn) \in Anchors /\ CellOf(ReserveAnchor(pawn)) = Nowhere
  BY AnchorCells
<1>2. [at EXCEPT ![event.by] = event.at] = at /\ [at EXCEPT ![pawn] = event.at] = at
  BY DEF Layouts
<1>3. gone \in Layouts /\ [gone EXCEPT ![pawn] = Nowhere] = gone
  BY LayoutChanged DEF Layouts
<1>4. Frames(state, event) = [shown |-> <<impact, return, last>>, state |-> out]
  <2>1. Frames(state, event) = CaptureFrames(state, event)
    BY DEF Frames
  <2> QED
    BY <2>1 DEF CaptureFrames
<1>5. cued \in Scene(at, held, player, victor)
  BY SceneStill DEF Unmoved
<1> HIDE DEF cued
<1>6. struck \in Scene(at, held, player, victor)
  BY <1>1, <1>2, <1>5, SceneShow
<1> HIDE DEF struck
<1>7. impact \in Scene(at, more, player, victor)
  BY <1>1, <1>2, <1>6, SceneLift
<1> HIDE DEF impact
<1>8. return \in Scene(gone, more, player, victor)
  <2>1. pawn \in more
    OBVIOUS
  <2> HIDE DEF more
  <2> QED
    BY <1>1, <1>7, <2>1, SceneShow
<1> HIDE DEF return
<1>9. out \in Scene(gone, more, player, victor)
  <2>1. pawn \in more
    OBVIOUS
  <2> HIDE DEF more, gone
  <2> QED
    BY <1>3, <1>8, <2>1, SceneDrop
<1> HIDE DEF out
<1>10. last \in Scene(gone, more, player, victor)
  BY <1>9, SceneStill DEF Unmoved
<1> HIDE DEF last
<1>11. impact \in GoodStates /\ return \in GoodStates /\ last \in GoodStates
  BY <1>7, <1>8, <1>10, SceneInSight
<1>12. <<impact, return, last>> \in Seq(GoodStates)
  BY <1>11
<1>13. out \in Scene(gone, held, player, victor)
  BY <1>9, SceneHolds
<1> QED
  BY <1>4, <1>12, <1>13 DEF Step

(* A pawn that came home: the cell lights up under it.                     *)
LEMMA HomeEntry ==
  ASSUME TypeOK, NEW at \in Layouts, NEW held, NEW player, NEW victor,
         NEW state \in Scene(at, held, player, victor),
         NEW event, event.type = "pawnEnteredHome", event.pawn \in Pawns,
         event.to \in BoardCoords, at[event.pawn] = event.to, Clear(at)
  PROVE  Step(state, event, Scene(at, held, player, victor))
<1> DEFINE cued == Cue(state, event.to)
           home == Lift(cued, event.pawn, event.to)
           last == Cue(home, Nowhere)
           more == held \union {event.pawn}
<1>1. /\ event.to \in Anchors /\ CellOf(event.to) = event.to
      /\ [at EXCEPT ![event.pawn] = event.to] = at
  BY AnchorCells DEF Layouts
<1>2. Frames(state, event) = Pushed(<<home, last>>)
  <2>1. Frames(state, event) = HomeFrames(state, event)
    BY DEF Frames
  <2> QED
    BY <2>1 DEF HomeFrames
<1>3. cued \in Scene(at, held, player, victor)
  BY SceneStill DEF Unmoved
<1> HIDE DEF cued
<1>4. home \in Scene(at, more, player, victor)
  BY <1>1, <1>3, SceneLift
<1> HIDE DEF home
<1>5. last \in Scene(at, more, player, victor)
  BY <1>4, SceneStill DEF Unmoved
<1> HIDE DEF last
<1>6. home \in GoodStates /\ last \in GoodStates
  BY <1>4, <1>5, SceneInSight
<1>7. /\ Pushed(<<home, last>>).shown \in Seq(GoodStates)
      /\ Pushed(<<home, last>>).state = last
  BY <1>6, PushedTwice
<1>8. last \in Scene(at, held, player, victor)
  BY <1>5, SceneHolds
<1> QED
  BY <1>2, <1>7, <1>8 DEF Step

(* A pawn that is removed: it leaves from where the old snapshot has it.   *)
LEMMA RemoveEntry ==
  ASSUME TypeOK, NEW at \in Layouts, NEW held, NEW player, NEW victor,
         NEW state \in Scene(at, held, player, victor),
         NEW event, event.type = "pawnRemoved", event.pawn \in Pawns,
         Clear([at EXCEPT ![event.pawn] = OldLayout[event.pawn]]),
         Clear([at EXCEPT ![event.pawn] = Nowhere])
  PROVE  Step(state, event, Scene([at EXCEPT ![event.pawn] = Nowhere], held, player, victor))
<1> DEFINE pawn    == event.pawn
           anchor  == ResolvedAnchor(position, pawn, RemovedAnchor(pawn))
           back    == [at EXCEPT ![pawn] = OldLayout[pawn]]
           gone    == [at EXCEPT ![pawn] = Nowhere]
           more    == held \union {pawn}
           leaving == Lift(state, pawn, anchor)
           left    == Drop(leaving, pawn)
<1>1. anchor \in Anchors /\ CellOf(anchor) = OldLayout[pawn]
  BY AnchorCells
<1>2. OldLayout[pawn] \in BoardCoords \union {Nowhere}
  BY <1>1 DEF CellOf
<1>3. back \in Layouts /\ [back EXCEPT ![pawn] = Nowhere] = gone
  BY <1>2, LayoutChanged DEF Layouts
<1>4. Frames(state, event) = Pushed(<<leaving, left>>)
  <2>1. Frames(state, event) = RemoveFrames(state, event)
    BY DEF Frames
  <2> QED
    BY <2>1 DEF RemoveFrames
<1>5. leaving \in Scene(back, more, player, victor)
  BY <1>1, SceneLift
<1> HIDE DEF leaving
<1>6. left \in Scene(gone, more, player, victor)
  <2>1. pawn \in more
    OBVIOUS
  <2> HIDE DEF more, gone, back
  <2>2. left \in Scene([back EXCEPT ![pawn] = Nowhere], more, player, victor)
    BY <1>3, <1>5, <2>1, SceneDrop
  <2> QED
    BY <1>3, <2>2
<1> HIDE DEF left
<1>7. leaving \in GoodStates /\ left \in GoodStates
  BY <1>5, <1>6, SceneInSight
<1>8. /\ Pushed(<<leaving, left>>).shown \in Seq(GoodStates)
      /\ Pushed(<<leaving, left>>).state = left
  BY <1>7, PushedTwice
<1>9. left \in Scene(gone, held, player, victor)
  BY <1>6, SceneHolds
<1> QED
  BY <1>4, <1>8, <1>9 DEF Step

(* An event that was not emitted changes nothing.                          *)
LEMMA NotEmittedLeads ==
  ASSUME NEW kind, kind \notin events', NEW at, NEW held, NEW player, NEW victor
  PROVE  Leads(Scene(at, held, player, victor), Emitted(kind), Scene(at, held, player, victor))
<1>1. Emitted(kind) = <<>>
  BY DEF Emitted
<1> QED
  BY <1>1, SceneTyped, LeadsNowhere

(* The entries about pawns, one kind after the other.                      *)
LEMMA PawnPayloadsLead ==
  ASSUME TurnInv, Next, NEW begin, NEW entered, NEW moved, NEW struck, NEW home, NEW left, NEW gone,
         Leads(begin, Emitted("pawnEntered"), entered),
         Leads(entered, Emitted("pawnMoved"), moved),
         Leads(moved, Emitted("pawnCaptured"), struck),
         Leads(struck, Emitted("pawnEnteredHome"), home),
         Leads(home, Emitted("playerSurrendered"), left),
         Leads(left, Emitted("pawnRemoved"), gone)
  PROVE  Leads(begin, PawnPayloads, gone) /\ PawnPayloads \in Seq(EventPayloads)
<1> DEFINE two   == Emitted("pawnEntered") \o Emitted("pawnMoved")
           three == two \o Emitted("pawnCaptured")
           four  == three \o Emitted("pawnEnteredHome")
           five  == four \o Emitted("playerSurrendered")
           six   == five \o Emitted("pawnRemoved")
<1>1. \A kind \in PawnKinds \union {"playerSurrendered"} : Emitted(kind) \in Seq(EventPayloads)
  BY PawnPayloadsFit, PlayerPayloads
<1>2. \A s, t \in Seq(EventPayloads) : s \o t \in Seq(EventPayloads)
  BY Joint
<1>3. two \in Seq(EventPayloads) /\ Leads(begin, two, moved)
  BY <1>1, <1>2, LeadsOn DEF PawnKinds
<1> HIDE DEF two
<1>4. three \in Seq(EventPayloads) /\ Leads(begin, three, struck)
  BY <1>1, <1>2, <1>3, LeadsOn DEF PawnKinds
<1> HIDE DEF three
<1>5. four \in Seq(EventPayloads) /\ Leads(begin, four, home)
  BY <1>1, <1>2, <1>4, LeadsOn DEF PawnKinds
<1> HIDE DEF four
<1>6. five \in Seq(EventPayloads) /\ Leads(begin, five, left)
  BY <1>1, <1>2, <1>5, LeadsOn
<1> HIDE DEF five
<1>7. six \in Seq(EventPayloads) /\ Leads(begin, six, gone)
  BY <1>1, <1>2, <1>6, LeadsOn DEF PawnKinds
<1>8. PawnPayloads = six
  BY DEF PawnPayloads, two, three, four, five
<1> QED
  BY <1>7, <1>8

(* All entries.                                                            *)
LEMMA PayloadsLead ==
  ASSUME TurnInv, Next, PawnPayloads \in Seq(EventPayloads),
         NEW begin, NEW moved, NEW then, NEW after,
         Leads(begin, Emitted("diceRolled"), begin), Leads(begin, PawnPayloads, moved),
         Leads(moved, Emitted("extraRollGranted"), moved),
         Leads(moved, Emitted("turnChanged"), then), Leads(then, Emitted("gameWon"), after)
  PROVE  Leads(begin, Payloads, after)
<1> DEFINE two   == Emitted("diceRolled") \o PawnPayloads
           three == two \o Emitted("extraRollGranted")
           four  == three \o Emitted("turnChanged")
           five  == four \o Emitted("gameWon")
<1>1. \A kind \in {"diceRolled", "extraRollGranted", "turnChanged", "gameWon"} :
        Emitted(kind) \in Seq(EventPayloads)
  BY PawnPayloadsFit, PlayerPayloads, HandoverPayloads
<1>2. \A s, t \in Seq(EventPayloads) : s \o t \in Seq(EventPayloads)
  BY Joint
<1>3. two \in Seq(EventPayloads) /\ Leads(begin, two, moved)
  BY <1>1, <1>2, LeadsOn
<1> HIDE DEF two
<1>4. three \in Seq(EventPayloads) /\ Leads(begin, three, moved)
  BY <1>1, <1>2, <1>3, LeadsOn
<1> HIDE DEF three
<1>5. four \in Seq(EventPayloads) /\ Leads(begin, four, then)
  BY <1>1, <1>2, <1>4, LeadsOn
<1> HIDE DEF four
<1>6. Leads(begin, five, after)
  BY <1>1, <1>5, LeadsOn
<1>7. Payloads = five
  BY DEF Payloads, two, three, four
<1> QED
  BY <1>6, <1>7

(* What the board obeys before and after every command.                    *)
MatchInv == TurnInv /\ UniqueOccupancy /\ NoPawnOnInactiveCorner

(* Where a move leads: on the cell it lands on, which is free or holds the *)
(* victim; a victim and a removal exclude each other, for nobody rests on  *)
(* an inactive corner.                                                     *)
Landed == [OldLayout EXCEPT ![MovedPawn] = PathOf(position, MovedPawn, diceValue)]
Captured == "pawnCaptured" \in events'

(* Whoever stands on the destination is the victim, and nobody else but    *)
(* the mover moves.                                                        *)
LEMMA VictimOfMove ==
  ASSUME MatchInv, NEW pawn \in Pawns, MovePawn(pawn)
  PROVE  /\ MovedPawn = pawn
         /\ diceValue \in 1 .. MaxDie /\ Fits(position[pawn], diceValue)
         /\ "pawnRemoved" \in events'
              <=> InactiveCorner(AdvancePosition(position[pawn], diceValue), Color(Owner(pawn)))
         /\ Captured => /\ CapturedPawn \in Pawns /\ CapturedPawn # pawn
                        /\ OnBoard(position[CapturedPawn])
                        /\ Cell(position, CapturedPawn) = PathOf(position, pawn, diceValue)
                        /\ position'[CapturedPawn] = OffBoard
                        /\ "pawnRemoved" \notin events'
         /\ \A other \in Pawns :
              other # pawn /\ OnBoard(position[other])
                /\ Cell(position, other) = PathOf(position, pawn, diceValue)
              => Captured /\ other = CapturedPawn
         /\ \A other \in Pawns : other # pawn /\ ~ (Captured /\ other = CapturedPawn)
                                   => position'[other] = position[other]
<1> DEFINE target   == AdvancePosition(position[pawn], diceValue)
           cell     == PathOf(position, pawn, diceValue)
           captured == Capturable(pawn, cell)
           victim   == CHOOSE other \in captured : TRUE
<1>1. /\ MovedPawn = pawn /\ Actor = currentPlayer /\ Owner(pawn) = currentPlayer
      /\ TypeOK
  BY MovedPawnOfTurn, ActorOfTurn DEF MatchInv, TurnInv
<1>2. /\ diceValue \in 1 .. MaxDie /\ Fits(position[pawn], diceValue)
  BY <1>1, MoveEffect
<1>3. /\ position' = PlacementAfterMove(pawn, target, captured)
      /\ CanMovePawn(position, pawn, diceValue)
  BY DEF MovePawn, Movable
<1>4. Captured <=> captured # {}
  BY MoveEmits DEF Captured
<1>5. "pawnRemoved" \in events' <=> InactiveCorner(target, Color(Owner(pawn)))
  BY DEF MovePawn, MoveEvents, Emit
<1>6. \A other \in captured :
        /\ other \in Pawns /\ Owner(other) # Owner(pawn) /\ other # pawn
        /\ position[other].zone = "PERIMETER" /\ OnBoard(position[other])
        /\ Cell(position, other) = cell
  BY DEF Capturable, Occupants
<1>7. \A other \in Pawns : other # pawn /\ OnBoard(position[other]) /\ Cell(position, other) = cell
        => other \in captured
  BY <1>3 DEF CanMovePawn, Occupants, Capturable, OnBoard
<1>8. \A a, b \in captured : a = b
  BY <1>6 DEF MatchInv, UniqueOccupancy
<1>9. captured # {} => victim \in captured
  OBVIOUS
<1> HIDE DEF captured, victim
<1>10. /\ captured # {} => position'[victim] = OffBoard
       /\ \A other \in Pawns : other # pawn /\ ~ (captured # {} /\ other = victim)
            => position'[other] = position[other]
  BY <1>3, <1>6, <1>9 DEF PlacementAfterMove, victim
<1>11. captured # {} => CapturedPawn = victim
  <2> SUFFICES ASSUME captured # {} PROVE CapturedPawn = victim
    OBVIOUS
  <2>1. /\ victim \in Pawns /\ Owner(victim) # Actor /\ position'[victim] # position[victim]
        /\ \A other \in Pawns : Owner(other) # Actor /\ position'[other] # position[other]
             => other = victim
    BY <1>1, <1>6, <1>9, <1>10 DEF OffBoard
  <2> QED
    BY <2>1 DEF CapturedPawn
<1>12. captured # {} => "pawnRemoved" \notin events'
  <2> SUFFICES ASSUME captured # {}, InactiveCorner(target, Color(Owner(pawn))) PROVE FALSE
    BY <1>5
  <2>1. InactiveCorner(position[victim], Color(Owner(victim)))
    BY <1>1, <1>2, <1>6, <1>9, SameCellSameCorner
  <2> QED
    BY <1>6, <1>9, <2>1 DEF MatchInv, NoPawnOnInactiveCorner
<1> HIDE DEF target, cell
<1>13. Captured => /\ CapturedPawn \in Pawns /\ CapturedPawn # pawn
                   /\ OnBoard(position[CapturedPawn]) /\ Cell(position, CapturedPawn) = cell
                   /\ position'[CapturedPawn] = OffBoard /\ "pawnRemoved" \notin events'
  BY <1>4, <1>6, <1>9, <1>10, <1>11, <1>12
<1>14. \A other \in Pawns : other # pawn /\ OnBoard(position[other]) /\ Cell(position, other) = cell
         => Captured /\ other = CapturedPawn
  BY <1>4, <1>7, <1>8, <1>9, <1>11
<1>15. \A other \in Pawns : other # pawn /\ ~ (Captured /\ other = CapturedPawn)
         => position'[other] = position[other]
  BY <1>4, <1>10, <1>11
<1> QED
  BY <1>1, <1>2, <1>5, <1>13, <1>14, <1>15 DEF cell, target

(* The old layout keeps the pawns in sight, and so does the new one when a *)
(* mover that captured stands there.                                       *)
LEMMA OldAndNewClear ==
  ASSUME MatchInv, MatchInv',
         Captured => /\ MovedPawn \in Pawns /\ CapturedPawn \in Pawns
                     /\ OnBoard(position[CapturedPawn]) /\ OnBoard(position'[MovedPawn])
  PROVE  Clear(OldLayout) /\ Clear(NewLayout)
<1>1. TypeOK /\ TypeOK' /\ UniqueOccupancy /\ UniqueOccupancy'
  BY DEF MatchInv, TurnInv
<1>2. /\ \A pawn \in Pawns :
           /\ OnBoard(position[pawn]) => OldLayout[pawn] # Nowhere
           /\ OnBoard(position'[pawn]) => /\ NewLayout[pawn] = Cell(position', pawn)
                                          /\ NewLayout[pawn] # Nowhere
      /\ \A a, b \in Pawns : /\ a # b /\ OldLayout[a] = OldLayout[b] => OldLayout[a] = Nowhere
                             /\ a # b /\ NewLayout[a] = NewLayout[b] => NewLayout[a] = Nowhere
  BY <1>1, SnapshotLayouts, OtherAnchors
<1>3. Clear(OldLayout)
  BY <1>2 DEF Clear, Captured
<1>4. Clear(NewLayout)
  BY <1>2 DEF Clear, Captured
<1> QED
  BY <1>3, <1>4

(* A pawn that moves over a cell nobody but its victim holds is in sight.  *)
LEMMA MoverClear ==
  ASSUME MatchInv, MatchInv', NEW pawn \in Pawns, MovePawn(pawn), NEW cell \in BoardCoords,
         \A other \in Pawns : other # pawn /\ OnBoard(position[other])
                                /\ Cell(position, other) = cell
                              => Captured /\ other = CapturedPawn
  PROVE  Clear([OldLayout EXCEPT ![pawn] = cell])
<1> DEFINE at == [OldLayout EXCEPT ![pawn] = cell]
<1>1. TypeOK /\ TypeOK' /\ UniqueOccupancy /\ UniqueOccupancy'
  BY DEF MatchInv, TurnInv
<1>2. /\ MovedPawn = pawn
      /\ Captured => /\ CapturedPawn \in Pawns /\ CapturedPawn # pawn
                     /\ OnBoard(position[CapturedPawn])
  BY VictimOfMove
<1>3. /\ OldLayout \in Layouts
      /\ \A other \in Pawns :
           /\ OnBoard(position[other]) => /\ OldLayout[other] = Cell(position, other)
                                          /\ OldLayout[other] # Nowhere
           /\ ~ OnBoard(position[other]) => OldLayout[other] = Nowhere
      /\ \A a, b \in Pawns : a # b /\ OldLayout[a] = OldLayout[b] => OldLayout[a] = Nowhere
  BY <1>1, SnapshotLayouts, OtherAnchors
<1>4. /\ at[pawn] = cell /\ cell # Nowhere
      /\ \A other \in Pawns : other # pawn => at[other] = OldLayout[other]
  BY <1>3, OtherAnchors DEF Layouts
<1> HIDE DEF at
<1>5. ASSUME NEW other \in Pawns, OnBoard(position[other]) PROVE at[other] # Nowhere
  BY <1>3, <1>4, <1>5
<1>6. ASSUME NEW other \in Pawns, other # pawn, at[other] = cell
      PROVE  Captured /\ other = CapturedPawn
  <2>1. OldLayout[other] = cell
    BY <1>4, <1>6
  <2>2. OnBoard(position[other]) /\ Cell(position, other) = cell
    BY <1>3, <1>4, <2>1
  <2> QED
    BY <1>6, <2>2
<1>7. ASSUME NEW a \in Pawns, NEW b \in Pawns, a # b, at[a] = at[b], at[a] # Nowhere
      PROVE  Struck(a, b) \/ Struck(b, a)
  <2>1. CASE a = pawn
    BY <1>2, <1>4, <1>6, <1>7, <2>1 DEF Struck, Captured
  <2>2. CASE b = pawn
    BY <1>2, <1>4, <1>6, <1>7, <2>2 DEF Struck, Captured
  <2>3. CASE a # pawn /\ b # pawn
    BY <1>3, <1>4, <1>7, <2>3
  <2> QED
    BY <2>1, <2>2, <2>3
<1>8. Captured => at[CapturedPawn] # Nowhere
  BY <1>2, <1>5
<1>9. Clear(at)
  BY <1>2, <1>5, <1>7, <1>8 DEF Clear, Captured
<1> QED
  BY <1>9 DEF at

(* The layouts of a move.                                                  *)
LEMMA MoveLayouts ==
  ASSUME MatchInv, MatchInv', NEW pawn \in Pawns, MovePawn(pawn)
  PROVE  /\ Landed \in Layouts /\ PathOf(position, pawn, diceValue) \in BoardCoords
         /\ Landed[pawn] = PathOf(position, pawn, diceValue)
         /\ Captured => /\ Landed[CapturedPawn] = PathOf(position, pawn, diceValue)
                        /\ NewLayout = [Landed EXCEPT ![CapturedPawn] = Nowhere]
         /\ ~ Captured /\ "pawnRemoved" \notin events' => NewLayout = Landed
         /\ "pawnRemoved" \in events' => /\ NewLayout = [Landed EXCEPT ![pawn] = Nowhere]
                                         /\ OldLayout = [Landed EXCEPT ![pawn] = OldLayout[pawn]]
         /\ Clear(OldLayout) /\ Clear(Landed) /\ Clear(NewLayout)
<1> DEFINE cell == PathOf(position, pawn, diceValue)
<1>1. TypeOK /\ TypeOK' /\ UniqueOccupancy /\ UniqueOccupancy'
  BY DEF MatchInv, TurnInv
<1>2. /\ MovedPawn = pawn
      /\ diceValue \in 1 .. MaxDie /\ Fits(position[pawn], diceValue)
      /\ "pawnRemoved" \in events'
           <=> InactiveCorner(AdvancePosition(position[pawn], diceValue), Color(Owner(pawn)))
      /\ Captured => /\ CapturedPawn \in Pawns /\ CapturedPawn # pawn
                     /\ OnBoard(position[CapturedPawn])
                     /\ Cell(position, CapturedPawn) = cell
                     /\ position'[CapturedPawn] = OffBoard
                     /\ "pawnRemoved" \notin events'
      /\ \A other \in Pawns :
           other # pawn /\ OnBoard(position[other]) /\ Cell(position, other) = cell
             => Captured /\ other = CapturedPawn
      /\ \A other \in Pawns : other # pawn /\ ~ (Captured /\ other = CapturedPawn)
                                => position'[other] = position[other]
  BY VictimOfMove
<1>3. diceValue \in 1 .. diceValue
  BY <1>2, BoardAssumption
<1>4. cell \in BoardCoords /\ OnBoard(AdvancePosition(position[pawn], diceValue))
  BY <1>1, <1>2, <1>3, PathOnBoard
<1>5. /\ "pawnRemoved" \in events' => position'[pawn] = OffBoard
      /\ "pawnRemoved" \notin events' =>
           /\ position'[pawn] = AdvancePosition(position[pawn], diceValue)
           /\ OnBoard(position'[pawn]) /\ Cell(position', pawn) = cell
  <2>1. \/ position'[pawn] = AdvancePosition(position[pawn], diceValue)
           /\ ~ InactiveCorner(position'[pawn], Color(Owner(pawn)))
        \/ position'[pawn] = OffBoard
           /\ InactiveCorner(AdvancePosition(position[pawn], diceValue), Color(Owner(pawn)))
    BY <1>1, MoveEffect
  <2>2. position'[pawn] = AdvancePosition(position[pawn], diceValue) => Cell(position', pawn) = cell
    BY DEF Cell, PathOf, PathCell
  <2> QED
    BY <1>2, <1>4, <2>1, <2>2
<1> HIDE DEF cell
<1>6. /\ OldLayout \in Layouts /\ NewLayout \in Layouts
      /\ \A other \in Pawns :
           /\ OnBoard(position[other]) => OldLayout[other] = Cell(position, other)
           /\ ~ OnBoard(position[other]) => OldLayout[other] = Nowhere
           /\ OnBoard(position'[other]) => NewLayout[other] = Cell(position', other)
           /\ ~ OnBoard(position'[other]) => NewLayout[other] = Nowhere
  BY <1>1, SnapshotLayouts
<1>7. \A other \in Pawns : position'[other] = position[other] => NewLayout[other] = OldLayout[other]
  BY <1>6 DEF Cell
<1>8. Landed = [OldLayout EXCEPT ![pawn] = cell]
  BY <1>2 DEF Landed, cell
<1>9. /\ Landed \in Layouts /\ Landed[pawn] = cell
      /\ \A other \in Pawns : other # pawn => Landed[other] = OldLayout[other]
  BY <1>4, <1>6, <1>8, LayoutChanged DEF Layouts
<1>10. Captured => Landed[CapturedPawn] = cell
  BY <1>2, <1>6, <1>9
<1>11. ~ OnBoard(OffBoard)
  BY DEF OnBoard, OffBoard
<1>12. Captured => NewLayout = [Landed EXCEPT ![CapturedPawn] = Nowhere]
  <2> SUFFICES ASSUME Captured PROVE NewLayout = [Landed EXCEPT ![CapturedPawn] = Nowhere]
    OBVIOUS
  <2>1. NewLayout[CapturedPawn] = Nowhere /\ NewLayout[pawn] = cell
    BY <1>2, <1>5, <1>6, <1>11
  <2>2. \A other \in Pawns : other # pawn /\ other # CapturedPawn
                               => NewLayout[other] = Landed[other]
    BY <1>2, <1>7, <1>9
  <2>3. \A other \in Pawns :
          NewLayout[other] = IF other = CapturedPawn THEN Nowhere ELSE Landed[other]
    BY <1>2, <1>9, <2>1, <2>2
  <2> QED
    BY <1>6, <1>9, <2>3 DEF Layouts
<1>13. ~ Captured /\ "pawnRemoved" \notin events' => NewLayout = Landed
  <2> SUFFICES ASSUME ~ Captured, "pawnRemoved" \notin events' PROVE NewLayout = Landed
    OBVIOUS
  <2>1. \A other \in Pawns : NewLayout[other] = Landed[other]
    BY <1>2, <1>5, <1>6, <1>7, <1>9
  <2> QED
    BY <1>6, <1>9, <2>1 DEF Layouts
<1>14. "pawnRemoved" \in events' => NewLayout = [Landed EXCEPT ![pawn] = Nowhere]
  <2> SUFFICES ASSUME "pawnRemoved" \in events'
               PROVE  NewLayout = [Landed EXCEPT ![pawn] = Nowhere]
    OBVIOUS
  <2>1. \A other \in Pawns : NewLayout[other] = IF other = pawn THEN Nowhere ELSE Landed[other]
    BY <1>2, <1>5, <1>6, <1>7, <1>9, <1>11
  <2> QED
    BY <1>6, <1>9, <2>1 DEF Layouts
<1>15. OldLayout = [Landed EXCEPT ![pawn] = OldLayout[pawn]]
  BY <1>6, <1>9 DEF Layouts
<1>16. Clear(OldLayout) /\ Clear(NewLayout)
  BY <1>2, <1>5, OldAndNewClear
<1>17. Clear(Landed)
  BY <1>2, <1>4, <1>8, MoverClear
<1> QED
  BY <1>4, <1>9, <1>10, <1>12, <1>13, <1>14, <1>15, <1>16, <1>17 DEF cell

(* A move: the pawn walks over free cells to the one it lands on, sends    *)
(* the victim there back to its reserve, or leaves the inactive corner.    *)
LEMMA MoveLeads ==
  ASSUME MatchInv, MatchInv', NEW pawn \in Pawns, MovePawn(pawn)
  PROVE  /\ Leads(Scene(OldLayout, {}, currentPlayer, Nobody), PawnPayloads,
                  Scene(NewLayout, {pawn}, currentPlayer, Nobody))
         /\ PawnPayloads \in Seq(EventPayloads)
<1> DEFINE Shot(at, held) == Scene(at, held, currentPlayer, Nobody)
           struck == IF Captured THEN [Landed EXCEPT ![CapturedPawn] = Nowhere] ELSE Landed
<1>1. /\ TurnInv /\ TypeOK /\ TypeOK' /\ UniqueOccupancy /\ UniqueOccupancy' /\ Next
  BY DEF MatchInv, TurnInv, Next
<1>2. /\ MovedPawn = pawn
      /\ diceValue \in 1 .. MaxDie /\ Fits(position[pawn], diceValue)
      /\ Captured => /\ CapturedPawn \in Pawns /\ CapturedPawn # pawn
                     /\ "pawnRemoved" \notin events'
  BY VictimOfMove
<1>3. /\ Landed \in Layouts /\ PathOf(position, pawn, diceValue) \in BoardCoords
      /\ Landed[pawn] = PathOf(position, pawn, diceValue)
      /\ Captured => /\ Landed[CapturedPawn] = PathOf(position, pawn, diceValue)
                     /\ NewLayout = [Landed EXCEPT ![CapturedPawn] = Nowhere]
      /\ ~ Captured /\ "pawnRemoved" \notin events' => NewLayout = Landed
      /\ "pawnRemoved" \in events' => /\ NewLayout = [Landed EXCEPT ![pawn] = Nowhere]
                                      /\ OldLayout = [Landed EXCEPT ![pawn] = OldLayout[pawn]]
      /\ Clear(OldLayout) /\ Clear(Landed) /\ Clear(NewLayout)
  BY MoveLayouts
<1>4. OldLayout \in Layouts /\ NewLayout \in Layouts
  BY <1>1, SnapshotLayouts
<1>5. "pawnMoved" \in events' /\ "pawnEntered" \notin events' /\ "playerSurrendered" \notin events'
  BY MoveEmits
<1>6. \A at, held : Shot(at, held) \in SUBSET AnimationStates
  BY SceneTyped
<1>7. Leads(Shot(OldLayout, {}), Emitted("pawnEntered"), Shot(OldLayout, {}))
  BY <1>5, NotEmittedLeads
<1>8. Leads(Shot(OldLayout, {}), Emitted("pawnMoved"), Shot(Landed, {pawn}))
  <2>1. /\ PawnMoved.type = "pawnMoved" /\ PawnMoved.pawn = pawn
        /\ PawnMoved.from = PawnCoordinate(position, pawn) /\ PawnMoved.path = PhysicalPath
    BY <1>2 DEF PawnMoved
  <2>2. OnBoard(position[pawn])
    BY <1>2 DEF Fits
  <2>3. PawnMoved.from = OldLayout[pawn] /\ PawnMoved.from \in BoardCoords
    BY <1>1, <2>1, <2>2, SnapshotLayouts DEF OldLayout
  <2>4. diceValue \in Nat \ {0} /\ diceValue \in 1 .. diceValue
    BY <1>2, BoardAssumption
  <2>5. \A k \in 1 .. diceValue : PathOf(position, pawn, k) \in BoardCoords
    BY <1>1, <1>2, PathOnBoard
  <2>6. /\ PhysicalPath \in Seq(BoardCoords) /\ Len(PhysicalPath) = diceValue
        /\ \A k \in 1 .. diceValue : PhysicalPath[k] = PathOf(position, pawn, k)
    BY <1>2, <2>4, <2>5 DEF PhysicalPath
  <2>7. PhysicalPath # <<>>
    BY <2>4, <2>6, EmptySeq
  <2>8. [OldLayout EXCEPT ![pawn] = PawnMoved.from] = OldLayout
    BY <1>4, <2>3 DEF Layouts
  <2>9. ASSUME NEW k \in 1 .. diceValue
        PROVE  Clear([OldLayout EXCEPT ![pawn] = PhysicalPath[k]])
    <3>1. CASE k = diceValue
      <4>1. [OldLayout EXCEPT ![pawn] = PhysicalPath[k]] = Landed
        BY <1>2, <2>6, <3>1 DEF Landed
      <4> QED
        BY <1>3, <4>1
    <3>2. CASE k # diceValue
      <4>1. k \in 1 .. (diceValue - 1)
        BY <2>4, <3>2
      <4>2. Occupants(position, PathOf(position, pawn, k)) = {}
        BY <4>1 DEF MovePawn, Movable, CanMovePawn
      <4>3. \A other \in Pawns :
              ~ (OnBoard(position[other]) /\ Cell(position, other) = PathOf(position, pawn, k))
        BY <4>2 DEF Occupants
      <4> QED
        BY <2>5, <2>6, <4>3, MoverClear
    <3> QED
      BY <3>1, <3>2
  <2>10. [OldLayout EXCEPT ![pawn] = PhysicalPath[diceValue]] = Landed
    BY <1>2, <2>4, <2>6 DEF Landed
  <2>11. Entries("pawnMoved") = <<PawnMoved>>
    BY DEF Entries
  <2>12. ASSUME NEW state \in Shot(OldLayout, {})
         PROVE  Step(state, PawnMoved, Shot(Landed, {pawn}))
    <3> DEFINE event == PawnMoved
    <3>1. /\ event.type = "pawnMoved" /\ event.pawn = pawn /\ event.from \in BoardCoords
          /\ event.path = PhysicalPath /\ Len(event.path) = diceValue
          /\ event.path \in Seq(BoardCoords) /\ event.path # <<>>
          /\ Clear([OldLayout EXCEPT ![event.pawn] = event.from])
          /\ \A k \in 1 .. Len(event.path) : Clear([OldLayout EXCEPT ![event.pawn] = event.path[k]])
      BY <1>3, <2>1, <2>3, <2>6, <2>7, <2>8, <2>9
    <3> HIDE DEF event
    <3>2. Step(state, event, Scene([OldLayout EXCEPT ![event.pawn] = event.path[Len(event.path)]],
                                   {} \union {event.pawn}, currentPlayer, Nobody))
      BY <1>1, <1>4, <3>1, MoveEntry
    <3>3. /\ [OldLayout EXCEPT ![event.pawn] = event.path[Len(event.path)]] = Landed
          /\ {} \union {event.pawn} = {pawn}
      BY <2>10, <3>1
    <3> QED
      BY <3>2, <3>3 DEF event
  <2> HIDE DEF Shot
  <2> QED
    BY <1>5, <1>6, <2>11, <2>12, EmittedLeads
<1>9. Leads(Shot(Landed, {pawn}), Emitted("pawnCaptured"), Shot(struck, {pawn}))
  <2>1. CASE Captured
    <3> DEFINE event == PawnCaptured
    <3>1. /\ event.type = "pawnCaptured" /\ event.pawn = CapturedPawn /\ event.by = pawn
          /\ event.at = PhysicalPath[diceValue]
      BY <1>2 DEF PawnCaptured
    <3>2. PhysicalPath[diceValue] = PathOf(position, pawn, diceValue)
      <4>1. diceValue \in 1 .. diceValue
        BY <1>2, BoardAssumption
      <4> QED
        BY <1>2, <4>1 DEF PhysicalPath
    <3>3. struck = [Landed EXCEPT ![CapturedPawn] = Nowhere] /\ Clear(struck)
      BY <1>3, <2>1
    <3>4. Entries("pawnCaptured") = <<event>>
      BY DEF Entries
    <3> HIDE DEF event, struck
    <3>5. ASSUME NEW state \in Shot(Landed, {pawn})
          PROVE  Step(state, event, Shot(struck, {pawn}))
      <4>1. /\ event.pawn \in Pawns /\ event.by \in Pawns /\ event.by \in {pawn}
            /\ event.at \in BoardCoords
            /\ Landed[event.by] = event.at /\ Landed[event.pawn] = event.at
            /\ struck = [Landed EXCEPT ![event.pawn] = Nowhere]
        BY <1>2, <1>3, <2>1, <3>1, <3>2, <3>3
      <4>2. Clear(Landed) /\ Clear([Landed EXCEPT ![event.pawn] = Nowhere])
        BY <1>3, <3>3, <4>1
      <4>3. Step(state, event, Scene([Landed EXCEPT ![event.pawn] = Nowhere], {pawn},
                                     currentPlayer, Nobody))
        BY <1>1, <1>3, <3>1, <4>1, <4>2, CaptureEntry
      <4> QED
        BY <4>1, <4>3
    <3> HIDE DEF Shot
    <3> QED
      BY <1>6, <2>1, <3>4, <3>5, EmittedLeads DEF Captured
  <2>2. CASE ~ Captured
    <3>1. struck = Landed
      BY <2>2
    <3> HIDE DEF struck
    <3> QED
      BY <2>2, <3>1, NotEmittedLeads DEF Captured
  <2> QED
    BY <2>1, <2>2
<1>10. struck = IF "pawnRemoved" \in events' THEN Landed ELSE NewLayout
  BY <1>2, <1>3
<1> HIDE DEF struck
<1>11. Leads(Shot(struck, {pawn}), Emitted("pawnEnteredHome"), Shot(struck, {pawn}))
  <2>1. CASE "pawnEnteredHome" \in events'
    <3> DEFINE event == PawnEnteredHome
    <3>1. AdvancePosition(position[pawn], diceValue).zone = "HOME"
      BY <2>1, MoveEmits
    <3>2. /\ position'[pawn] = AdvancePosition(position[pawn], diceValue)
          /\ "pawnRemoved" \notin events'
      BY <1>1, <3>1, MoveEffect, VictimOfMove DEF InactiveCorner
    <3>3. OnBoard(position'[pawn]) /\ struck = NewLayout
      BY <1>10, <3>1, <3>2 DEF OnBoard
    <3>4. event.type = "pawnEnteredHome" /\ event.pawn = pawn /\ event.to = NewLayout[pawn]
      BY <1>2 DEF PawnEnteredHome, NewLayout
    <3>5. event.to \in BoardCoords
      BY <1>1, <3>3, <3>4, SnapshotLayouts
    <3>6. Entries("pawnEnteredHome") = <<event>>
      BY DEF Entries
    <3> HIDE DEF event
    <3>7. ASSUME NEW state \in Shot(struck, {pawn})
          PROVE  Step(state, event, Shot(struck, {pawn}))
      <4>1. /\ event.pawn \in Pawns /\ struck[event.pawn] = event.to /\ Clear(struck)
            /\ struck \in Layouts
        BY <1>3, <1>4, <3>3, <3>4
      <4> QED
        BY <1>1, <3>4, <3>5, <4>1, HomeEntry
    <3> HIDE DEF Shot
    <3> QED
      BY <1>6, <2>1, <3>6, <3>7, EmittedLeads
  <2>2. CASE "pawnEnteredHome" \notin events'
    BY <2>2, NotEmittedLeads
  <2> QED
    BY <2>1, <2>2
<1>12. Leads(Shot(struck, {pawn}), Emitted("playerSurrendered"), Shot(struck, {pawn}))
  BY <1>5, NotEmittedLeads
<1>13. Leads(Shot(struck, {pawn}), Emitted("pawnRemoved"), Shot(NewLayout, {pawn}))
  <2>1. CASE "pawnRemoved" \in events'
    <3> DEFINE event == PawnRemoved(pawn)
    <3>1. event.type = "pawnRemoved" /\ event.pawn = pawn
      BY DEF PawnRemoved
    <3>2. Entries("pawnRemoved") = <<event>>
      <4>1. RemovedPawns = <<pawn>>
        BY <1>2, <1>5 DEF RemovedPawns
      <4>2. Len(<<pawn>>) = 1 /\ <<pawn>>[1] = pawn
        OBVIOUS
      <4>3. Entries("pawnRemoved") = [i \in 1 .. 1 |-> event]
        BY <4>1, <4>2 DEF Entries
      <4> QED
        BY <4>3
    <3> HIDE DEF event
    <3>3. struck = Landed /\ NewLayout = [Landed EXCEPT ![event.pawn] = Nowhere]
      BY <1>3, <1>10, <2>1, <3>1
    <3>4. Clear([Landed EXCEPT ![event.pawn] = OldLayout[event.pawn]])
      BY <1>3, <2>1, <3>1
    <3>5. ASSUME NEW state \in Shot(struck, {pawn})
          PROVE  Step(state, event, Shot(NewLayout, {pawn}))
      <4>1. event.pawn \in Pawns /\ Clear([Landed EXCEPT ![event.pawn] = Nowhere])
        BY <1>3, <3>1, <3>3
      <4>2. state \in Scene(Landed, {pawn}, currentPlayer, Nobody)
        BY <3>3
      <4>3. Step(state, event, Scene([Landed EXCEPT ![event.pawn] = Nowhere], {pawn},
                                     currentPlayer, Nobody))
        BY <1>1, <1>3, <3>1, <3>4, <4>1, <4>2, RemoveEntry
      <4> QED
        BY <3>3, <4>3
    <3> HIDE DEF Shot
    <3> QED
      BY <1>6, <2>1, <3>2, <3>5, EmittedLeads
  <2>2. CASE "pawnRemoved" \notin events'
    <3>1. struck = NewLayout
      BY <1>10, <2>2
    <3> QED
      BY <2>2, <3>1, NotEmittedLeads
  <2> QED
    BY <2>1, <2>2
<1> HIDE DEF Shot
<1>14. /\ Leads(Shot(OldLayout, {}), PawnPayloads, Shot(NewLayout, {pawn}))
       /\ PawnPayloads \in Seq(EventPayloads)
  BY <1>1, <1>7, <1>8, <1>9, <1>11, <1>12, <1>13, PawnPayloadsLead
<1> QED
  BY <1>14 DEF Shot

(* A throw moves nobody.                                                   *)
LEMMA RollLeads ==
  ASSUME MatchInv, MatchInv', NEW dice \in 1 .. MaxDie, RollDice(dice)
  PROVE  /\ Leads(Scene(OldLayout, {}, currentPlayer, Nobody), PawnPayloads,
                  Scene(NewLayout, {}, currentPlayer, Nobody))
         /\ PawnPayloads \in Seq(EventPayloads)
         /\ Clear(OldLayout) /\ Clear(NewLayout)
<1>1. TurnInv /\ Next
  BY DEF MatchInv, Next
<1>2. \A kind \in PawnKinds \union {"playerSurrendered"} : kind \notin events'
  BY DEF RollDice, Emit, PawnKinds
<1>3. NewLayout = OldLayout
  BY DEF RollDice, NewLayout, OldLayout, PawnCoordinate, Cell
<1>4. Clear(OldLayout) /\ Clear(NewLayout)
  BY <1>2, OldAndNewClear DEF Captured, PawnKinds
<1> DEFINE S == Scene(OldLayout, {}, currentPlayer, Nobody)
<1>5. \A kind \in PawnKinds \union {"playerSurrendered"} : Leads(S, Emitted(kind), S)
  BY <1>2, NotEmittedLeads
<1> HIDE DEF S
<1>6. Leads(S, PawnPayloads, S) /\ PawnPayloads \in Seq(EventPayloads)
  BY <1>1, <1>5, PawnPayloadsLead DEF PawnKinds
<1> QED
  BY <1>3, <1>4, <1>6 DEF S

(* A pawn that enters walks from its reserve to its corner.                *)
LEMMA EnterLeads ==
  ASSUME MatchInv, MatchInv', NEW pawn \in Pawns, EnterPawn(pawn)
  PROVE  /\ Leads(Scene(OldLayout, {}, currentPlayer, Nobody), PawnPayloads,
                  Scene(NewLayout, {}, currentPlayer, Nobody))
         /\ PawnPayloads \in Seq(EventPayloads)
         /\ Clear(OldLayout) /\ Clear(NewLayout)
<1>1. /\ TurnInv /\ Next /\ TypeOK /\ TypeOK' /\ UniqueOccupancy /\ UniqueOccupancy'
  BY DEF MatchInv, TurnInv, Next
<1>2. /\ events' = {"pawnEntered", "extraRollGranted"}
  BY <1>1, EnterNeverWins DEF EnterPawn
<1>3. /\ MovedPawn = pawn /\ position[pawn] = OffBoard /\ position'[pawn] = Perimeter(0)
      /\ \A other \in Pawns : other # pawn => position'[other] = position[other]
  BY <1>1, MovedPawnOfTurn, EnterPlacement
<1>4. ~ OnBoard(position[pawn]) /\ OnBoard(position'[pawn])
  BY <1>3 DEF OnBoard, OffBoard, Perimeter
<1>5. /\ OldLayout \in Layouts /\ NewLayout \in Layouts
      /\ OldLayout[pawn] = Nowhere /\ NewLayout[pawn] \in BoardCoords
  BY <1>1, <1>4, SnapshotLayouts
<1>6. \A other \in Pawns : other # pawn => NewLayout[other] = OldLayout[other]
  BY <1>3 DEF NewLayout, OldLayout, PawnCoordinate, Cell
<1>7. /\ [OldLayout EXCEPT ![pawn] = Nowhere] = OldLayout
      /\ [OldLayout EXCEPT ![pawn] = NewLayout[pawn]] = NewLayout
  BY <1>5, <1>6 DEF Layouts
<1>8. Clear(OldLayout) /\ Clear(NewLayout)
  BY <1>2, OldAndNewClear DEF Captured
<1> DEFINE Shot(at) == Scene(at, {}, currentPlayer, Nobody)
<1>9. \A at : Shot(at) \in SUBSET AnimationStates
  BY SceneTyped
<1>10. Leads(Shot(OldLayout), Emitted("pawnEntered"), Shot(NewLayout))
  <2> DEFINE event == PawnEntered
  <2>1. event.type = "pawnEntered" /\ event.pawn = pawn /\ event.to = NewLayout[pawn]
    BY <1>3 DEF PawnEntered, NewLayout
  <2>2. Entries("pawnEntered") = <<event>>
    BY DEF Entries
  <2> HIDE DEF event
  <2>3. ASSUME NEW state \in Shot(OldLayout) PROVE Step(state, event, Shot(NewLayout))
    <3>1. /\ event.pawn \in Pawns /\ event.to \in BoardCoords /\ ~ OnBoard(position[event.pawn])
          /\ Clear([OldLayout EXCEPT ![event.pawn] = Nowhere])
          /\ Clear([OldLayout EXCEPT ![event.pawn] = event.to])
          /\ [OldLayout EXCEPT ![event.pawn] = event.to] = NewLayout
      BY <1>4, <1>5, <1>7, <1>8, <2>1
    <3>2. Step(state, event, Scene([OldLayout EXCEPT ![event.pawn] = event.to], {},
                                   currentPlayer, Nobody))
      BY <1>1, <1>5, <2>1, <3>1, EnterEntry
    <3> QED
      BY <3>1, <3>2
  <2> HIDE DEF Shot
  <2> QED
    BY <1>2, <1>9, <2>2, <2>3, EmittedLeads
<1>11. \A kind \in (PawnKinds \ {"pawnEntered"}) \union {"playerSurrendered"} :
         Leads(Shot(NewLayout), Emitted(kind), Shot(NewLayout))
  <2>1. \A kind \in (PawnKinds \ {"pawnEntered"}) \union {"playerSurrendered"} : kind \notin events'
    BY <1>2 DEF PawnKinds
  <2> QED
    BY <2>1, NotEmittedLeads
<1> HIDE DEF Shot
<1>12. Leads(Shot(OldLayout), PawnPayloads, Shot(NewLayout)) /\ PawnPayloads \in Seq(EventPayloads)
  BY <1>1, <1>10, <1>11, PawnPayloadsLead DEF PawnKinds
<1> QED
  BY <1>8, <1>12 DEF Shot

(* After k entries of a surrender the first k pawns of the player are gone.*)
Leaving(player, k) ==
  [pawn \in Pawns |-> IF Owner(pawn) = player /\ pawn[2] <= k THEN Nowhere ELSE OldLayout[pawn]]

(* These layouts lead from the old one to the new one and keep the others  *)
(* in sight.                                                               *)
LEMMA LeavingLayouts ==
  ASSUME MatchInv, MatchInv', NEW player \in Players, Surrender(player)
  PROVE  /\ \A k \in 0 .. PawnsPerPlayer :
              Leaving(player, k) \in Layouts /\ Clear(Leaving(player, k))
         /\ \A k \in 1 .. PawnsPerPlayer :
              /\ [Leaving(player, k - 1) EXCEPT ![<<player, k>>] = OldLayout[<<player, k>>]]
                   = Leaving(player, k - 1)
              /\ [Leaving(player, k - 1) EXCEPT ![<<player, k>>] = Nowhere] = Leaving(player, k)
         /\ Leaving(player, 0) = OldLayout /\ Leaving(player, PawnsPerPlayer) = NewLayout
         /\ Clear(OldLayout) /\ Clear(NewLayout)
<1>1. /\ TurnInv /\ Next /\ TypeOK /\ TypeOK' /\ UniqueOccupancy /\ UniqueOccupancy'
  BY DEF MatchInv, TurnInv, Next
<1>2. PawnsPerPlayer \in Nat \ {0}
  BY BoardAssumption
<1>3. \A pawn \in Pawns : /\ pawn = <<Owner(pawn), pawn[2]>>
                          /\ Owner(pawn) \in Players /\ pawn[2] \in 1 .. PawnsPerPlayer
  BY DEF Pawns, Owner
<1>4. \A k \in 1 .. PawnsPerPlayer : /\ <<player, k>> \in Pawns
                                     /\ Owner(<<player, k>>) = player /\ <<player, k>>[2] = k
  BY DEF Pawns, Owner
<1>5. /\ OldLayout \in Layouts /\ NewLayout \in Layouts
      /\ \A pawn \in Pawns :
           /\ OnBoard(position[pawn]) => OldLayout[pawn] # Nowhere
           /\ ~ OnBoard(position'[pawn]) => NewLayout[pawn] = Nowhere
      /\ \A a, b \in Pawns : a # b /\ OldLayout[a] = OldLayout[b] => OldLayout[a] = Nowhere
  BY <1>1, SnapshotLayouts, OtherAnchors
<1>6. \A pawn \in Pawns : position'[pawn] = IF Owner(pawn) = player THEN Removed ELSE position[pawn]
  BY DEF Surrender, RemovePlayerPawns
<1>7. ~ OnBoard(Removed)
  BY DEF OnBoard, Removed
<1>8. ~ Captured
  BY DEF Surrender, Emit, Captured
<1>9. \A pawn \in Pawns :
        NewLayout[pawn] = IF Owner(pawn) = player THEN Nowhere ELSE OldLayout[pawn]
  <2>1. \A pawn \in Pawns : position'[pawn] = position[pawn] => NewLayout[pawn] = OldLayout[pawn]
    BY DEF NewLayout, OldLayout, PawnCoordinate, Cell
  <2> QED
    BY <1>5, <1>6, <1>7, <2>1
<1>10. \A k : /\ Leaving(player, k) \in Layouts
              /\ \A pawn \in Pawns :
                   Leaving(player, k)[pawn] = IF Owner(pawn) = player /\ pawn[2] <= k
                                              THEN Nowhere ELSE OldLayout[pawn]
  BY <1>5 DEF Leaving, Layouts
<1>11. \A k : Clear(Leaving(player, k))
  BY <1>5, <1>6, <1>7, <1>8, <1>10 DEF Clear, Captured
<1>12. ASSUME NEW one \in Layouts, NEW other \in Layouts,
              \A pawn \in Pawns : one[pawn] = other[pawn]
       PROVE  one = other
  BY <1>12 DEF Layouts
<1>13. Leaving(player, 0) = OldLayout
  <2>1. \A pawn \in Pawns : ~ (pawn[2] <= 0)
    BY <1>2, <1>3
  <2> QED
    BY <1>5, <1>10, <1>12, <2>1
<1>14. Leaving(player, PawnsPerPlayer) = NewLayout
  <2>1. \A pawn \in Pawns : pawn[2] <= PawnsPerPlayer
    BY <1>2, <1>3
  <2>2. \A pawn \in Pawns : Leaving(player, PawnsPerPlayer)[pawn] = NewLayout[pawn]
    BY <1>9, <1>10, <2>1
  <2> QED
    BY <1>5, <1>10, <1>12, <2>2
<1>15. ASSUME NEW k \in 1 .. PawnsPerPlayer
       PROVE  /\ [Leaving(player, k - 1) EXCEPT ![<<player, k>>] = OldLayout[<<player, k>>]]
                   = Leaving(player, k - 1)
              /\ [Leaving(player, k - 1) EXCEPT ![<<player, k>>] = Nowhere] = Leaving(player, k)
  <2> DEFINE before == Leaving(player, k - 1)
             after  == Leaving(player, k)
             pawn   == <<player, k>>
  <2>1. pawn \in Pawns /\ Owner(pawn) = player /\ pawn[2] = k
    BY <1>4
  <2>2. /\ before \in Layouts /\ after \in Layouts
        /\ \A other \in Pawns :
             /\ before[other] = IF Owner(other) = player /\ other[2] <= k - 1
                                THEN Nowhere ELSE OldLayout[other]
             /\ after[other] = IF Owner(other) = player /\ other[2] <= k
                               THEN Nowhere ELSE OldLayout[other]
    BY <1>10
  <2>3. \A other \in Pawns :
          other[2] \in Int /\ (Owner(other) = player /\ other[2] = k => other = pawn)
    BY <1>3
  <2> HIDE DEF before, after, pawn
  <2>4. before[pawn] = OldLayout[pawn] /\ after[pawn] = Nowhere
    BY <2>1, <2>2, <2>3
  <2>5. \A other \in Pawns : other # pawn => after[other] = before[other]
    <3> SUFFICES ASSUME NEW other \in Pawns, other # pawn PROVE after[other] = before[other]
      OBVIOUS
    <3>1. Owner(other) = player => (other[2] <= k <=> other[2] <= k - 1)
      BY <2>3
    <3> QED
      BY <2>2, <3>1
  <2>6. [before EXCEPT ![pawn] = OldLayout[pawn]] = before
    BY <2>1, <2>2, <2>4 DEF Layouts
  <2>7. [before EXCEPT ![pawn] = Nowhere] = after
    BY <2>1, <2>2, <2>4, <2>5 DEF Layouts
  <2> QED
    BY <2>6, <2>7 DEF before, after, pawn
<1> QED
  BY <1>10, <1>11, <1>13, <1>14, <1>15

(* A surrender takes the pawns of the player away one by one.              *)
LEMMA SurrenderLeads ==
  ASSUME MatchInv, MatchInv', NEW player \in Players, Surrender(player)
  PROVE  /\ Leads(Scene(OldLayout, {}, currentPlayer, Nobody), PawnPayloads,
                  Scene(NewLayout, {}, currentPlayer, Nobody))
         /\ PawnPayloads \in Seq(EventPayloads)
         /\ Clear(OldLayout) /\ Clear(NewLayout)
<1>1. /\ TurnInv /\ Next /\ TypeOK /\ TypeOK' /\ UniqueOccupancy /\ UniqueOccupancy'
  BY DEF MatchInv, TurnInv, Next
<1>2. PawnsPerPlayer \in Nat \ {0}
  BY BoardAssumption
<1>3. "playerSurrendered" \in events' /\ Actor = player
  BY <1>1, ActorOfSurrender
<1>4. "pawnRemoved" \in events' /\ \A kind \in PawnKinds \ {"pawnRemoved"} : kind \notin events'
  BY DEF Surrender, Emit, PawnKinds
<1>5. /\ \A k \in 0 .. PawnsPerPlayer :
           Leaving(player, k) \in Layouts /\ Clear(Leaving(player, k))
      /\ \A k \in 1 .. PawnsPerPlayer :
           /\ [Leaving(player, k - 1) EXCEPT ![<<player, k>>] = OldLayout[<<player, k>>]]
                = Leaving(player, k - 1)
           /\ [Leaving(player, k - 1) EXCEPT ![<<player, k>>] = Nowhere] = Leaving(player, k)
      /\ Leaving(player, 0) = OldLayout /\ Leaving(player, PawnsPerPlayer) = NewLayout
      /\ Clear(OldLayout) /\ Clear(NewLayout)
  BY LeavingLayouts
<1> DEFINE Shot(at) == Scene(at, {}, currentPlayer, Nobody)
<1>6. \A at : Shot(at) \in SUBSET AnimationStates
  BY SceneTyped
<1>7. \A kind \in PawnKinds \ {"pawnRemoved"} :
        Leads(Shot(OldLayout), Emitted(kind), Shot(OldLayout))
  BY <1>4, NotEmittedLeads
<1>8. Leads(Shot(OldLayout), Emitted("playerSurrendered"), Shot(OldLayout))
  <2> DEFINE event == [type |-> "playerSurrendered", player |-> Actor]
  <2>1. event.type = "playerSurrendered"
    OBVIOUS
  <2>2. Entries("playerSurrendered") = <<event>>
    BY DEF Entries
  <2> HIDE DEF event
  <2>3. ASSUME NEW state \in Shot(OldLayout) PROVE Step(state, event, Shot(OldLayout))
    BY <1>1, <1>5, <2>1, StillEntry
  <2> HIDE DEF Shot
  <2> QED
    BY <1>3, <1>6, <2>2, <2>3, EmittedLeads
<1>9. Leads(Shot(OldLayout), Emitted("pawnRemoved"), Shot(NewLayout))
  <2> DEFINE entries == [k \in 1 .. PawnsPerPlayer |-> PawnRemoved(<<player, k>>)]
             stage   == [k \in 0 .. PawnsPerPlayer |-> Shot(Leaving(player, k))]
  <2>1. Emitted("pawnRemoved") = entries
    <3> DEFINE removed == [slot \in 1 .. PawnsPerPlayer |-> <<player, slot>>]
    <3>1. RemovedPawns = removed
      BY <1>3 DEF RemovedPawns
    <3>2. Len(removed) = PawnsPerPlayer
      BY <1>2
    <3>3. \A k \in 1 .. PawnsPerPlayer : removed[k] = <<player, k>>
      OBVIOUS
    <3> HIDE DEF removed
    <3>4. Entries("pawnRemoved") = [k \in 1 .. PawnsPerPlayer |-> PawnRemoved(removed[k])]
      BY <3>1, <3>2 DEF Entries
    <3> QED
      BY <1>4, <3>3, <3>4 DEF Emitted
  <2>2. Len(entries) = PawnsPerPlayer
    BY <1>2
  <2>3. \A k \in 1 .. PawnsPerPlayer : entries[k] = PawnRemoved(<<player, k>>)
    OBVIOUS
  <2> HIDE DEF entries
  <2>4. ASSUME NEW k \in 1 .. PawnsPerPlayer, NEW state \in Shot(Leaving(player, k - 1))
        PROVE  Step(state, entries[k], Shot(Leaving(player, k)))
    <3> DEFINE event == PawnRemoved(<<player, k>>)
               at    == Leaving(player, k - 1)
    <3>1. event.type = "pawnRemoved" /\ event.pawn = <<player, k>> /\ <<player, k>> \in Pawns
      BY DEF PawnRemoved, Pawns
    <3>2. k - 1 \in 0 .. PawnsPerPlayer /\ k \in 0 .. PawnsPerPlayer
      BY <1>2
    <3>3. /\ at \in Layouts /\ Clear(at) /\ Clear(Leaving(player, k))
          /\ [at EXCEPT ![<<player, k>>] = OldLayout[<<player, k>>]] = at
          /\ [at EXCEPT ![<<player, k>>] = Nowhere] = Leaving(player, k)
      BY <1>5, <3>2
    <3>4. state \in Scene(at, {}, currentPlayer, Nobody)
      OBVIOUS
    <3>5. entries[k] = event
      BY <2>3
    <3> HIDE DEF event, at, Shot
    <3>6. /\ event.pawn \in Pawns
          /\ Clear([at EXCEPT ![event.pawn] = OldLayout[event.pawn]])
          /\ Clear([at EXCEPT ![event.pawn] = Nowhere])
          /\ [at EXCEPT ![event.pawn] = Nowhere] = Leaving(player, k)
      BY <3>1, <3>3
    <3>7. Step(state, event, Scene([at EXCEPT ![event.pawn] = Nowhere], {},
                                   currentPlayer, Nobody))
      BY <1>1, <3>1, <3>3, <3>4, <3>6, RemoveEntry
    <3> QED
      BY <3>5, <3>6, <3>7 DEF Shot
  <2> HIDE DEF Shot
  <2>5. /\ stage \in [0 .. PawnsPerPlayer -> SUBSET AnimationStates]
        /\ stage[0] = Shot(OldLayout) /\ stage[PawnsPerPlayer] = Shot(NewLayout)
    BY <1>2, <1>5, <1>6
  <2>6. \A k \in 1 .. PawnsPerPlayer : /\ stage[k - 1] = Shot(Leaving(player, k - 1))
                                       /\ stage[k] = Shot(Leaving(player, k))
    BY <1>2
  <2> HIDE DEF stage
  <2>7. Stages(stage, entries)
    BY <2>2, <2>4, <2>6 DEF Stages
  <2>8. Leads(Shot(OldLayout), entries, Shot(NewLayout))
    BY <2>2, <2>5, <2>7 DEF Leads
  <2> QED
    BY <2>1, <2>8
<1> HIDE DEF Shot
<1>10. Leads(Shot(OldLayout), PawnPayloads, Shot(NewLayout)) /\ PawnPayloads \in Seq(EventPayloads)
  BY <1>1, <1>7, <1>8, <1>9, PawnPayloadsLead DEF PawnKinds
<1> QED
  BY <1>5, <1>10 DEF Shot

(* So the entries about pawns lead from the old snapshot to the new one.   *)
LEMMA PawnsLead ==
  ASSUME MatchInv, MatchInv', Next
  PROVE  \E held : /\ Leads(Scene(OldLayout, {}, currentPlayer, Nobody), PawnPayloads,
                            Scene(NewLayout, held, currentPlayer, Nobody))
                   /\ PawnPayloads \in Seq(EventPayloads)
                   /\ Clear(OldLayout) /\ Clear(NewLayout)
<1>1. ASSUME NEW pawn \in Pawns, MovePawn(pawn) PROVE Clear(OldLayout) /\ Clear(NewLayout)
  BY <1>1, MoveLayouts
<1> QED
  BY <1>1, RollLeads, EnterLeads, MoveLeads, SurrenderLeads DEF Next

(* The player to move changes only with an entry that says so, and only    *)
(* the player to move rolls again.                                         *)
LEMMA HandoverTold ==
  ASSUME TurnInv, Next
  PROVE  /\ currentPlayer \in Players
         /\ "extraRollGranted" \in events' => Actor = currentPlayer
         /\ status' = "ACTIVE" /\ "turnChanged" \notin events' => currentPlayer' = currentPlayer
<1>1. status = "ACTIVE"
  BY DEF Next, RollDice, EnterPawn, MovePawn, Surrender
<1>2. currentPlayer \in Players
  BY <1>1 DEF TurnInv, SnapshotShape
<1>3. ASSUME NEW dice \in 1 .. MaxDie, RollDice(dice), "turnChanged" \notin events'
      PROVE  currentPlayer' = currentPlayer
  BY <1>3 DEF RollDice, GrantExtraRoll, Emit
<1>4. ASSUME NEW pawn \in Pawns, EnterPawn(pawn)
      PROVE  currentPlayer' = currentPlayer
  BY <1>4, EnterNeverWins DEF GrantExtraRoll
<1>5. ASSUME NEW pawn \in Pawns, MovePawn(pawn), status' = "ACTIVE", "turnChanged" \notin events'
      PROVE  currentPlayer' = currentPlayer
  <2>1. ~ IsWinningState(position', currentPlayer)
    BY <1>5 DEF MovePawn, ProjectTerminalState, Turn!Finish
  <2> QED
    BY <1>5, <2>1 DEF MovePawn, GrantExtraRoll, Emit
<1>6. ASSUME NEW player \in Players, Surrender(player)
      PROVE  /\ "extraRollGranted" \notin events'
             /\ status' = "ACTIVE" /\ "turnChanged" \notin events'
                  => currentPlayer' = currentPlayer
  BY <1>6 DEF Surrender, ProjectTerminalState, Turn!Finish, Emit
<1>7. (\E player \in Players : Surrender(player)) \/ Actor = currentPlayer
  BY ActorOfTurn DEF Next
<1> QED
  BY <1>2, <1>3, <1>4, <1>5, <1>6, <1>7 DEF Next

(* The animation begins at the snapshot before the command.                *)
LEMMA BeginsAtSnapshot ==
  ASSUME MatchInv, currentPlayer \in Players
  PROVE  Locked(IdleFrame) \in Scene(OldLayout, {}, currentPlayer, Nobody)
<1>1. TypeOK
  BY DEF MatchInv, TurnInv
<1>2. /\ NoVisual \in Anchors /\ NoVisual \notin BoardCoords
      /\ Nowhere \in BoardCoords \union {Nowhere}
  BY OtherAnchors DEF Anchors, NoVisual
<1> DEFINE visual == [pawn \in Pawns |-> NoVisual]
<1>3. visual \in [Pawns -> Anchors] /\ \A pawn \in Pawns : visual[pawn] = NoVisual
  BY <1>2
<1> HIDE DEF visual
<1>4. /\ IdleFrame \in AnimationStates /\ IdleFrame.visual = visual /\ IdleFrame.hidden = {}
      /\ IdleFrame.player = currentPlayer /\ IdleFrame.victor = Nobody
  <2>1. IdleFrame = [visual |-> visual, hidden |-> {}, cue |-> Nowhere, rolling |-> FALSE,
                     player |-> currentPlayer, victor |-> Nobody, locked |-> FALSE]
    BY DEF IdleFrame, visual
  <2> QED
    BY <1>2, <1>3, <2>1 DEF AnimationStates
<1>5. ASSUME NEW pawn \in Pawns
      PROVE  CellsDrawn(IdleFrame, pawn) = {OldLayout[pawn]} \ {Nowhere}
  <2>1. CellsDrawn(IdleFrame, pawn) =
          IF OnBoard(position[pawn]) THEN {Cell(position, pawn)} ELSE {}
    BY <1>1, <1>2, <1>3, <1>4, WhatIsDrawn
  <2>2. /\ OnBoard(position[pawn]) => /\ OldLayout[pawn] = Cell(position, pawn)
                                      /\ OldLayout[pawn] # Nowhere
        /\ ~ OnBoard(position[pawn]) => OldLayout[pawn] = Nowhere
    BY <1>1, CoordinateOnBoard, OtherAnchors DEF TypeOK, OldLayout, PawnCoordinate
  <2> QED
    BY <2>1, <2>2
<1> HIDE DEF visual
<1>6. IdleFrame \in Scene(OldLayout, {}, currentPlayer, Nobody)
  BY <1>4, <1>5 DEF Scene
<1> QED
  BY <1>1, <1>6, SceneStill DEF Unmoved

(* The state it ends in, once released, shows the snapshot after it.       *)
LEMMA EndsAtSnapshot ==
  ASSUME MatchInv, MatchInv', Next, Clear(NewLayout), NEW held,
         NEW state \in Scene(NewLayout, held, PlayerShown, winner')
  PROVE  Released(state) \in GoodStates /\ ShowsSnapshot(Released(state))
<1>1. TypeOK /\ TurnInv /\ TypeOK' /\ TurnInv'
  BY DEF MatchInv, TurnInv
<1>2. Released(state) \in Scene(NewLayout, held, PlayerShown, winner')
  BY <1>1, SceneStill DEF Unmoved
<1>3. /\ Released(state).player = PlayerShown /\ Released(state).victor = winner'
      /\ \A pawn \in Pawns :
           CellsDrawn(Released(state), pawn) = {PawnCoordinate(position', pawn)} \ {Nowhere}
  BY <1>2 DEF Scene, NewLayout
<1>4. ~ Released(state).locked /\ Released(state).cue = Nowhere
  <2>1. state \in AnimationStates
    BY DEF Scene
  <2> QED
    BY <2>1 DEF Released, AnimationStates
<1>5. status' = "ACTIVE" => PlayerShown = currentPlayer'
  BY <1>1, HandoverTold DEF PlayerShown
<1>6. ShowsSnapshot(Released(state))
  BY <1>3, <1>4, <1>5 DEF ShowsSnapshot
<1> QED
  BY <1>2, <1>6, SceneInSight

(* So every transition is played from the one to the other in good frames. *)
LEMMA AnimationPlays ==
  ASSUME JournalInv, MatchInv, MatchInv', JournalNext
  PROVE  /\ AnimationFrames \in Seq(GoodStates)
         /\ Len(AnimationFrames) \in Nat \ {0}
         /\ ShowsSnapshot(AnimationFrames[Len(AnimationFrames)])
<1>1. TurnInv /\ Next /\ UniqueOccupancy /\ UniqueOccupancy' /\ TypeOK
  BY DEF MatchInv, TurnInv, JournalNext
<1>2. /\ currentPlayer \in Players /\ Actor \in Players
      /\ "extraRollGranted" \in events' => Actor = currentPlayer
  BY <1>1, HandoverTold, PawnPayloadsFit
<1>3. PICK held : /\ Leads(Scene(OldLayout, {}, currentPlayer, Nobody), PawnPayloads,
                           Scene(NewLayout, held, currentPlayer, Nobody))
                  /\ PawnPayloads \in Seq(EventPayloads)
                  /\ Clear(OldLayout) /\ Clear(NewLayout)
  BY <1>1, PawnsLead
<1> DEFINE begin == Scene(OldLayout, {}, currentPlayer, Nobody)
           moved == Scene(NewLayout, held, currentPlayer, Nobody)
           then  == Scene(NewLayout, held, PlayerShown, Nobody)
           after == Scene(NewLayout, held, PlayerShown, winner')
<1>4. Leads(begin, Emitted("diceRolled"), begin)
  <2> DEFINE event == [type |-> "diceRolled", player |-> Actor]
  <2>1. event.type = "diceRolled" /\ Entries("diceRolled") = <<event>>
    BY DEF Entries
  <2> HIDE DEF event
  <2>2. ASSUME NEW state \in begin PROVE Step(state, event, begin)
    BY <1>1, <1>2, <1>3, <2>1, StillEntry
  <2>3. begin \in SUBSET AnimationStates
    BY SceneTyped
  <2> HIDE DEF begin
  <2> QED
    BY <2>1, <2>2, <2>3, EmittedLeads
<1>5. /\ Leads(moved, Emitted("extraRollGranted"), moved)
      /\ Leads(moved, Emitted("turnChanged"), then)
      /\ Leads(then, Emitted("gameWon"), after)
  BY <1>1, <1>2, <1>3, HandoverLeads
<1>6. Leads(begin, PawnPayloads, moved)
  BY <1>3
<1>7. Locked(IdleFrame) \in begin
  BY <1>2, BeginsAtSnapshot
<1> HIDE DEF begin, moved, then
<1>8. Leads(begin, Payloads, after)
  <2> HIDE DEF after
  <2> QED
    BY <1>1, <1>3, <1>4, <1>5, <1>6, PayloadsLead
<1>9. /\ Payloads \in Seq(EventPayloads)
      /\ Len(transition'.events) = Len(Payloads)
      /\ \A k \in 1 .. Len(Payloads) : transition'.events[k].payload = Payloads[k]
  BY <1>1, PayloadsFit, CommitFits
<1> DEFINE played == Playback(Locked(IdleFrame), transition'.events)
<1>10. played \in Reached /\ played.state \in after
  <2> HIDE DEF after
  <2> QED
    BY <1>7, <1>8, <1>9, PlaybackLeads
<1>11. AnimationFrames = Append(played.shown, Released(played.state))
  BY DEF AnimationFrames
<1> HIDE DEF played
<1>12. Released(played.state) \in GoodStates /\ ShowsSnapshot(Released(played.state))
  BY <1>1, <1>3, <1>10, EndsAtSnapshot
<1>13. played.shown \in Seq(GoodStates)
  BY <1>10 DEF Reached
<1>14. /\ AnimationFrames \in Seq(GoodStates)
       /\ Len(AnimationFrames) = Len(played.shown) + 1
       /\ AnimationFrames[Len(played.shown) + 1] = Released(played.state)
  BY <1>11, <1>12, <1>13
<1> QED
  BY <1>12, <1>13, <1>14

(* The invariants of the match hold while it is animated.                  *)
LEMMA AnimationInvHolds == AnimationSpec => [](JournalInv /\ MatchInv)
<1>1. AnimationSpec => JournalSpec
  <2>1. AnimationInit => JournalInit
    BY DEF AnimationInit
  <2>2. [AnimationNext]_animationVars => [JournalNext]_journalVars
    BY DEF AnimationNext, animationVars
  <2> QED
    BY <2>1, <2>2, PTL DEF AnimationSpec, JournalSpec
<1>2. JournalInv /\ UniqueOccupancy /\ NoPawnOnInactiveCorner => JournalInv /\ MatchInv
  BY DEF JournalInv, MatchInv
<1> QED
  BY <1>1, <1>2, JournalInvHolds, JournalImplementsSpec, UniqueOccupancyHolds,
     NoPawnOnInactiveCornerHolds, PTL

(* Whatever was sent, the animation of a transition ends in the snapshot   *)
(* that replaces the old one: every pawn on its cell or off the board, the *)
(* same player to move, the same winner and the controls free              *)
(* (game/animation-director.ts against game/board.tsx).                    *)
THEOREM AnimationEndsAtSnapshotHolds == AnimationSpec => AnimationEndsAtSnapshot
<1> DEFINE Ends == ShowsSnapshot(frames'[Len(frames')])
<1>1. /\ JournalInv /\ MatchInv /\ JournalInv' /\ MatchInv'
      /\ [AnimationNext]_animationVars
      => [Ends]_vars
  <2> SUFFICES ASSUME JournalInv, MatchInv, MatchInv', AnimationNext
               PROVE  Ends
    BY DEF animationVars, journalVars
  <2>1. JournalNext /\ frames' = AnimationFrames
    BY DEF AnimationNext
  <2> QED
    BY <2>1, AnimationPlays
<1> QED
  BY <1>1, AnimationInvHolds, PTL DEF AnimationSpec, AnimationEndsAtSnapshot

(* And on the way there no pawn is lost from sight or drawn on two cells,  *)
(* no two share a cell but an attacker and its victim, and a victim is     *)
(* there until its attacker has come: in every frame of every transition.  *)
THEOREM PawnsStayInSightHolds == AnimationSpec => PawnsStayInSight
<1> DEFINE Seen == \A i \in 1 .. Len(frames') : InSight(frames'[i])
<1>1. /\ JournalInv /\ MatchInv /\ JournalInv' /\ MatchInv'
      /\ [AnimationNext]_animationVars
      => [Seen]_vars
  <2> SUFFICES ASSUME JournalInv, MatchInv, MatchInv', AnimationNext
               PROVE  Seen
    BY DEF animationVars, journalVars
  <2>1. JournalNext /\ frames' = AnimationFrames
    BY DEF AnimationNext
  <2>2. frames' \in Seq(GoodStates)
    BY <2>1, AnimationPlays
  <2>3. \A i \in 1 .. Len(frames') : frames'[i] \in GoodStates
    BY <2>2
  <2> QED
    BY <2>3 DEF GoodStates
<1> QED
  BY <1>1, AnimationInvHolds, PTL DEF AnimationSpec, PawnsStayInSight

-----------------------------------------------------------------------------
(* The screen (MatchScreen).                                               *)

(* The four kinds of action are told apart by their type and their pawn.   *)
LEMMA ActionsApart ==
  /\ RollDiceAction # SurrenderAction
  /\ \A pawn \in Pawns :
       /\ EnterPawnAction(pawn).pawn = pawn /\ MovePawnAction(pawn).pawn = pawn
       /\ EnterPawnAction(pawn) # MovePawnAction(pawn)
       /\ EnterPawnAction(pawn) # RollDiceAction /\ MovePawnAction(pawn) # RollDiceAction
       /\ EnterPawnAction(pawn) # SurrenderAction /\ MovePawnAction(pawn) # SurrenderAction
  /\ RollDiceAction.pawn = <<>> /\ SurrenderAction.pawn = <<>> /\ <<>> \notin Pawns
  BY DEF RollDiceAction, SurrenderAction, EnterPawnAction, MovePawnAction, Pawns

(* The legal actions, by phase.                                            *)
LEMMA LegalByPhase ==
  ASSUME TurnInv, NEW player \in Players
  PROVE  /\ LegalActions(player) # {} =>
              status = "ACTIVE" /\ LegalActions(player)
                = LegalTurnActions(player) \union {SurrenderAction}
         /\ SurrenderAction \notin LegalTurnActions(player)
         /\ LegalTurnActions(player) =
              IF status = "ACTIVE" /\ currentPlayer = player
              THEN IF turnPhase = "WAITING_FOR_ROLL" THEN {RollDiceAction}
                   ELSE PawnActions(player)
              ELSE {}
<1>1. /\ status = "ACTIVE" /\ currentPlayer = player => playerStatus[player] = "ACTIVE"
      /\ status = "ACTIVE" => turnPhase # "NONE"
      /\ status = "ACTIVE" => (turnPhase = "WAITING_FOR_ACTION" <=> diceValue # NoDice)
      /\ turnPhase \in {"WAITING_FOR_ROLL", "WAITING_FOR_ACTION", "NONE"}
  BY DEF TurnInv, SnapshotShape, TypeOK
<1>2. \A action \in PawnActions(player) :
        action.pawn \in Pawns /\ action # RollDiceAction /\ action # SurrenderAction
  BY ActionsApart DEF PawnActions, Enterable, Movable
<1>3. SurrenderAction \notin LegalTurnActions(player)
  BY <1>2, ActionsApart DEF LegalTurnActions
<1>4. LegalTurnActions(player) =
        IF status = "ACTIVE" /\ currentPlayer = player
        THEN IF turnPhase = "WAITING_FOR_ROLL" THEN {RollDiceAction}
             ELSE PawnActions(player)
        ELSE {}
  <2>1. CASE ~ (status = "ACTIVE" /\ currentPlayer = player)
    BY <2>1 DEF LegalTurnActions, IsActivePlayer
  <2>2. CASE status = "ACTIVE" /\ currentPlayer = player /\ turnPhase = "WAITING_FOR_ROLL"
    BY <1>1, <1>2, <2>2 DEF LegalTurnActions, IsActivePlayer
  <2>3. CASE status = "ACTIVE" /\ currentPlayer = player /\ turnPhase = "WAITING_FOR_ACTION"
    BY <1>1, <1>2, <2>3 DEF LegalTurnActions, IsActivePlayer
  <2> QED
    BY <1>1, <2>1, <2>2, <2>3
<1> QED
  BY <1>3, <1>4 DEF LegalActions, IsActivePlayer

(* A pawn that can be moved is on the board, one that can be entered is not;*)
(* so no pawn has two actions, and every pawn that has one is drawn.       *)
LEMMA LegalPawnsDrawn ==
  ASSUME TurnInv, NEW player \in Players, NEW compact \in BOOLEAN,
         NEW action \in LegalActions(player), action.pawn \in Pawns
  PROVE  /\ action.pawn \in DrawnPawns(player, compact)
         /\ PawnActionsById(player, action.pawn) = {action}
<1> DEFINE pawn == action.pawn
<1>1. /\ action \in PawnActions(player) /\ status = "ACTIVE" /\ currentPlayer = player
      /\ turnPhase = "WAITING_FOR_ACTION"
      /\ \A other \in LegalActions(player) : other.pawn = pawn => other \in PawnActions(player)
  <2>1. /\ turnPhase \in {"WAITING_FOR_ROLL", "WAITING_FOR_ACTION", "NONE"}
        /\ status = "ACTIVE" => turnPhase # "NONE"
    BY DEF TurnInv, TypeOK, SnapshotShape
  <2>2. \A other \in LegalActions(player) :
          other.pawn \in Pawns => other \in LegalTurnActions(player) /\ other # RollDiceAction
    BY ActionsApart DEF LegalActions
  <2>3. \A other \in LegalTurnActions(player) :
          other # RollDiceAction => /\ status = "ACTIVE" /\ currentPlayer = player
                                    /\ turnPhase = "WAITING_FOR_ACTION"
                                    /\ other \in PawnActions(player)
    BY <2>1, LegalByPhase
  <2> QED
    BY <2>2, <2>3
<1>2. \/ /\ action = EnterPawnAction(pawn) /\ pawn \in Enterable(position, player, diceValue)
      \/ /\ action = MovePawnAction(pawn) /\ pawn \in Movable(position, player, diceValue)
  BY <1>1, ActionsApart DEF PawnActions, Enterable, Movable
<1>3. \A other \in LegalActions(player) : other.pawn = pawn =>
        \/ other = EnterPawnAction(pawn) /\ pawn \in Enterable(position, player, diceValue)
        \/ other = MovePawnAction(pawn) /\ pawn \in Movable(position, player, diceValue)
  BY <1>1, ActionsApart DEF PawnActions, Enterable, Movable
<1>4. /\ pawn \in Enterable(position, player, diceValue) =>
           Owner(pawn) = player /\ diceValue = MaxDie /\ position[pawn] = OffBoard
      /\ pawn \in Movable(position, player, diceValue) => OnBoard(position[pawn])
  BY DEF Enterable, CanEnterPawn, Movable, CanMovePawn, Fits
<1>5. ~ OnBoard(OffBoard) /\ OffBoard # Removed
  BY DEF OnBoard, OffBoard, Removed
<1>6. PawnActionsById(player, pawn) = {action}
  <2>1. {other \in LegalActions(player) : other.pawn = pawn} = {action}
    BY <1>2, <1>3, <1>4, <1>5
  <2> QED
    BY <1>2, <2>1, ActionsApart DEF PawnActionsById
<1>7. pawn \in DrawnPawns(player, compact)
  <2>1. CASE pawn \in Movable(position, player, diceValue)
    BY <1>4, <2>1 DEF DrawnPawns, BoardPawns
  <2>2. CASE pawn \in Enterable(position, player, diceValue)
    <3>1. ShowsPawnTray(player)
      BY <1>1, <1>4, <2>2 DEF ShowsPawnTray
    <3> QED
      BY <1>4, <1>5, <2>2, <3>1 DEF DrawnPawns, PawnTray, ReservePawns
  <2> QED
    BY <1>2, <2>1, <2>2
<1> QED
  BY <1>6, <1>7

(* Both layouts offer exactly the legal actions, and tell a player to act  *)
(* exactly when there is something to press besides giving up.             *)
THEOREM OffersTheLegalActionsHolds == Spec => []OffersTheLegalActions
<1>1. ASSUME TurnInv, ActionAvailable PROVE OffersTheLegalActions
  <2> SUFFICES ASSUME NEW player \in Players, NEW compact \in BOOLEAN
               PROVE  /\ Offered(player, compact) = LegalActions(player)
                      /\ Headline(player, compact) \in {"your turn", "choose a pawn"}
                           <=> LegalActions(player) \ {SurrenderAction} # {}
    BY DEF OffersTheLegalActions
  <2>1. /\ LegalActions(player) # {} => status = "ACTIVE"
        /\ \A action \in LegalActions(player) :
             action \in {RollDiceAction, SurrenderAction} \/ action.pawn \in Pawns
    <3>1. \A action \in PawnActions(player) : action.pawn \in Pawns
      BY ActionsApart DEF PawnActions, Enterable, Movable
    <3> QED
      BY <1>1, <3>1, LegalByPhase
  <2>2. Offered(player, compact) \subseteq LegalActions(player)
    BY DEF Offered, TurnCardButtons, MenuButtons, PawnButtons, PawnActionsById
  <2>3. ASSUME NEW action \in LegalActions(player) PROVE action \in Offered(player, compact)
    <3>1. status # "FINISHED"
      BY <2>1
    <3>2. CASE action \in {RollDiceAction, SurrenderAction}
      <4>1. \/ action \in TurnCardButtons(player, compact)
            \/ action \in MenuButtons(player, compact)
        BY <3>1, <3>2 DEF TurnCardButtons, MenuButtons
      <4> QED
        BY <4>1 DEF Offered
    <3>3. CASE action.pawn \in Pawns
      <4>1. /\ action.pawn \in DrawnPawns(player, compact)
            /\ action \in PawnActionsById(player, action.pawn)
        BY <1>1, <3>3, LegalPawnsDrawn
      <4> QED
        BY <4>1 DEF Offered, PawnButtons
    <3> QED
      BY <2>1, <3>2, <3>3
  <2>4. Offered(player, compact) = LegalActions(player)
    BY <2>2, <2>3
  <2>5. LegalActions(player) \ {SurrenderAction} # {} <=> LegalTurnActions(player) # {}
    <3>1. LegalTurnActions(player) # {} => LegalActions(player) # {}
      BY DEF LegalTurnActions, LegalActions
    <3> QED
      BY <1>1, <3>1, LegalByPhase
  <2>6. LegalTurnActions(player) # {} <=> status = "ACTIVE" /\ currentPlayer = player
    <3>1. turnPhase = "WAITING_FOR_ACTION" /\ currentPlayer = player => PawnActions(player) # {}
      BY <1>1 DEF ActionAvailable, HasLegalAction, PawnActions
    <3>2. /\ turnPhase \in {"WAITING_FOR_ROLL", "WAITING_FOR_ACTION", "NONE"}
          /\ status = "ACTIVE" => turnPhase # "NONE"
      BY <1>1 DEF TurnInv, TypeOK, SnapshotShape
    <3>3. CASE status = "ACTIVE" /\ currentPlayer = player /\ turnPhase = "WAITING_FOR_ACTION"
      BY <1>1, <3>1, <3>2, <3>3, LegalByPhase
    <3>4. CASE status = "ACTIVE" /\ currentPlayer = player /\ turnPhase = "WAITING_FOR_ROLL"
      BY <1>1, <3>4, LegalByPhase
    <3>5. CASE ~ (status = "ACTIVE" /\ currentPlayer = player)
      BY <1>1, <3>5, LegalByPhase
    <3> QED
      BY <3>2, <3>3, <3>4, <3>5
  <2>7. Headline(player, compact) \in {"your turn", "choose a pawn"}
          <=> status = "ACTIVE" /\ currentPlayer = player
    <3>1. /\ status \in {"ACTIVE", "FINISHED"}
          /\ status = "FINISHED" => currentPlayer # player
      BY <1>1, BoardAssumption
         DEF TurnInv, TypeOK, SnapshotShape, Nobody, Turn!Nobody, Turn!Seats, Players
    <3>2. StatusCopy(player) \in {"your turn", "choose a pawn"}
            <=> status = "ACTIVE" /\ currentPlayer = player
      <4>1. CASE status = "FINISHED"
        BY <3>1, <4>1 DEF StatusCopy
      <4>2. CASE status # "FINISHED" /\ currentPlayer # player
        BY <3>1, <4>2 DEF StatusCopy
      <4>3. CASE /\ status # "FINISHED" /\ currentPlayer = player
                 /\ turnPhase = "WAITING_FOR_ACTION"
        BY <3>1, <4>3 DEF StatusCopy
      <4>4. CASE /\ status # "FINISHED" /\ currentPlayer = player
                 /\ turnPhase # "WAITING_FOR_ACTION"
        BY <3>1, <4>4 DEF StatusCopy
      <4> QED
        BY <4>1, <4>2, <4>3, <4>4
    <3> QED
      BY <3>1, <3>2 DEF Headline
  <2> QED
    BY <2>4, <2>5, <2>6, <2>7
<1>2. TurnInv /\ ActionAvailable => OffersTheLegalActions
  BY <1>1
<1> QED
  BY <1>2, TypeCorrect, SnapshotShapeHolds, ActionAvailableHolds, PTL DEF TurnInv

(* Whatever the service accepts could have been pressed on either layout.  *)
THEOREM CommandsWereOfferedHolds == Spec => CommandsWereOffered
<1>1. ASSUME TurnInv, OffersTheLegalActions
      PROVE  \A compact \in BOOLEAN :
               /\ (\E dice \in 1 .. MaxDie : RollDice(dice))
                    => RollDiceAction \in Offered(currentPlayer, compact)
               /\ \A pawn \in Pawns :
                    /\ EnterPawn(pawn) => EnterPawnAction(pawn) \in Offered(currentPlayer, compact)
                    /\ MovePawn(pawn) => MovePawnAction(pawn) \in Offered(currentPlayer, compact)
               /\ \A player \in Players :
                    Surrender(player) => SurrenderAction \in Offered(player, compact)
  <2> TAKE compact \in BOOLEAN
  <2>1. \A player \in Players : Offered(player, compact) = LegalActions(player)
    BY <1>1 DEF OffersTheLegalActions
  <2>2. /\ status = "ACTIVE" => currentPlayer \in Players
        /\ status = "ACTIVE" => playerStatus[currentPlayer] = "ACTIVE"
    BY <1>1 DEF TurnInv, SnapshotShape
  <2>3. ASSUME NEW dice \in 1 .. MaxDie, RollDice(dice)
        PROVE  RollDiceAction \in Offered(currentPlayer, compact)
    <3>1. status = "ACTIVE" /\ turnPhase = "WAITING_FOR_ROLL"
      BY <2>3 DEF RollDice
    <3> QED
      BY <2>1, <2>2, <3>1 DEF LegalActions, LegalTurnActions, IsActivePlayer
  <2>4. ASSUME NEW pawn \in Pawns, EnterPawn(pawn)
        PROVE  EnterPawnAction(pawn) \in Offered(currentPlayer, compact)
    <3>1. /\ status = "ACTIVE" /\ turnPhase = "WAITING_FOR_ACTION" /\ diceValue # NoDice
          /\ pawn \in Enterable(position, currentPlayer, diceValue)
      BY <1>1, <2>4 DEF EnterPawn, TurnInv, SnapshotShape
    <3> QED
      BY <2>1, <2>2, <3>1, ActionsApart
         DEF LegalActions, LegalTurnActions, IsActivePlayer, PawnActions
  <2>5. ASSUME NEW pawn \in Pawns, MovePawn(pawn)
        PROVE  MovePawnAction(pawn) \in Offered(currentPlayer, compact)
    <3>1. /\ status = "ACTIVE" /\ turnPhase = "WAITING_FOR_ACTION" /\ diceValue # NoDice
          /\ pawn \in Movable(position, currentPlayer, diceValue)
      BY <2>5 DEF MovePawn
    <3> QED
      BY <2>1, <2>2, <3>1, ActionsApart
         DEF LegalActions, LegalTurnActions, IsActivePlayer, PawnActions
  <2>6. ASSUME NEW player \in Players, Surrender(player)
        PROVE  SurrenderAction \in Offered(player, compact)
    <3>1. status = "ACTIVE" /\ playerStatus[player] = "ACTIVE"
      BY <2>6 DEF Surrender
    <3> QED
      BY <2>1, <3>1 DEF LegalActions, IsActivePlayer
  <2> QED
    BY <2>3, <2>4, <2>5, <2>6
<1>2. TurnInv /\ OffersTheLegalActions =>
        [\A compact \in BOOLEAN :
           /\ (\E dice \in 1 .. MaxDie : RollDice(dice))
                => RollDiceAction \in Offered(currentPlayer, compact)
           /\ \A pawn \in Pawns :
                /\ EnterPawn(pawn) => EnterPawnAction(pawn) \in Offered(currentPlayer, compact)
                /\ MovePawn(pawn) => MovePawnAction(pawn) \in Offered(currentPlayer, compact)
           /\ \A player \in Players :
                Surrender(player) => SurrenderAction \in Offered(player, compact)]_vars
  BY <1>1
<1> QED
  BY <1>2, TypeCorrect, SnapshotShapeHolds, OffersTheLegalActionsHolds, PTL
     DEF TurnInv, CommandsWereOffered

=============================================================================
