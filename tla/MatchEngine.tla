---------------------------- MODULE MatchEngine -----------------------------
(***************************************************************************)
(* The pure game engine of packages/game-engine: legal actions and the     *)
(* four transitions ROLL_DICE, ENTER_PAWN, MOVE_PAWN and SURRENDER.  A     *)
(* command the engine refuses leaves the state alone, so it is no step of  *)
(* this module; an action is one accepted command.                         *)
(***************************************************************************)
EXTENDS Board

VARIABLES
  status, playerStatus, currentPlayer, turnPhase, winner,  \* see TurnProtocol
  position,      \* pawn -> position
  diceValue,     \* the stored throw; NoDice unless an action is awaited
  winReason,     \* "HOME_DIAGONAL_COMPLETED", "LAST_ACTIVE_PLAYER" or "NONE"
  turnNumber,
  stateVersion,
  events         \* kinds of the domain events of the last transition

boardVars == <<status, playerStatus, currentPlayer, turnPhase, winner,
               position, diceValue, winReason>>
vars == <<boardVars, turnNumber, stateVersion, events>>

Turn == INSTANCE TurnProtocol
Nobody == Turn!Nobody
NoDice == 0

EventKinds ==
  {"diceRolled", "turnChanged", "extraRollGranted", "pawnEntered", "pawnMoved",
   "pawnCaptured", "pawnEnteredHome", "pawnRemoved", "playerSurrendered", "gameWon"}

-----------------------------------------------------------------------------
(* Occupancy and legality, over an arbitrary placement of the pawns.       *)

Cell(placement, pawn) == CoordinateOf(placement[pawn], Color(Owner(pawn)))

Occupants(placement, cell) ==
  {pawn \in Pawns : OnBoard(placement[pawn]) /\ Cell(placement, pawn) = cell}

PathOf(placement, pawn, k) == PathCell(placement[pawn], Color(Owner(pawn)), k)

(* Faulty CanMovePawn: an opponent in its home diagonal may be landed on. *)
CanMoveOntoHome(placement, pawn, distance) ==
  /\ Fits(placement[pawn], distance)
  /\ \A k \in 1 .. (distance - 1) : Occupants(placement, PathOf(placement, pawn, k)) = {}
  /\ \A other \in Occupants(placement, PathOf(placement, pawn, distance)) :
       Owner(other) # Owner(pawn)

CanMovePawn(placement, pawn, distance) ==
  /\ Fits(placement[pawn], distance)
  /\ \A k \in 1 .. (distance - 1) : Occupants(placement, PathOf(placement, pawn, k)) = {}
  /\ \A other \in Occupants(placement, PathOf(placement, pawn, distance)) :
       Owner(other) # Owner(pawn) /\ placement[other].zone # "HOME"

CanEnterPawn(placement, pawn) ==
  /\ placement[pawn] = OffBoard
  /\ Occupants(placement, HomeCell(Color(Owner(pawn)), 0)) = {}

(* The pawns the player may enter, or move, with this throw. *)
Enterable(placement, player, dice) ==
  {pawn \in Pawns : Owner(pawn) = player /\ dice = MaxDie /\ CanEnterPawn(placement, pawn)}
Movable(placement, player, dice) ==
  {pawn \in Pawns : Owner(pawn) = player /\ CanMovePawn(placement, pawn, dice)}

HasLegalAction(placement, player, dice) ==
  Enterable(placement, player, dice) \union Movable(placement, player, dice) # {}

(* A corner whose colour nobody plays sends the pawn that lands on it off. *)
InactiveCorner(pos, color) ==
  /\ pos.zone = "PERIMETER"
  /\ PerimeterCell(color, pos.at) \in Corners
  /\ \A p \in Players : HomeCell(Color(p), 0) # PerimeterCell(color, pos.at)

-----------------------------------------------------------------------------
(* Victory. *)

HomePawns(placement, player) ==
  {pawn \in Pawns : Owner(pawn) = player /\ placement[pawn].zone = "HOME"}

HomeDiagonalCompleted(placement, player) ==
  /\ \A pawn \in Pawns : Owner(pawn) = player => pawn \in HomePawns(placement, player)
  /\ {placement[pawn].at : pawn \in HomePawns(placement, player)} = 0 .. HomeEnd

(* Faulty IsWinningState: a completed home diagonal is not noticed. *)
LastPlayerOnly(placement, player) ==
  \A p \in Players : playerStatus[p] = "ACTIVE" <=> p = player

IsWinningState(placement, player) ==
  \/ HomeDiagonalCompleted(placement, player)
  \/ \A p \in Players : playerStatus[p] = "ACTIVE" <=> p = player

WinReason(placement, player) ==
  IF HomeDiagonalCompleted(placement, player) THEN "HOME_DIAGONAL_COMPLETED"
                                              ELSE "LAST_ACTIVE_PLAYER"

ProjectTerminalState(statuses, player, reason) ==
  /\ Turn!Finish(statuses, player)
  /\ winReason' = reason
  /\ diceValue' = NoDice

-----------------------------------------------------------------------------
(* How an accepted transition hands over: shared by the four commands.     *)

Emit(kinds) == events' = kinds

Stay == UNCHANGED <<status, playerStatus, winner, winReason>>

GrantExtraRoll ==
  /\ turnPhase' = "WAITING_FOR_ROLL" /\ diceValue' = NoDice
  /\ UNCHANGED <<currentPlayer, turnNumber>>
  /\ Stay

(* Faulty HandOver: the next seat, whoever sits there. *)
HandOverToNextSeat(statuses) ==
  /\ currentPlayer' = (currentPlayer + 1) % NumPlayers
  /\ turnPhase' = "WAITING_FOR_ROLL" /\ diceValue' = NoDice
  /\ turnNumber' = turnNumber + 1

(* Faulty HandOver: phase and throw are not reset. *)
HandOverKeepingThrow(statuses) ==
  /\ currentPlayer' = Turn!NextActivePlayer(statuses, currentPlayer)
  /\ turnNumber' = turnNumber + 1
  /\ UNCHANGED <<turnPhase, diceValue>>

HandOver(statuses) ==
  /\ currentPlayer' = Turn!NextActivePlayer(statuses, currentPlayer)
  /\ turnPhase' = "WAITING_FOR_ROLL" /\ diceValue' = NoDice
  /\ turnNumber' = turnNumber + 1

ChangeTurn == HandOver(playerStatus) /\ Stay

-----------------------------------------------------------------------------

Init ==
  /\ Turn!TurnInit
  /\ position = [pawn \in Pawns |-> OffBoard]
  /\ diceValue = NoDice
  /\ winReason = "NONE"
  /\ turnNumber = 1
  /\ stateVersion = 0
  /\ events = {}

(* ROLL_DICE with the throw the server drew. *)
RollDice(dice) ==
  /\ status = "ACTIVE" /\ turnPhase = "WAITING_FOR_ROLL" /\ diceValue = NoDice
  /\ playerStatus[currentPlayer] = "ACTIVE"
  /\ \/ /\ HasLegalAction(position, currentPlayer, dice)
        /\ turnPhase' = "WAITING_FOR_ACTION" /\ diceValue' = dice
        /\ Emit({"diceRolled"})
        /\ UNCHANGED <<currentPlayer, turnNumber>>
        /\ Stay
     \/ /\ ~ HasLegalAction(position, currentPlayer, dice) /\ dice = MaxDie
        /\ GrantExtraRoll
        /\ Emit({"diceRolled", "extraRollGranted"})
     \/ /\ ~ HasLegalAction(position, currentPlayer, dice) /\ dice # MaxDie
        /\ ChangeTurn
        /\ Emit({"diceRolled", "turnChanged"})
  /\ stateVersion' = stateVersion + 1
  /\ UNCHANGED position

(* ENTER_PAWN: only with the highest throw, onto a free start corner.      *)
EnterPawn(pawn) ==
  /\ status = "ACTIVE" /\ turnPhase = "WAITING_FOR_ACTION" /\ diceValue = MaxDie
  /\ playerStatus[currentPlayer] = "ACTIVE"
  /\ pawn \in Enterable(position, currentPlayer, diceValue)
  /\ position' = [position EXCEPT ![pawn] = Perimeter(0)]
  /\ IF IsWinningState(position', currentPlayer)
     THEN /\ ProjectTerminalState(playerStatus, currentPlayer, WinReason(position', currentPlayer))
          /\ Emit({"pawnEntered", "extraRollGranted", "gameWon"})
          /\ UNCHANGED turnNumber
     ELSE /\ GrantExtraRoll
          /\ Emit({"pawnEntered", "extraRollGranted"})
  /\ stateVersion' = stateVersion + 1

(* Faulty Capturable: compares progress numbers, not cells. *)
CapturableByProgress(pawn, cell) ==
  {other \in Pawns :
     /\ Owner(other) # Owner(pawn) /\ position[other].zone = "PERIMETER"
     /\ position[other].at = AdvancePosition(position[pawn], diceValue).at}

(* The opponent a pawn landing on this cell sends off the board.           *)
Capturable(pawn, cell) ==
  {other \in Occupants(position, cell) :
     Owner(other) # Owner(pawn) /\ position[other].zone = "PERIMETER"}

(* The mover lands, then its victim leaves, then an inactive corner sends  *)
(* the mover itself off.                                                   *)
PlacementAfterMove(pawn, target, captured) ==
  LET victim == CHOOSE other \in captured : TRUE
      landed == IF InactiveCorner(target, Color(Owner(pawn))) THEN OffBoard ELSE target
  IN  [other \in Pawns |->
         IF other = pawn THEN landed
         ELSE IF captured # {} /\ other = victim THEN OffBoard
         ELSE position[other]]

MoveEvents(pawn, target, captured) ==
  {"pawnMoved"}
    \union (IF captured # {} THEN {"pawnCaptured"} ELSE {})
    \union (IF position[pawn].zone = "PERIMETER" /\ target.zone = "HOME"
            THEN {"pawnEnteredHome"} ELSE {})
    \union (IF InactiveCorner(target, Color(Owner(pawn))) THEN {"pawnRemoved"} ELSE {})

EarnsExtraRoll(dice, captured) == dice = MaxDie \/ captured # {}

(* MOVE_PAWN by the stored throw. *)
MovePawn(pawn) ==
  LET target   == AdvancePosition(position[pawn], diceValue)
      captured == Capturable(pawn, PathOf(position, pawn, diceValue))
      extra    == EarnsExtraRoll(diceValue, captured)
      moved    == MoveEvents(pawn, target, captured)
  IN  /\ status = "ACTIVE" /\ turnPhase = "WAITING_FOR_ACTION" /\ diceValue # NoDice
      /\ playerStatus[currentPlayer] = "ACTIVE"
      /\ pawn \in Movable(position, currentPlayer, diceValue)
      /\ position' = PlacementAfterMove(pawn, target, captured)
      /\ \/ /\ IsWinningState(position', currentPlayer)
            /\ ProjectTerminalState(playerStatus, currentPlayer,
                                    WinReason(position', currentPlayer))
            /\ turnNumber' = IF extra THEN turnNumber ELSE turnNumber + 1
            /\ Emit(moved \union {"gameWon"})
         \/ /\ ~ IsWinningState(position', currentPlayer) /\ extra
            /\ GrantExtraRoll
            /\ Emit(moved \union {"extraRollGranted"})
         \/ /\ ~ IsWinningState(position', currentPlayer) /\ ~ extra
            /\ ChangeTurn
            /\ Emit(moved \union {"turnChanged"})
      /\ stateVersion' = stateVersion + 1

RemovePlayerPawns(player) ==
  [pawn \in Pawns |-> IF Owner(pawn) = player THEN Removed ELSE position[pawn]]

(* SURRENDER, in turn or out of turn: the player's pawns leave for good.   *)
Surrender(player) ==
  LET statuses == [playerStatus EXCEPT ![player] = "SURRENDERED"]
      left     == {p \in Players : statuses[p] = "ACTIVE"}
      gone     == {"playerSurrendered", "pawnRemoved"}
  IN  /\ status = "ACTIVE" /\ playerStatus[player] = "ACTIVE"
      /\ position' = RemovePlayerPawns(player)
      /\ \/ \E last \in left :
              /\ left = {last}
              /\ ProjectTerminalState(statuses, last, "LAST_ACTIVE_PLAYER")
              /\ Emit(gone \union {"gameWon"})
              /\ UNCHANGED turnNumber
         \/ /\ \A p \in left : left # {p}
            /\ playerStatus' = statuses
            /\ UNCHANGED <<status, winner, winReason>>
            /\ \/ /\ player = currentPlayer
                  /\ HandOver(statuses)
                  /\ Emit(gone \union {"turnChanged"})
               \/ /\ player # currentPlayer
                  /\ UNCHANGED <<currentPlayer, turnPhase, diceValue, turnNumber>>
                  /\ Emit(gone)
      /\ stateVersion' = stateVersion + 1

Next ==
  \/ \E dice \in 1 .. MaxDie : RollDice(dice)
  \/ \E pawn \in Pawns : EnterPawn(pawn)
  \/ \E pawn \in Pawns : MovePawn(pawn)
  \/ \E player \in Players : Surrender(player)

Spec == Init /\ [][Next]_vars

-----------------------------------------------------------------------------
(* Properties. *)

(* Every variable holds a value of its type.                               *)
TypeOK ==
  /\ status \in {"ACTIVE", "FINISHED"}
  /\ playerStatus \in [Players -> {"ACTIVE", "SURRENDERED", "FINISHED"}]
  /\ currentPlayer \in Players \union {Nobody}
  /\ turnPhase \in {"WAITING_FOR_ROLL", "WAITING_FOR_ACTION", "NONE"}
  /\ winner \in Players \union {Nobody}
  /\ position \in [Pawns -> Positions]
  /\ diceValue \in 0 .. MaxDie
  /\ winReason \in {"HOME_DIAGONAL_COMPLETED", "LAST_ACTIVE_PLAYER", "NONE"}
  /\ turnNumber \in Nat
  /\ stateVersion \in Nat
  /\ events \in SUBSET EventKinds

(* The shape of a snapshot: an active match has a current player who is    *)
(* still playing, no winner, at least two players left, and stores a throw *)
(* exactly while an action is awaited; a finished one has only a winner,   *)
(* who did not surrender, and nobody is left ACTIVE.                       *)
SnapshotShape ==
  /\ status = "ACTIVE" =>
       /\ currentPlayer \in Players /\ playerStatus[currentPlayer] = "ACTIVE"
       /\ winner = Nobody /\ winReason = "NONE"
       /\ turnPhase # "NONE"
       /\ turnPhase = "WAITING_FOR_ACTION" <=> diceValue # NoDice
       /\ \A p \in Players : playerStatus[p] # "FINISHED"
       /\ \E p \in Players \ {currentPlayer} : playerStatus[p] = "ACTIVE"
  /\ status = "FINISHED" =>
       /\ currentPlayer = Nobody /\ turnPhase = "NONE" /\ diceValue = NoDice
       /\ winner \in Players /\ playerStatus[winner] = "FINISHED"
       /\ \A p \in Players : playerStatus[p] # "ACTIVE"

(* No two pawns ever rest on one physical cell, although a corner is both  *)
(* PERIMETER(0) and HOME(0) of its owner, and perimeter cells of the other *)
(* players are reached under different progress numbers.                   *)
UniqueOccupancy ==
  \A a, b \in Pawns :
    a # b /\ OnBoard(position[a]) /\ OnBoard(position[b])
      => Cell(position, a) # Cell(position, b)

(* Whoever is asked for an action has one, also after somebody else left   *)
(* in the middle of the turn: the match never waits for an impossible move.*)
ActionAvailable ==
  turnPhase = "WAITING_FOR_ACTION" => HasLegalAction(position, currentPlayer, diceValue)

(* No pawn rests on the corner of a colour nobody plays.                   *)
NoPawnOnInactiveCorner ==
  \A pawn \in Pawns : ~ InactiveCorner(position[pawn], Color(Owner(pawn)))

(* A player's pawns are off the match exactly when the player surrendered. *)
RemovedWithOwner ==
  \A pawn \in Pawns :
    position[pawn].zone = "REMOVED" <=> playerStatus[Owner(pawn)] = "SURRENDERED"

(* A match is finished as soon as, and only when, somebody has won: an     *)
(* active match has no completed home diagonal, and a finished one was     *)
(* won by a completed diagonal or by the only player left.                 *)
FinishedExactlyWhenWon ==
  /\ status = "ACTIVE" => \A p \in Players : ~ HomeDiagonalCompleted(position, p)
  /\ winReason = "HOME_DIAGONAL_COMPLETED" => HomeDiagonalCompleted(position, winner)
  /\ winReason = "LAST_ACTIVE_PLAYER" =>
       \A p \in Players \ {winner} : playerStatus[p] = "SURRENDERED"

(* A pawn never moves backwards: it advances along its own track, leaves   *)
(* the perimeter for OFF_BOARD, or is removed; home pawns are safe.        *)
NeverBackwards ==
  [][\A pawn \in Pawns :
       LET old == position[pawn]
           new == position'[pawn]
       IN  \/ new.zone = "REMOVED" \/ new = old
           \/ old.zone = "OFF_BOARD" /\ new = Perimeter(0)
           \/ old.zone = "PERIMETER" /\ new.zone = "OFF_BOARD"
           \/ old.zone = "PERIMETER" /\ new.zone = "PERIMETER" /\ new.at > old.at
           \/ old.zone = "PERIMETER" /\ new.zone = "HOME"
           \/ old.zone = "HOME" /\ new.zone = "HOME" /\ new.at > old.at]_vars

(* A pawn sent back to OFF_BOARD was landed on by an opponent, who now     *)
(* stands on its cell, or stepped on an inactive corner on its own turn.   *)
(* At most one pawn is sent back by a command.                             *)
SentBack(pawn) == OnBoard(position[pawn]) /\ position'[pawn].zone = "OFF_BOARD"

SentBackForACause ==
  [][/\ \A a, b \in Pawns : SentBack(a) /\ SentBack(b) => a = b
     /\ \A pawn \in Pawns : SentBack(pawn) =>
          IF Owner(pawn) = currentPlayer
          THEN InactiveCorner(AdvancePosition(position[pawn], diceValue), Color(Owner(pawn)))
          ELSE \E mover \in Pawns :
                 /\ Owner(mover) = currentPlayer /\ position'[mover] # position[mover]
                 /\ CoordinateOf(position'[mover], Color(Owner(mover))) = Cell(position, pawn)
    ]_vars

(* Every accepted command hands over once: the match is won, or the turn   *)
(* passes to another player and is counted, or the player rolls again; and *)
(* an action that is consumed is always followed by one of the three.      *)
HandsOverOnce ==
  [][LET handover == events' \intersect {"turnChanged", "extraRollGranted", "gameWon"}
     IN  \/ status' = "FINISHED" /\ handover = {"gameWon"}
         \/ /\ status' = "ACTIVE" /\ currentPlayer' # currentPlayer
            /\ handover = {"turnChanged"} /\ turnNumber' = turnNumber + 1
         \/ /\ status' = "ACTIVE" /\ currentPlayer' = currentPlayer
            /\ turnNumber' = turnNumber
            /\ handover = IF /\ turnPhase' = "WAITING_FOR_ROLL"
                             /\ "playerSurrendered" \notin events'
                          THEN {"extraRollGranted"} ELSE {}
    ]_vars

(* The turn passes clockwise to the nearest player still in the match.     *)
NobodySkipped ==
  [][currentPlayer' # currentPlayer /\ status' = "ACTIVE" =>
       \E step \in 1 .. (NumPlayers - 1) :
         /\ currentPlayer' = (currentPlayer + step) % NumPlayers
         /\ playerStatus'[currentPlayer'] = "ACTIVE"
         /\ \A s \in 1 .. (step - 1) :
              playerStatus'[(currentPlayer + s) % NumPlayers] = "SURRENDERED"]_vars

(* The engine keeps the promises of TurnProtocol.                          *)
FollowsTurnProtocol == Turn!TurnSpec

=============================================================================
