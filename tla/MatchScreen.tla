---------------------------- MODULE MatchScreen ------------------------------
(***************************************************************************)
(* What a player finds on the screen while nothing is being animated: the  *)
(* buttons that playable-beta/page.tsx and game/board.tsx make of the      *)
(* legal actions (actions/legal-actions.ts), on the wide layout and on the *)
(* compact one of a phone, and the headline of the turn card.  The service *)
(* judges a command by the transitions of MatchEngine, which is other code.*)
(***************************************************************************)
EXTENDS MatchEngine

RollDiceAction  == [type |-> "ROLL_DICE", pawn |-> <<>>]
SurrenderAction == [type |-> "SURRENDER", pawn |-> <<>>]
EnterPawnAction(pawn) == [type |-> "ENTER_PAWN", pawn |-> pawn]
MovePawnAction(pawn)  == [type |-> "MOVE_PAWN", pawn |-> pawn]

Actions == {RollDiceAction, SurrenderAction}
             \union [type : {"ENTER_PAWN", "MOVE_PAWN"}, pawn : Pawns]

-----------------------------------------------------------------------------
(* Legal actions.                                                          *)

IsActivePlayer(player) == status = "ACTIVE" /\ playerStatus[player] = "ACTIVE"

PawnActions(player) ==
  {EnterPawnAction(pawn) : pawn \in Enterable(position, player, diceValue)}
    \union {MovePawnAction(pawn) : pawn \in Movable(position, player, diceValue)}

LegalTurnActions(player) ==
  {action \in {RollDiceAction} \union PawnActions(player) :
     /\ IsActivePlayer(player) /\ currentPlayer = player
     /\ IF action = RollDiceAction
        THEN turnPhase = "WAITING_FOR_ROLL"
        ELSE turnPhase = "WAITING_FOR_ACTION" /\ diceValue # NoDice}

LegalActions(player) ==
  IF IsActivePlayer(player) THEN LegalTurnActions(player) \union {SurrenderAction} ELSE {}

-----------------------------------------------------------------------------
(* The pawns that are drawn.  A phone hides the rail with the reserves and *)
(* has a tray of the player's own pawns instead, while it has a six to     *)
(* play.                                                                   *)

(* Faulty ShowsPawnTray: only for a player with nothing on the board. *)
ShowsTrayBeforeEntering(player) ==
  /\ status = "ACTIVE" /\ currentPlayer = player
  /\ turnPhase = "WAITING_FOR_ACTION" /\ diceValue = MaxDie
  /\ \A pawn \in Pawns : Owner(pawn) = player => ~ OnBoard(position[pawn])

ShowsPawnTray(player) ==
  /\ status = "ACTIVE" /\ currentPlayer = player
  /\ turnPhase = "WAITING_FOR_ACTION" /\ diceValue = MaxDie
  /\ \E action \in LegalActions(player) : action.pawn \in Pawns

PawnTray(player) ==
  {pawn \in Pawns : ShowsPawnTray(player) /\ Owner(pawn) = player /\ position[pawn] # Removed}

BoardPawns   == {pawn \in Pawns : OnBoard(position[pawn])}
ReservePawns == {pawn \in Pawns : position[pawn] = OffBoard}
RemovedPawnsShown == {pawn \in Pawns : position[pawn] = Removed}

DrawnPawns(player, compact) ==
  BoardPawns \union RemovedPawnsShown \union (IF compact THEN PawnTray(player) ELSE ReservePawns)

-----------------------------------------------------------------------------
(* The buttons.                                                            *)

(* Of two actions of one pawn the later in the list, its move, is kept.    *)
PawnActionsById(player, pawn) ==
  LET own == {action \in LegalActions(player) : action.pawn = pawn}
  IN  IF MovePawnAction(pawn) \in own THEN {MovePawnAction(pawn)} ELSE own

(* A finished match offers neither the die nor the way out, which the      *)
(* phone keeps in a menu.                                                  *)
TurnCardButtons(player, compact) ==
  {action \in LegalActions(player) :
     /\ status # "FINISHED"
     /\ action \in {RollDiceAction} \union (IF compact THEN {} ELSE {SurrenderAction})}

MenuButtons(player, compact) ==
  {action \in LegalActions(player) :
     status # "FINISHED" /\ compact /\ action = SurrenderAction}

PawnButtons(player, compact) ==
  UNION {PawnActionsById(player, pawn) : pawn \in DrawnPawns(player, compact)}

Offered(player, compact) ==
  TurnCardButtons(player, compact)
    \union MenuButtons(player, compact)
    \union PawnButtons(player, compact)

(* The headline of the turn card.                                          *)
StatusCopy(player) ==
  CASE status = "FINISHED"                                           -> "match over"
    [] status # "FINISHED" /\ currentPlayer # player                 -> "opponent's turn"
    [] status # "FINISHED" /\ currentPlayer = player
         /\ turnPhase = "WAITING_FOR_ACTION"                         -> "choose a pawn"
    [] OTHER                                                         -> "your turn"

Headline(player, compact) ==
  IF compact /\ currentPlayer = player THEN "your turn" ELSE StatusCopy(player)

-----------------------------------------------------------------------------
(* Properties.                                                             *)

(* The service accepts this command of this player now.                    *)
Accepts(player, action) ==
  \/ /\ action = SurrenderAction
     /\ ENABLED Surrender(player)
  \/ /\ currentPlayer = player
     /\ \/ action = RollDiceAction /\ ENABLED (\E dice \in 1 .. MaxDie : RollDice(dice))
        \/ \E pawn \in Pawns :
             \/ action = EnterPawnAction(pawn) /\ ENABLED EnterPawn(pawn)
             \/ action = MovePawnAction(pawn) /\ ENABLED MovePawn(pawn)

(* Every player finds a button for each command the service would accept   *)
(* from it, on either layout and wherever the pawn stands, and no other    *)
(* button; and it is told to act exactly when there is something to press  *)
(* besides giving up.                                                      *)
ScreenFitsTheTurn ==
  \A player \in Players, compact \in BOOLEAN :
    LET offered == Offered(player, compact)
    IN  /\ offered = {action \in Actions : Accepts(player, action)}
        /\ Headline(player, compact) \in {"your turn", "choose a pawn"}
             <=> offered \ {SurrenderAction} # {}

(* The same without asking the service: each layout offers the legal       *)
(* actions, hiding none behind a pawn it does not draw, under another      *)
(* action of the pawn or on the card of a finished match.                  *)
OffersTheLegalActions ==
  \A player \in Players, compact \in BOOLEAN :
    /\ Offered(player, compact) = LegalActions(player)
    /\ Headline(player, compact) \in {"your turn", "choose a pawn"}
         <=> LegalActions(player) \ {SurrenderAction} # {}

(* Whatever the service accepts could have been pressed on either layout.  *)
CommandsWereOffered ==
  [][\A compact \in BOOLEAN :
       /\ (\E dice \in 1 .. MaxDie : RollDice(dice))
            => RollDiceAction \in Offered(currentPlayer, compact)
       /\ \A pawn \in Pawns :
            /\ EnterPawn(pawn) => EnterPawnAction(pawn) \in Offered(currentPlayer, compact)
            /\ MovePawn(pawn) => MovePawnAction(pawn) \in Offered(currentPlayer, compact)
       /\ \A player \in Players :
            Surrender(player) => SurrenderAction \in Offered(player, compact)]_vars

=============================================================================
