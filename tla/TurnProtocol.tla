---------------------------- MODULE TurnProtocol ----------------------------
(***************************************************************************)
(* What a match promises about turns, whatever happens on the board: who   *)
(* may act, when the turn passes, how players leave and how a match ends.  *)
(* MatchEngine implements it; the modules above the engine rely on it.     *)
(***************************************************************************)
EXTENDS Naturals, Integers

CONSTANT NumPlayers   \* 2 to 4 players (BoardAssumption of Board)

VARIABLES
  status,         \* "ACTIVE" or "FINISHED"
  playerStatus,   \* player -> "ACTIVE", "SURRENDERED" or "FINISHED"
  currentPlayer,  \* the player to act; Nobody once the match is finished
  turnPhase,      \* "WAITING_FOR_ROLL", "WAITING_FOR_ACTION" or "NONE"
  winner          \* the winner; Nobody while the match is active

turnVars == <<status, playerStatus, currentPlayer, turnPhase, winner>>

Seats  == 0 .. (NumPlayers - 1)
Nobody == -1

SeatAfter(player, step) == (player + step) % NumPlayers

(* The first ACTIVE player found from player's seat onwards, cyclically.   *)
(* It may be player itself, when nobody else is left.                      *)
NextActivePlayer(statuses, player) ==
  LET first == CHOOSE step \in 1 .. NumPlayers :
                 /\ statuses[SeatAfter(player, step)] = "ACTIVE"
                 /\ \A s \in 1 .. (step - 1) : statuses[SeatAfter(player, s)] # "ACTIVE"
  IN  SeatAfter(player, first)

TurnInit ==
  /\ status = "ACTIVE"
  /\ playerStatus = [p \in Seats |-> "ACTIVE"]
  /\ currentPlayer \in Seats
  /\ turnPhase = "WAITING_FOR_ROLL"
  /\ winner = Nobody

(* The roll offers an action to the current player. *)
OfferAction ==
  /\ status = "ACTIVE" /\ turnPhase = "WAITING_FOR_ROLL"
  /\ turnPhase' = "WAITING_FOR_ACTION"
  /\ UNCHANGED <<status, playerStatus, currentPlayer, winner>>

(* The action earned the same player another roll. *)
ExtraRoll ==
  /\ status = "ACTIVE" /\ turnPhase = "WAITING_FOR_ACTION"
  /\ turnPhase' = "WAITING_FOR_ROLL"
  /\ UNCHANGED <<status, playerStatus, currentPlayer, winner>>

(* The turn ends: the next active player may roll. *)
PassTurn ==
  /\ status = "ACTIVE"
  /\ currentPlayer' = NextActivePlayer(playerStatus, currentPlayer)
  /\ turnPhase' = "WAITING_FOR_ROLL"
  /\ UNCHANGED <<status, playerStatus, winner>>

(* Everyone who has not surrendered is FINISHED when the match is.         *)
Finish(statuses, player) ==
  /\ status' = "FINISHED"
  /\ playerStatus' = [p \in Seats |-> IF statuses[p] = "SURRENDERED"
                                      THEN "SURRENDERED" ELSE "FINISHED"]
  /\ currentPlayer' = Nobody
  /\ turnPhase' = "NONE"
  /\ winner' = player

(* Only the current player can win with an action. *)
WinWithAction ==
  /\ status = "ACTIVE" /\ turnPhase = "WAITING_FOR_ACTION"
  /\ Finish(playerStatus, currentPlayer)

(* A player may leave at any time, in turn or out of turn.                 *)
Leave(player) ==
  LET statuses == [playerStatus EXCEPT ![player] = "SURRENDERED"]
      left     == {p \in Seats : statuses[p] = "ACTIVE"}
  IN  /\ status = "ACTIVE" /\ playerStatus[player] = "ACTIVE"
      /\ \/ \E last \in left : left = {last} /\ Finish(statuses, last)
         \/ /\ \A p \in left : left # {p}
            /\ playerStatus' = statuses
            /\ IF player = currentPlayer
               THEN /\ currentPlayer' = NextActivePlayer(statuses, player)
                    /\ turnPhase' = "WAITING_FOR_ROLL"
               ELSE UNCHANGED <<currentPlayer, turnPhase>>
            /\ UNCHANGED <<status, winner>>

TurnNext ==
  \/ OfferAction
  \/ ExtraRoll
  \/ PassTurn
  \/ WinWithAction
  \/ \E player \in Seats : Leave(player)

TurnSpec == TurnInit /\ [][TurnNext]_turnVars

=============================================================================
