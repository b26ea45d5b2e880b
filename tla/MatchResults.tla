---------------------------- MODULE MatchResults -----------------------------
(***************************************************************************)
(* The result of a match: what the command that ends it writes next to the *)
(* snapshot and the journal, in the same transaction (command-processor.ts *)
(* over profile/result-draft.ts and match-repository.ts), and what the     *)
(* profiles of its players make of it.  An exception in any of this rolls  *)
(* the command back, and the match could then never end.                   *)
(*                                                                         *)
(* As in EventJournal, the operators describe the step being taken: primed *)
(* is what the terminal command leaves.                                    *)
(***************************************************************************)
EXTENDS EventJournal, FiniteSets

CONSTANT Humans   \* the players who are neither bots nor dummies

ASSUME HumansAssumption == Humans \subseteq Players

Outcomes == {"WIN", "LOSS", "SURRENDERED"}
VictoryReasons == {"HOME_DIAGONAL_COMPLETED", "LAST_ACTIVE_PLAYER"}

-----------------------------------------------------------------------------
(* The transaction.                                                        *)

(* The row of the match after the update.                                  *)
TerminalMatch ==
  [status         |-> status',
   terminalResult |-> [winnerPlayerId |-> winner', reason |-> winReason']]

(* Only matches among humans are recorded.                                 *)
Recorded == status' = "FINISHED" /\ Players \subseteq Humans

IsPersistableFinishedMatch(match) ==
  /\ match.status = "FINISHED"
  /\ match.terminalResult.winnerPlayerId # Nobody
  /\ match.terminalResult.reason \in VictoryReasons

(* Faulty HasSurrendered: whoever is no longer ACTIVE. *)
HasStopped(player) == playerStatus'[player] # "ACTIVE"

HasSurrendered(player) == playerStatus'[player] = "SURRENDERED"

DerivePlayerMatchOutcome(player, surrendered, terminalResult) ==
  CASE player = terminalResult.winnerPlayerId -> "WIN"
    [] player # terminalResult.winnerPlayerId /\ surrendered -> "SURRENDERED"
    [] OTHER -> "LOSS"

(* A winner who is not a participant makes it throw.                       *)
DraftThrows(match) == match.terminalResult.winnerPlayerId \notin Players

MatchResultDraft(match) ==
  [winnerUserId     |-> match.terminalResult.winnerPlayerId,
   victoryReason    |-> match.terminalResult.reason,
   participantCount |-> Cardinality(Players),
   participants     |->
     [player \in Players |->
        [color   |-> Color(player),
         outcome |-> DerivePlayerMatchOutcome(player, HasSurrendered(player),
                                              match.terminalResult)]]]

-----------------------------------------------------------------------------
(* The profile of a player, from the results it took part in.              *)

(* A card of the history; it throws for a winner who did not take part.    *)
Card(result, player) ==
  [participantCount   |-> result.participantCount,
   winnerUserId       |-> result.winnerUserId,
   victoryReason      |-> result.victoryReason,
   currentUserOutcome |-> result.participants[player].outcome,
   participants       |-> {[userId |-> p, color |-> result.participants[p].color] :
                             p \in DOMAIN result.participants}]

Count(results, player, outcome) ==
  Cardinality({result \in results : result.participants[player].outcome = outcome})

(* A player who gave up has lost.                                          *)
Stats(results, player) ==
  LET wins   == Count(results, player, "WIN")
      losses == Count(results, player, "LOSS") + Count(results, player, "SURRENDERED")
  IN  [gamesPlayed |-> wins + losses, wins |-> wins, losses |-> losses]

FitsCardSchema(card) ==
  /\ card.participantCount \in 2 .. 4
  /\ Cardinality(card.participants) \in 2 .. 4
  /\ \A participant \in card.participants : participant.color \in Colors
  /\ card.victoryReason \in VictoryReasons
  /\ card.currentUserOutcome \in Outcomes

-----------------------------------------------------------------------------
(* Properties.                                                             *)

Winners(result) == {p \in Players : result.participants[p].outcome = "WIN"}
Losers(result)  == {p \in Players : result.participants[p].outcome = "LOSS"}
Leavers(result) == {p \in Players : result.participants[p].outcome = "SURRENDERED"}

(* The result tells the match as it was played: those who gave up are the  *)
(* ones whose pawns have left for good, somebody has lost unless everybody *)
(* else gave up, and the winner of a completed diagonal has one.           *)
TellsTheMatch(result) ==
  /\ Winners(result) = {result.winnerUserId}
  /\ \A pawn \in Pawns : position'[pawn] = Removed <=> Owner(pawn) \in Leavers(result)
  /\ result.victoryReason = "LAST_ACTIVE_PLAYER" <=> Losers(result) = {}
  /\ result.victoryReason = "HOME_DIAGONAL_COMPLETED" =>
       HomeDiagonalCompleted(position', result.winnerUserId)

(* The last thing the pages are told is the same victory.                  *)
ToldToThePages(result) ==
  LET last == transition'.events[Len(transition'.events)].payload
  IN  last = [type |-> "gameWon", winner |-> result.winnerUserId,
              reason |-> result.victoryReason]

(* What the terminal command leaves is a result that can be stored and     *)
(* shown, and that every participant's profile counts as one game.         *)
ResultSound(match, result) ==
  /\ IsPersistableFinishedMatch(match) /\ ~ DraftThrows(match)
  /\ TellsTheMatch(result) /\ ToldToThePages(result)
  /\ \A p \in Players :
       FitsCardSchema(Card(result, p)) /\ Stats({result}, p).gamesPlayed = 1

(* The command that ends a match always leaves its result: no step of the  *)
(* transaction throws or silently skips it, it tells the match as it was   *)
(* played and as the pages are told, and every participant's profile can   *)
(* show it and counts it as one game.                                      *)
ResultRecorded ==
  [][Recorded => ResultSound(TerminalMatch, MatchResultDraft(TerminalMatch))]_vars

=============================================================================
