------------------------------ MODULE DebugSkip ------------------------------
(***************************************************************************)
(* The match of one human against the dummy of the solo debug mode, and    *)
(* the request that plays the dummy's turn to its end (skipDebugDummyTurn  *)
(* of command-processor.ts over getLegalActions).  The request reads the   *)
(* match without a lock and then sends up to eight commands through        *)
(* process(), each a transaction of its own; meanwhile the bot runner, to  *)
(* which a dummy is as good as a bot, plays the same turn with real        *)
(* throws, the human surrenders, and the button is pressed again.          *)
(*                                                                         *)
(* process() is CommandProcessor's: a command is applied if its version is *)
(* the match's and the engine accepts it.                                  *)
(***************************************************************************)
EXTENDS MatchEngine

CONSTANTS
  Skips,        \* requests that may be under way at once
  MaxCommands   \* commands of one request (8)

ASSUME SkipAssumption == MaxCommands \in Nat \ {0}

Human == 0
Dummy == 1

VARIABLE
  skip   \* request -> how far it is

NoCommand == [type |-> "NONE", pawn |-> <<>>]
Roll      == [type |-> "ROLL_DICE", pawn |-> <<>>]

(* fresh: the version it knows is still the match's.  passed (history): the *)
(* turn in which it read the match is over.                                *)
Done == [at |-> "done", fresh |-> FALSE, passed |-> FALSE, sent |-> 0, command |-> NoCommand]

skipVars == <<vars, skip>>

-----------------------------------------------------------------------------
(* What the dummy is made to do.                                           *)

(* The legal actions in their order: entering before moving, by pawn.      *)
FirstPawn(pawns) == CHOOSE pawn \in pawns : \A other \in pawns : pawn[2] <= other[2]

FirstAction(placement, dice) ==
  LET entering == Enterable(placement, Dummy, dice)
      moving   == Movable(placement, Dummy, dice)
  IN  IF entering # {}    THEN [type |-> "ENTER_PAWN", pawn |-> FirstPawn(entering)]
      ELSE IF moving # {} THEN [type |-> "MOVE_PAWN", pawn |-> FirstPawn(moving)]
      ELSE NoCommand

(* The command for the snapshot it has just got.                           *)
NextDummyCommand(phase, placement, dice) ==
  IF phase = "WAITING_FOR_ROLL" THEN Roll ELSE FirstAction(placement, dice)

(* What a command of anybody else means for the requests under way.        *)
Overtaken(h, r) ==
  IF r.at = "done" THEN Done
  ELSE [r EXCEPT !.fresh = FALSE, !.passed = r.at = "playing" /\ (r.passed \/ currentPlayer' # currentPlayer)]

(* Two players; the match is started by the human, who has the first turn. *)
SkipInit ==
  /\ NumPlayers = 2
  /\ Init /\ currentPlayer = Human /\ skip = [h \in Skips |-> Done]

(* The button: the page sends the version of the snapshot it shows.        *)
Ask(h, fresh) ==
  /\ skip[h].at = "done" /\ status = "ACTIVE"
  /\ skip' = [skip EXCEPT ![h] = [Done EXCEPT !.at = "asked", !.fresh = fresh]]
  /\ UNCHANGED vars

(* The answer, an error or the last result.                                *)
Answer(h) == skip' = [skip EXCEPT ![h] = Done]

(* Not the turn of the dummy, or a stale version: nothing is done.         *)
Refuse(h) ==
  /\ skip[h].at = "asked" /\ (currentPlayer # Dummy \/ ~ skip[h].fresh)
  /\ Answer(h)
  /\ UNCHANGED vars

(* The match is read, and the first command chosen.                        *)
Read(h) ==
  /\ skip[h].at = "asked" /\ currentPlayer = Dummy /\ skip[h].fresh
  /\ skip' = [skip EXCEPT ![h].at = "playing",
                ![h].command = NextDummyCommand(turnPhase, position, diceValue)]
  /\ UNCHANGED vars

(* Faulty Current: the version of a command is not compared. *)
AnyVersion(h) == TRUE

(* The transaction finds the version the command was chosen for.           *)
Current(h) == skip[h].fresh

(* The command is applied, a throw being 1; while it stays the dummy's     *)
(* turn the next one is chosen on the snapshot of the result.              *)
Play(h) ==
  LET command == skip[h].command IN
  /\ skip[h].at = "playing" /\ Current(h) /\ currentPlayer = Dummy
  /\ \/ command = Roll /\ RollDice(1)
     \/ command.type = "ENTER_PAWN" /\ EnterPawn(command.pawn)
     \/ command.type = "MOVE_PAWN" /\ MovePawn(command.pawn)
  /\ LET more == currentPlayer' = Dummy /\ skip[h].sent + 1 < MaxCommands
         next == [skip[h] EXCEPT !.sent = @ + 1,
                    !.command = NextDummyCommand(turnPhase', position', diceValue')]
     IN  skip' = [g \in Skips |-> IF g # h THEN Overtaken(g, skip[g])
                                  ELSE IF more THEN next ELSE Done]

(* The command is refused: its answer is the answer, whatever went before. *)
PlayRefused(h) ==
  /\ skip[h].at = "playing" /\ ~ Current(h)
  /\ Answer(h)
  /\ UNCHANGED vars

(* A transaction throws, or the server dies: there is no answer.           *)
Break(h) ==
  /\ skip[h].at = "playing"
  /\ Answer(h)
  /\ UNCHANGED vars

(* Commands of the human, and of the bot runner for the dummy, which never *)
(* surrenders.                                                             *)
Others ==
  /\ \/ \E dice \in 1 .. MaxDie : RollDice(dice)
     \/ \E pawn \in Pawns : EnterPawn(pawn)
     \/ \E pawn \in Pawns : MovePawn(pawn)
     \/ Surrender(Human)
  /\ skip' = [h \in Skips |-> Overtaken(h, skip[h])]

SkipStep(h) ==
  \/ \E fresh \in BOOLEAN : Ask(h, fresh)
  \/ Refuse(h) \/ Read(h) \/ Play(h) \/ PlayRefused(h) \/ Break(h)

SkipNext == Others \/ \E h \in Skips : SkipStep(h)

SkipSpec == SkipInit /\ [][SkipNext]_skipVars

-----------------------------------------------------------------------------
(* Properties.                                                             *)

(* The step is a command of the request h.                                 *)
Plays(h) ==
  /\ skip[h].at = "playing" /\ stateVersion' # stateVersion
  /\ skip'[h].at = "done" \/ skip'[h].sent # skip[h].sent

(* A request plays in the one turn of the dummy it was asked in.  However  *)
(* late one of its commands comes, it is not played in a later turn, and   *)
(* it is the move chosen for the snapshot it is played on.                 *)
SkipsOneTurn ==
  [][\A h \in Skips : Plays(h) =>
       /\ ~ skip[h].passed
       /\ skip[h].command = NextDummyCommand(turnPhase, position, diceValue)]_skipVars

=============================================================================
