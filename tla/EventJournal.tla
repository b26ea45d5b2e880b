---------------------------- MODULE EventJournal -----------------------------
(***************************************************************************)
(* What the server makes of one accepted command: the domain events of the *)
(* engine in their order, the journal entries written for them             *)
(* (realtime/event-journal.ts), and the schema through which every page    *)
(* passes a transition before it believes it (shared/src/realtime.ts); a   *)
(* transition that does not fit is dropped without a word.                 *)
(*                                                                         *)
(* The operators describe the step that is being taken: unprimed is the    *)
(* state before the command, primed the state after it.  The number thrown *)
(* is not tracked.                                                         *)
(***************************************************************************)
EXTENDS MatchEngine, Sequences

VARIABLES
  lastSequence,   \* sequence number of the last journal entry of the match
  transition      \* what the last command committed, as it is sent

journalVars == <<vars, lastSequence, transition>>

Nowhere == [area |-> "NOWHERE", color |-> "NONE", index |-> 0]

(* Who did it, and which pawn.                                             *)
Actor ==
  IF "playerSurrendered" \in events'
  THEN CHOOSE p \in Players : playerStatus[p] = "ACTIVE" /\ playerStatus'[p] = "SURRENDERED"
  ELSE currentPlayer

MovedPawn == CHOOSE pawn \in Pawns : Owner(pawn) = Actor /\ position'[pawn] # position[pawn]

CapturedPawn == CHOOSE pawn \in Pawns : Owner(pawn) # Actor /\ position'[pawn] # position[pawn]

(* The pawns of pawnRemoved, in the order of the events.                   *)
RemovedPawns ==
  IF "playerSurrendered" \in events'
  THEN [slot \in 1 .. PawnsPerPlayer |-> <<Actor, slot>>]
  ELSE <<MovedPawn>>

-----------------------------------------------------------------------------
(* The journal.  A coordinate that cannot be resolved throws: Nowhere.     *)

PawnCoordinate(placement, pawn) ==
  IF OnBoard(placement[pawn]) THEN Cell(placement, pawn) ELSE Nowhere

PhysicalPath == [k \in 1 .. diceValue |-> PathOf(position, MovedPawn, k)]

PawnEntered == [type |-> "pawnEntered", pawn |-> MovedPawn,
                to |-> PawnCoordinate(position', MovedPawn)]

(* Faulty PawnMoved: the destination is looked up after the move. *)
PawnMovedByResult ==
  [type |-> "pawnMoved", pawn |-> MovedPawn, from |-> PawnCoordinate(position, MovedPawn),
   to |-> PawnCoordinate(position', MovedPawn), path |-> PhysicalPath]

PawnMoved ==
  [type |-> "pawnMoved", pawn |-> MovedPawn, from |-> PawnCoordinate(position, MovedPawn),
   to |-> PhysicalPath[diceValue], path |-> PhysicalPath]

PawnCaptured ==
  [type |-> "pawnCaptured", pawn |-> CapturedPawn, by |-> MovedPawn,
   at |-> PhysicalPath[diceValue]]

PawnEnteredHome ==
  [type |-> "pawnEnteredHome", pawn |-> MovedPawn, homeIndex |-> position'[MovedPawn].at,
   from |-> PawnCoordinate(position, MovedPawn), to |-> PawnCoordinate(position', MovedPawn)]

PawnRemoved(pawn) ==
  [type |-> "pawnRemoved", pawn |-> pawn,
   reason |-> IF "playerSurrendered" \in events' THEN "SURRENDERED" ELSE "INACTIVE_CORNER_EXIT"]

ExtraRollGranted ==
  [type |-> "extraRollGranted", player |-> Actor,
   reason |-> IF "pawnCaptured" \in events' THEN "CAPTURE"
              ELSE IF "diceRolled" \in events' THEN "NO_LEGAL_ACTION_ON_SIX"
              ELSE "ROLLED_SIX"]

TurnChanged == [type |-> "turnChanged", from |-> Actor, to |-> currentPlayer']

GameWon == [type |-> "gameWon", winner |-> winner', reason |-> winReason']

Entries(kind) ==
  CASE kind = "diceRolled"        -> <<[type |-> kind, player |-> Actor]>>
    [] kind = "pawnEntered"       -> <<PawnEntered>>
    [] kind = "pawnMoved"         -> <<PawnMoved>>
    [] kind = "pawnCaptured"      -> <<PawnCaptured>>
    [] kind = "pawnEnteredHome"   -> <<PawnEnteredHome>>
    [] kind = "playerSurrendered" -> <<[type |-> kind, player |-> Actor]>>
    [] kind = "pawnRemoved"       ->
         [i \in 1 .. Len(RemovedPawns) |-> PawnRemoved(RemovedPawns[i])]
    [] kind = "extraRollGranted"  -> <<ExtraRollGranted>>
    [] kind = "turnChanged"       -> <<TurnChanged>>
    [] kind = "gameWon"           -> <<GameWon>>

Emitted(kind) == IF kind \in events' THEN Entries(kind) ELSE <<>>

(* The order in which the transitions of the engine emit their events.     *)
PawnPayloads ==
  Emitted("pawnEntered") \o Emitted("pawnMoved") \o Emitted("pawnCaptured")
    \o Emitted("pawnEnteredHome") \o Emitted("playerSurrendered") \o Emitted("pawnRemoved")

Payloads ==
  Emitted("diceRolled") \o PawnPayloads
    \o Emitted("extraRollGranted") \o Emitted("turnChanged") \o Emitted("gameWon")

Envelope(payload, sequence) ==
  [payload |-> payload, sequence |-> sequence, stateVersion |-> stateVersion']

Commit ==
  LET payloads == Payloads
      from     == lastSequence + 1
      to       == lastSequence + Len(payloads)
  IN  /\ lastSequence' = to
      /\ transition' =
           [stateVersion |-> stateVersion', fromSequence |-> from, toSequence |-> to,
            events |-> [i \in 1 .. Len(payloads) |-> Envelope(payloads[i], lastSequence + i)]]

NoTransition == [stateVersion |-> 0, fromSequence |-> 0, toSequence |-> 0, events |-> <<>>]

JournalInit == Init /\ lastSequence = 0 /\ transition = NoTransition
JournalNext == Next /\ Commit
JournalSpec == JournalInit /\ [][JournalNext]_journalVars

-----------------------------------------------------------------------------
(* The schema.                                                             *)

BoardCoords == {RingCell(n) : n \in 0 .. (PerimeterLength - 1)}
                 \union {HomeCell(color, n) : color \in Colors, n \in 0 .. HomeEnd}

PlayerEventPayloads == [type : {"diceRolled", "playerSurrendered"}, player : Players]

PawnEventPayloads ==
  [type : {"pawnEntered"}, pawn : Pawns, to : BoardCoords]
    \union [type : {"pawnMoved"}, pawn : Pawns, from : BoardCoords, to : BoardCoords,
            path : Seq(BoardCoords)]
    \union [type : {"pawnCaptured"}, pawn : Pawns, by : Pawns, at : BoardCoords]
    \union [type : {"pawnEnteredHome"}, pawn : Pawns, homeIndex : 0 .. HomeEnd,
            from : BoardCoords, to : BoardCoords]
    \union [type : {"pawnRemoved"}, pawn : Pawns,
            reason : {"OFF_BOARD_CAPTURED", "HOME_CAPTURED", "SURRENDERED",
                      "INACTIVE_CORNER_EXIT", "RESET"}]

TurnEventPayloads ==
  [type : {"extraRollGranted"}, player : Players,
   reason : {"ROLLED_SIX", "CAPTURE", "NO_LEGAL_ACTION_ON_SIX"}]
    \union [type : {"turnChanged"}, from : Players, to : Players]
    \union [type : {"gameWon"}, winner : Players,
            reason : {"HOME_DIAGONAL_COMPLETED", "LAST_ACTIVE_PLAYER"}]

EventPayloads == PlayerEventPayloads \union PawnEventPayloads \union TurnEventPayloads

(* The events cover the declared range without a gap, and are of the       *)
(* transition's version.                                                   *)
FitsTransitionSchema(sent) ==
  /\ sent.events # <<>>
  /\ Len(sent.events) = sent.toSequence - sent.fromSequence + 1
  /\ \A i \in 1 .. Len(sent.events) :
       /\ sent.events[i].payload \in EventPayloads
       /\ sent.events[i].sequence = sent.fromSequence + i - 1
       /\ sent.events[i].stateVersion = sent.stateVersion

MatchSnapshots ==
  [status : {"ACTIVE", "FINISHED", "ABANDONED"}, stateVersion : Nat, turnNumber : Nat \ {0},
   turnPhase : {"WAITING_FOR_ROLL", "WAITING_FOR_ACTION", "NONE"},
   currentPlayer : Players \union {Nobody}, diceValue : 0 .. MaxDie,
   winner : Players \union {Nobody},
   winReason : {"HOME_DIAGONAL_COMPLETED", "LAST_ACTIVE_PLAYER", "NONE"},
   players : [Players -> {"ACTIVE", "SURRENDERED", "FINISHED"}],
   pawns : [Pawns -> Positions]]

Snapshot ==
  [status |-> status, stateVersion |-> stateVersion, turnNumber |-> turnNumber,
   turnPhase |-> turnPhase, currentPlayer |-> currentPlayer, diceValue |-> diceValue,
   winner |-> winner, winReason |-> winReason, players |-> playerStatus, pawns |-> position]

-----------------------------------------------------------------------------
(* Every accepted command can be journalled - no event asks for the cell   *)
(* of a pawn that has none, which would throw inside the transaction and   *)
(* refuse the command for ever - and what is sent continues the journal    *)
(* and fits the schema of the page, which otherwise would drop it and stay *)
(* behind.                                                                 *)
TransitionParses ==
  [][/\ FitsTransitionSchema(transition')
     /\ transition'.fromSequence = lastSequence + 1
     /\ Snapshot' \in MatchSnapshots]_vars

=============================================================================
