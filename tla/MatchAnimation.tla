--------------------------- MODULE MatchAnimation ----------------------------
(***************************************************************************)
(* How the page animates one transition: the frames that                   *)
(* game/animation-director.ts builds from its events, and what             *)
(* game/board.tsx draws of a frame while the board still holds the         *)
(* snapshot before it.  A frame is a state of the presentation; how long   *)
(* it stays, the number on the die, toasts and styles are left out.        *)
(***************************************************************************)
EXTENDS EventJournal

VARIABLE frames   \* the frames of the last transition

animationVars == <<journalVars, frames>>

(* Where a pawn is drawn: a cell, its slot in the reserve, or a slot       *)
(* beside the board.                                                       *)
Ordinal(pawn)       == pawn[2] - 1
ReserveAnchor(pawn) == [area |-> "RESERVE", color |-> Color(Owner(pawn)), index |-> Ordinal(pawn)]
RemovedAnchor(pawn) == [area |-> "REMOVED", color |-> Color(Owner(pawn)), index |-> Ordinal(pawn)]
NoVisual == Nowhere

ResolvedAnchor(placement, pawn, fallback) ==
  IF OnBoard(placement[pawn]) THEN Cell(placement, pawn) ELSE fallback

-----------------------------------------------------------------------------
(* States of the presentation.                                             *)

IdleFrame ==
  [visual |-> [pawn \in Pawns |-> NoVisual], hidden |-> {}, cue |-> Nowhere,
   rolling |-> FALSE, player |-> currentPlayer, victor |-> Nobody, locked |-> FALSE]

Show(state, pawn, anchor) == [state EXCEPT !.visual[pawn] = anchor]
Hide(state, pawn)         == [state EXCEPT !.hidden = @ \union {pawn}]
Lift(state, pawn, anchor) == Show(Hide(state, pawn), pawn, anchor)
Drop(state, pawn)         == [state EXCEPT !.visual[pawn] = NoVisual]
Cue(state, cell)          == [state EXCEPT !.cue = cell]
Turned(state, player)     == [state EXCEPT !.player = player]
Won(state, player)        == [state EXCEPT !.victor = player]
Locked(state)             == [state EXCEPT !.locked = TRUE]
Released(state) == [state EXCEPT !.locked = FALSE, !.cue = Nowhere, !.rolling = FALSE]

-----------------------------------------------------------------------------
(* What is pushed for one event, and the state it leaves for the next one: *)
(* as a rule the one that was pushed last.                                 *)

Pushed(shown) == [shown |-> shown, state |-> shown[Len(shown)]]

RollFrames(state) ==
  Pushed(<<[state EXCEPT !.rolling = TRUE], [state EXCEPT !.rolling = FALSE]>>)

EnterFrames(state, event) ==
  Pushed(<<Show(state, event.pawn, ReserveAnchor(event.pawn)),
           Show(state, event.pawn, event.to)>>)

(* Faulty MoveFrames: the pawn of the snapshot is not hidden. *)
MoveFramesUnhidden(state, event) ==
  Pushed(<<Show(state, event.pawn, event.from)>>
           \o [k \in 1 .. Len(event.path) |-> Show(state, event.pawn, event.path[k])])

(* Cell by cell; that the pawn rests on a corner only takes longer.        *)
MoveFrames(state, event) ==
  Pushed(<<Lift(state, event.pawn, event.from)>>
           \o [k \in 1 .. Len(event.path) |-> Lift(state, event.pawn, event.path[k])])

(* The cue is taken from the last frame, not from the state.               *)
CaptureFrames(state, event) ==
  LET impact == Lift(Show(Cue(state, event.at), event.by, event.at), event.pawn, event.at)
      return == Show(impact, event.pawn, ReserveAnchor(event.pawn))
      gone   == Drop(return, event.pawn)
  IN  [shown |-> <<impact, return, Cue(gone, Nowhere)>>, state |-> gone]

HomeFrames(state, event) ==
  LET home == Lift(Cue(state, event.to), event.pawn, event.to)
  IN  Pushed(<<home, Cue(home, Nowhere)>>)

(* Faulty RemoveFrames: the visual of the pawn is not taken away. *)
RemoveFramesKeeping(state, event) ==
  Pushed(<<Lift(state, event.pawn,
                ResolvedAnchor(position, event.pawn, RemovedAnchor(event.pawn)))>>)

RemoveFrames(state, event) ==
  LET leaving == Lift(state, event.pawn,
                      ResolvedAnchor(position, event.pawn, RemovedAnchor(event.pawn)))
  IN  Pushed(<<leaving, Drop(leaving, event.pawn)>>)

TurnFrames(state, player) == Pushed(<<Turned(state, player)>>)

(* A completed home diagonal lights up pawn by pawn, in its order.         *)
LiftAll(state, pawns, anchors) ==
  [state EXCEPT !.hidden = @ \union pawns,
                !.visual = [pawn \in Pawns |-> IF pawn \in pawns THEN anchors[pawn] ELSE @[pawn]]]

HomeCompletion(state, player) ==
  LET Lit(k)  == {pawn \in HomePawns(position', player) : position'[pawn].at < k}
      anchors == [pawn \in Pawns |-> ResolvedAnchor(position', pawn, ReserveAnchor(pawn))]
  IN  [k \in 1 .. PawnsPerPlayer |-> LiftAll(state, Lit(k), anchors)]

WinFrames(state, event) ==
  LET pulses == IF event.reason = "HOME_DIAGONAL_COMPLETED"
                THEN HomeCompletion(state, event.winner) ELSE <<>>
      last   == IF pulses = <<>> THEN state ELSE pulses[Len(pulses)]
  IN  Pushed(pulses \o <<last, Won(last, event.winner)>>)

Frames(state, event) ==
  CASE event.type = "diceRolled"        -> RollFrames(state)
    [] event.type = "pawnEntered"       -> EnterFrames(state, event)
    [] event.type = "pawnMoved"         -> MoveFrames(state, event)
    [] event.type = "pawnCaptured"      -> CaptureFrames(state, event)
    [] event.type = "pawnEnteredHome"   -> HomeFrames(state, event)
    [] event.type = "pawnRemoved"       -> RemoveFrames(state, event)
    [] event.type = "extraRollGranted"  -> TurnFrames(state, event.player)
    [] event.type = "turnChanged"       -> TurnFrames(state, event.to)
    [] event.type = "gameWon"           -> WinFrames(state, event)
    [] event.type = "playerSurrendered" -> [shown |-> <<>>, state |-> state]

(* buildGameplayAnimationFrames: event after event, then the release.      *)
Continue(played, event) ==
  LET next == Frames(played.state, event)
  IN  [shown |-> played.shown \o next.shown, state |-> next.state]

Playback(begin, sent) ==
  LET Played[k \in 0 .. Len(sent)] ==
        IF k = 0 THEN [shown |-> <<>>, state |-> begin]
                 ELSE Continue(Played[k - 1], sent[k].payload)
  IN  Played[Len(sent)]

AnimationFrames ==
  LET played == Playback(Locked(IdleFrame), transition'.events)
  IN  Append(played.shown, Released(played.state))

AnimationInit == JournalInit /\ frames = <<IdleFrame>>
AnimationNext == JournalNext /\ frames' = AnimationFrames
AnimationSpec == AnimationInit /\ [][AnimationNext]_animationVars

-----------------------------------------------------------------------------
(* What the board draws: the pawns of the snapshot that are not hidden,    *)
(* and the visuals above them.                                             *)
PlaceInSnapshot(pawn) ==
  ResolvedAnchor(position, pawn, IF position[pawn] = Removed THEN RemovedAnchor(pawn)
                                                             ELSE ReserveAnchor(pawn))

DrawnAt(frame, pawn) ==
  (IF pawn \in frame.hidden THEN {} ELSE {PlaceInSnapshot(pawn)})
    \union ({frame.visual[pawn]} \ {NoVisual})

CellsDrawn(frame, pawn) == DrawnAt(frame, pawn) \intersect BoardCoords

-----------------------------------------------------------------------------
(* Properties.                                                             *)

(* When the animation ends, the board already shows the snapshot that      *)
(* replaces the old one: every pawn on its cell, or off the board, the     *)
(* same player to move, the same winner, and the controls free.            *)
ShowsSnapshot(final) ==
  /\ \A pawn \in Pawns :
       CellsDrawn(final, pawn) = {PawnCoordinate(position', pawn)} \ {Nowhere}
  /\ status' = "ACTIVE" => final.player = currentPlayer'
  /\ final.victor = winner'
  /\ ~ final.locked /\ final.cue = Nowhere

AnimationEndsAtSnapshot == [][ShowsSnapshot(frames'[Len(frames')])]_vars

(* While a transition is animated no pawn is lost from sight or drawn on   *)
(* two cells at once: a pawn that is on the board before and after it is   *)
(* on one cell in every frame, a victim is there until its attacker has    *)
(* come, and no two pawns share a cell but these two.                      *)
Struck(a, b) == "pawnCaptured" \in events' /\ a = MovedPawn /\ b = CapturedPawn

InSight(frame) ==
  /\ \A pawn \in Pawns :
       /\ \A c, d \in CellsDrawn(frame, pawn) : c = d
       /\ OnBoard(position[pawn]) /\ OnBoard(position'[pawn]) => CellsDrawn(frame, pawn) # {}
  /\ \A a, b \in Pawns :
       a # b /\ CellsDrawn(frame, a) \intersect CellsDrawn(frame, b) # {}
         => Struck(a, b) \/ Struck(b, a)
  /\ "pawnCaptured" \in events' /\ CellsDrawn(frame, CapturedPawn) = {}
       => CellsDrawn(frame, MovedPawn) = {Cell(position', MovedPawn)}

PawnsStayInSight == [][\A i \in 1 .. Len(frames') : InSight(frames'[i])]_vars

=============================================================================
