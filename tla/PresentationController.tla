----------------------- MODULE PresentationController -----------------------
(***************************************************************************)
(* What the board shows and what it still has to show                      *)
(* (apps/web/src/game/presentation-controller.ts).  The controller decides *)
(* by sequence numbers whether a transition is new, known, or one that     *)
(* cannot be animated because something before it is missing.              *)
(***************************************************************************)
EXTENDS TransitionQueue

NoController == [generation |-> 0, authoritative |-> WatermarkOf(0), snapshot |-> 0,
                 presentation |-> WatermarkOf(0), queue |-> CreateQueue(WatermarkOf(0)),
                 recovery |-> "NO_CONTROLLER"]

(* snapshot is the version of the snapshot on the board.                   *)
CreateController(version) ==
  [generation |-> 0, authoritative |-> WatermarkOf(version), snapshot |-> version,
   presentation |-> WatermarkOf(version), queue |-> CreateQueue(WatermarkOf(version)),
   recovery |-> "NONE"]

(* Faulty Pause: what waits is still animated. *)
PauseKeepingQueue(controller, reason) ==
  [controller EXCEPT !.generation = @ + 1, !.recovery = reason]

(* The queue is dropped; the transitions in it are not taken back from the *)
(* authoritative watermark.                                                *)
Pause(controller, reason) ==
  [controller EXCEPT
     !.generation = @ + 1,
     !.queue = CreateQueue(Watermark(controller.snapshot, controller.presentation.last)),
     !.recovery = reason]

IsKnown(controller, transition) ==
  \/ ToSequence(transition.version) <= controller.presentation.last
  \/ transition.version <= controller.presentation.version
  \/ HasTransition(controller.queue, transition)

IsGap(controller, transition) ==
  FromSequence(transition.version) > controller.authoritative.last + 1

IsOverlap(controller, transition) ==
  FromSequence(transition.version) <= controller.authoritative.last

AcceptTransition(controller, transition) ==
  IF IsKnown(controller, transition) THEN controller
  ELSE IF IsGap(controller, transition) THEN Pause(controller, "SEQUENCE_GAP")
  ELSE IF IsOverlap(controller, transition) THEN Pause(controller, "SEQUENCE_OVERLAP")
  ELSE [controller EXCEPT !.authoritative = WatermarkOf(transition.version),
                          !.queue = ActivateNext(Enqueue(@, transition)),
                          !.recovery = "NONE"]

(* Identifies one run of one animation.                                    *)
Token(controller) ==
  [generation |-> controller.generation, version |-> controller.queue.active.version]

CompletePresentation(controller, token) ==
  IF controller.queue.active = NoTransition \/ token # Token(controller) THEN controller
  ELSE [controller EXCEPT !.snapshot = controller.queue.active.snapshot,
                          !.presentation = WatermarkOf(controller.queue.active.version),
                          !.queue = CompleteActive(@)]
=============================================================================
