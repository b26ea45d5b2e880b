-------------------------- MODULE TransitionQueue ---------------------------
(***************************************************************************)
(* Transitions as a client receives them, and the queue of the ones it has *)
(* still to animate (apps/web/src/game/transition-queue.ts).               *)
(*                                                                         *)
(* The server numbers the events of a match without gaps, and the events   *)
(* of a transition share its version (JournalTiled of CommandProcessor),   *)
(* so the version of a transition gives its interval of sequence numbers.  *)
(* The snapshot inside an envelope is the one of the moment of sending,    *)
(* stamped with the last sequence number of the transition.                *)
(***************************************************************************)
EXTENDS Naturals, Sequences

CONSTANT Events   \* events of a transition; two show intervals, more add nothing

ToSequence(version)   == version * Events
FromSequence(version) == (version - 1) * Events + 1

Watermark(version, last) == [version |-> version, last |-> last]

(* The watermark of a stored snapshot, and of a transition.                *)
WatermarkOf(version) == Watermark(version, ToSequence(version))

NoTransition == [version |-> 0, snapshot |-> 0]

(* queued and active wait for their animation.  What was presented is at   *)
(* or below the reconciled watermark, so its list decides nothing and is   *)
(* left out.                                                               *)
CreateQueue(watermark) ==
  [queued |-> <<>>, active |-> NoTransition, reconciled |-> watermark]

IsBusy(queue) == queue.active # NoTransition \/ queue.queued # <<>>

HasTransition(queue, transition) ==
  \/ ToSequence(transition.version) <= queue.reconciled.last
  \/ transition.version <= queue.reconciled.version
  \/ queue.active.version = transition.version
  \/ \E i \in 1 .. Len(queue.queued) : queue.queued[i].version = transition.version

ActivateNext(queue) ==
  IF queue.active # NoTransition \/ queue.queued = <<>> THEN queue
  ELSE [queue EXCEPT !.active = Head(queue.queued), !.queued = Tail(queue.queued)]

Enqueue(queue, transition) ==
  IF HasTransition(queue, transition) THEN queue
  ELSE [queue EXCEPT !.queued = Append(@, transition)]

CompleteActive(queue) ==
  ActivateNext([queue EXCEPT !.active = NoTransition,
                             !.reconciled = WatermarkOf(queue.active.version)])
=============================================================================
