---------------------------- MODULE MatchClient -----------------------------
(***************************************************************************)
(* One player's page during one match: apps/web/src/playable-beta/page.tsx *)
(* over realtime-client.ts and the game:sync handler of socketio.ts.       *)
(*                                                                         *)
(* Handlers read refs and queue state updates; React runs the queued       *)
(* updates later, in order, with no handler in between.  A handler is one  *)
(* step here, and so is each update; MaxUpdates bounds how many may wait.  *)
(*                                                                         *)
(* Broadcasts may come late, twice, in any order or never, with a snapshot *)
(* of any moment since their commit: see Outbox.  Answers are read from    *)
(* the match row at some moment after the request and may never come.      *)
(***************************************************************************)
EXTENDS PresentationController, FiniteSets

CONSTANTS
  MaxVersion,      \* bound: transitions ever committed
  MaxUpdates,      \* bound: updates waiting for React
  MaxPauses,       \* bound: broadcasts are received until a controller paused so often
  StartupRetries,  \* repetitions of the first synchronisation (3)
  OpponentRolls    \* the versions in which an opponent has to roll

ASSUME ClientAssumption ==
  /\ Events \in Nat \ {0}
  /\ MaxVersion \in Nat /\ MaxUpdates \in Nat \ {0}
  /\ MaxPauses \in Nat /\ StartupRetries \in Nat
  /\ OpponentRolls \subseteq Nat

VARIABLES
  committed,   \* the version of the match on the server
  match,       \* the match as React has rendered it
  matchRef,    \* matchRef.current: ahead of match by contiguous transitions
  watermark,   \* matchWatermarkRef.current
  controller,  \* the presentation controller; NoController before the first snapshot
  hydration,   \* hydrationRef.current: buffers broadcasts while "on"
  sync,        \* syncInFlightRef.current and the run it stands for
  command,     \* the player's command on its way
  ackTimer,    \* the sequence number the ACK timer waits for; 0 when cleared
  updates,     \* state updates React has not run yet
  rendering,   \* React is running them
  overwritten  \* history: a refused surrender replaced match but not controller

refs   == <<matchRef, watermark, hydration, sync, command, ackTimer>>
vars   == <<committed, match, controller, refs, updates, rendering, overwritten>>

NoWatermark == Watermark(0, 0)
Match(status, version, last, pending) ==
  [status |-> status, version |-> version, last |-> last, pending |-> pending]

NoSync    == [running |-> FALSE, initial |-> FALSE, asked |-> 0, retries |-> 0, again |-> FALSE]
NoCommand == [stage |-> "NONE", version |-> 0, initial |-> FALSE, surrender |-> FALSE,
              retry |-> FALSE]
NoBuffer  == [on |-> FALSE, buffer |-> {}]

Update(kind)           == [kind |-> kind]
Received(transition)   == [kind |-> "TRANSITION", transition |-> transition]
Synced(next, snapshot, last) ==
  [kind |-> "SYNCED", controller |-> next, snapshot |-> snapshot, last |-> last]
Overwrite(version)     == [kind |-> "OVERWRITE", version |-> version]
Completed(token)       == [kind |-> "COMPLETED", token |-> token]
CheckAck(last)         == [kind |-> "CHECK_ACK", last |-> last]

(* A run starts with the match LOADING, or READY and pending.              *)
Run(initial, retries) ==
  [running |-> TRUE, initial |-> initial, asked |-> committed, retries |-> retries,
   again |-> FALSE]

(* The page has just been opened and asks for its first snapshot.          *)
Init ==
  /\ committed \in 0 .. MaxVersion
  /\ match = Match("IDLE", 0, 0, FALSE) /\ matchRef = match
  /\ watermark = NoWatermark
  /\ controller = NoController
  /\ hydration = [on |-> TRUE, buffer |-> {}]
  /\ sync = Run(TRUE, StartupRetries)
  /\ command = NoCommand
  /\ ackTimer = 0
  /\ updates = <<Update("LOADING")>>
  /\ rendering = FALSE
  /\ overwritten = FALSE

-----------------------------------------------------------------------------
(* Handlers.  Free is what every one of them needs: React is not at work   *)
(* and the bound on updates is not reached.                                *)
Free == ~ rendering /\ Len(updates) < MaxUpdates

Queue(new) == updates' = updates \o new

(* syncMatch: join the run in flight, asking it to run once more, or start *)
(* one.  A request from (0, 0) counts as the first one: it starts a        *)
(* buffer, and does not ask for another run.                               *)
SyncMatch(initial, before) ==
  IF sync.running
  THEN /\ sync' = [sync EXCEPT !.again = @ \/ ~ initial]
       /\ Queue(before)
       /\ UNCHANGED hydration
  ELSE /\ sync' = Run(initial, 0)
       /\ hydration' = IF initial THEN [on |-> TRUE, buffer |-> {}] ELSE hydration
       /\ Queue(before \o <<Update("LOADING")>>)

IsInitial(m) == m.version = 0 /\ m.last = 0

Extends(m, transition) ==
  m.status = "READY" /\ FromSequence(transition.version) = m.last + 1

Advance(m, transition) ==
  Match("READY", transition.snapshot, ToSequence(transition.version), FALSE)

(* applyCommittedTransition as far as it happens at once.                  *)
NextRef(transition) ==
  IF Extends(matchRef, transition) THEN Advance(matchRef, transition) ELSE matchRef

Transitions == [version : 1 .. MaxVersion, snapshot : 1 .. MaxVersion]

(* A broadcast arrives.                                                    *)
Receive(transition) ==
  /\ Free /\ controller.generation < MaxPauses
  /\ transition.version <= transition.snapshot /\ transition.snapshot <= committed
  /\ ackTimer' = 0
  /\ IF hydration.on
     THEN /\ hydration' = [hydration EXCEPT !.buffer =
               IF \E t \in @ : t.version = transition.version THEN @ ELSE @ \union {transition}]
          /\ UNCHANGED <<matchRef, updates>>
     ELSE /\ matchRef' = NextRef(transition)
          /\ Queue(<<Received(transition)>>)
          /\ UNCHANGED hydration
  /\ UNCHANGED <<committed, match, watermark, controller, sync, command, rendering, overwritten>>

-----------------------------------------------------------------------------
(* Synchronisation.                                                        *)

(* The end of a run: whoever awaited it goes on, and a run asked for in    *)
(* the meantime starts.                                                    *)
EndRun(again, before) ==
  /\ sync' = IF again THEN Run(FALSE, 0) ELSE NoSync
  /\ command' = IF command.stage = "AWAITING" THEN NoCommand ELSE command
  /\ Queue(before \o IF again THEN <<Update("LOADING")>> ELSE <<>>)

Buffered == IF sync.initial /\ hydration.on THEN hydration.buffer ELSE {}

BufferedVersions == {t.version : t \in Buffered}

(* The last of the buffered transitions that continue the snapshot.        *)
LastReplayed(version) ==
  CHOOSE last \in version .. MaxVersion :
    /\ \A v \in (version + 1) .. last : v \in BufferedVersions
    /\ last + 1 \notin BufferedVersions

BufferedAs(version) == CHOOSE t \in Buffered : t.version = version

(* The controller of the snapshot, with those transitions waiting in it.   *)
ReplayController(version, last) ==
  IF last = version THEN CreateController(version)
  ELSE [CreateController(version) EXCEPT
          !.authoritative = WatermarkOf(last),
          !.queue.active = BufferedAs(version + 1),
          !.queue.queued = [i \in 1 .. (last - version - 1) |-> BufferedAs(version + 1 + i)]]

(* Faulty IsOutdated: every answer is taken. *)
NeverOutdated(version) == FALSE

(* An answer older than what the page knows is dropped, and the buffer     *)
(* with it.                                                                *)
IsOutdated(version) == version < watermark.version \/ ToSequence(version) < watermark.last

SyncAnswered(version) ==
  LET last     == LastReplayed(version)
      snapshot == IF last = version THEN version ELSE BufferedAs(last).snapshot
      missing  == \E v \in BufferedVersions : v > last
  IN  /\ Free /\ sync.running
      /\ sync.asked <= version /\ version <= committed
      /\ IF IsOutdated(version)
         THEN EndRun(sync.again, <<>>) /\ UNCHANGED watermark
         ELSE /\ watermark' = Watermark(snapshot, ToSequence(last))
              /\ EndRun(sync.again \/ (missing /\ version # 0),
                        <<Synced(ReplayController(version, last), snapshot, ToSequence(last))>>)
      /\ hydration' = IF sync.initial THEN NoBuffer ELSE hydration
      /\ UNCHANGED <<committed, match, matchRef, controller, ackTimer, rendering, overwritten>>

(* Connecting, joining or parsing failed.  The buffer stays.               *)
SyncFails ==
  /\ Free /\ sync.running
  /\ IF sync.retries > 0
     THEN /\ sync' = [sync EXCEPT !.retries = @ - 1, !.asked = committed]
          /\ UNCHANGED <<command, updates>>
     ELSE EndRun(sync.again, <<Update("ERROR")>>)
  /\ UNCHANGED <<committed, match, matchRef, watermark, controller, hydration, ackTimer,
                 rendering, overwritten>>

(* Five seconds into an opponent's roll, with nothing to animate.          *)
OpponentTimeout ==
  /\ Free
  /\ match.status = "READY" /\ ~ match.pending /\ match.version \in OpponentRolls
  /\ matchRef = match /\ ~ IsBusy(controller.queue)
  /\ SyncMatch(IsInitial(match), <<>>)
  /\ UNCHANGED <<committed, match, matchRef, watermark, controller, command, ackTimer,
                 rendering, overwritten>>

(* Five seconds after an ACK without a broadcast.  Its check runs at once, *)
(* because no update waits.                                                *)
AckTimeout ==
  /\ Free /\ updates = <<>> /\ ackTimer # 0
  /\ ackTimer' = 0
  /\ IF match.status = "READY" /\ match.last < ackTimer /\ ~ IsBusy(controller.queue)
     THEN SyncMatch(IsInitial(match), <<>>)
     ELSE UNCHANGED <<sync, hydration, updates>>
  /\ UNCHANGED <<committed, match, matchRef, watermark, controller, command, rendering,
                 overwritten>>

-----------------------------------------------------------------------------
(* Commands.                                                               *)

OthersCommit ==
  /\ committed < MaxVersion
  /\ committed' = committed + 1
  /\ UNCHANGED <<match, controller, refs, updates, rendering, overwritten>>

SubmitAction(surrender) ==
  /\ Free
  /\ command.stage = "NONE" /\ matchRef.status = "READY" /\ ~ matchRef.pending
  /\ command' = [stage |-> "SENT", version |-> matchRef.version,
                 initial |-> IsInitial(matchRef), surrender |-> surrender, retry |-> FALSE]
  /\ Queue(<<Update("PENDING")>>)
  /\ UNCHANGED <<committed, match, matchRef, watermark, controller, hydration, sync, ackTimer,
                 rendering, overwritten>>

(* The server accepts, or finds the version stale: see CommandProcessor.   *)
(* Any other refusal changes nothing there and leaves the command SENT.    *)
Decide ==
  /\ command.stage = "SENT"
  /\ \/ /\ command.version = committed /\ committed < MaxVersion
        /\ committed' = committed + 1
        /\ command' = [command EXCEPT !.stage = "ACCEPTED", !.version = committed + 1]
     \/ /\ command.version # committed
        /\ command' = [command EXCEPT !.stage = "STALE", !.version = committed]
        /\ UNCHANGED committed
  /\ UNCHANGED <<match, matchRef, watermark, controller, hydration, sync, ackTimer, updates,
                 rendering, overwritten>>

AckAccepted ==
  LET transition == [version |-> command.version, snapshot |-> command.version]
  IN  /\ Free /\ command.stage = "ACCEPTED"
      /\ Queue(<<Update("SETTLED"), Received(transition)>>)
      /\ matchRef' = NextRef(transition)
      /\ ackTimer' = IF command.retry THEN ackTimer ELSE ToSequence(command.version)
      /\ command' = NoCommand
      /\ UNCHANGED <<committed, match, watermark, controller, hydration, sync, rendering,
                     overwritten>>

(* Refused, stale a second time, or not even sent.                         *)
AckRefused ==
  /\ Free
  /\ \/ command.stage = "SENT"
     \/ command.stage = "STALE" /\ command.retry
  /\ Queue(<<Update("SETTLED")>>)
  /\ command' = NoCommand
  /\ UNCHANGED <<committed, match, matchRef, watermark, controller, hydration, sync, ackTimer,
                 rendering, overwritten>>

AckStale ==
  /\ Free
  /\ command.stage = "STALE" /\ ~ command.surrender
  /\ SyncMatch(command.initial, <<Update("SETTLED")>>)
  /\ command' = [command EXCEPT !.stage = "AWAITING"]
  /\ UNCHANGED <<committed, match, matchRef, watermark, controller, ackTimer, rendering,
                 overwritten>>

(* A stale surrender is repeated from the snapshot in the answer, which    *)
(* replaces the match but not what the controller knows.                   *)
SurrenderAgain ==
  /\ Free
  /\ command.stage = "STALE" /\ command.surrender /\ ~ command.retry
  /\ watermark' = WatermarkOf(command.version)
  /\ Queue(<<Overwrite(command.version)>>)
  /\ command' = [command EXCEPT !.stage = "SENT", !.retry = TRUE]
  /\ UNCHANGED <<committed, match, matchRef, controller, hydration, sync, ackTimer, rendering,
                 overwritten>>

-----------------------------------------------------------------------------
(* Animations and React.                                                   *)

(* The animation of the active transition has ended.                       *)
AnimationEnds ==
  /\ ~ rendering
  /\ controller.queue.active # NoTransition
  /\ \A i \in 1 .. Len(updates) : updates[i] # Completed(Token(controller))
  /\ Queue(<<Completed(Token(controller))>>)
  /\ UNCHANGED <<committed, match, controller, refs, rendering, overwritten>>

(* What an update makes of the match.                                      *)
Busy(pending)  == IF match.status = "READY" THEN [match EXCEPT !.pending = pending] ELSE match
Loading        == IF match.status = "READY" THEN Busy(TRUE) ELSE Match("LOADING", 0, 0, FALSE)

RunOnMatch(update) ==
  /\ match' = CASE update.kind = "LOADING" -> Loading
                [] update.kind = "PENDING" -> Busy(TRUE)
                [] update.kind = "SETTLED" -> Busy(FALSE)
                [] OTHER -> Match("ERROR", 0, 0, FALSE)
  /\ updates' = Tail(updates)
  /\ UNCHANGED <<controller, watermark, hydration, sync, overwritten>>

RunOverwrite(update) ==
  /\ IF match.status = "READY"
     THEN /\ match' = Match("READY", update.version, ToSequence(update.version), TRUE)
          /\ overwritten' = TRUE
     ELSE UNCHANGED <<match, overwritten>>
  /\ updates' = Tail(updates)
  /\ UNCHANGED <<controller, watermark, hydration, sync>>

(* Faulty RunSynced: a board that is there stays as it is. *)
RunSyncedMatch(update) ==
  /\ match' = Match("READY", update.snapshot, update.last, FALSE)
  /\ controller' = IF controller = NoController THEN update.controller ELSE controller
  /\ overwritten' = FALSE
  /\ updates' = Tail(updates)
  /\ UNCHANGED <<watermark, hydration, sync>>

RunSynced(update) ==
  /\ match' = Match("READY", update.snapshot, update.last, FALSE)
  /\ controller' = update.controller
  /\ overwritten' = FALSE
  /\ updates' = Tail(updates)
  /\ UNCHANGED <<watermark, hydration, sync>>

RunCompleted(update) ==
  /\ controller' = CompletePresentation(controller, update.token)
  /\ updates' = Tail(updates)
  /\ UNCHANGED <<match, watermark, hydration, sync, overwritten>>

(* A gap in the match asks for a synchronisation.  That the controller     *)
(* pauses asks for nothing: its request needs a watermark of no match.     *)
MatchMisses(transition) ==
  /\ match.status = "READY" /\ ToSequence(transition.version) > match.last
  /\ ~ Extends(match, transition)

Follow(transition) ==
  IF controller = NoController THEN controller ELSE AcceptTransition(controller, transition)

RunTransition(transition) ==
  /\ controller' = Follow(transition)
  /\ IF Extends(match, transition)
     THEN /\ match' = Advance(match, transition)
          /\ watermark' = Watermark(transition.snapshot, ToSequence(transition.version))
     ELSE UNCHANGED <<match, watermark>>
  /\ IF MatchMisses(transition) /\ ~ sync.running
     THEN /\ sync' = Run(IsInitial(match), 0)
          /\ hydration' = IF IsInitial(match) THEN [on |-> TRUE, buffer |-> {}] ELSE hydration
          /\ updates' = Append(Tail(updates), Update("LOADING"))
     ELSE /\ sync' = IF MatchMisses(transition) /\ ~ IsInitial(match)
                     THEN [sync EXCEPT !.again = TRUE] ELSE sync
          /\ updates' = Tail(updates)
          /\ UNCHANGED hydration
  /\ UNCHANGED overwritten

Render ==
  /\ updates # <<>>
  /\ LET update == Head(updates)
     IN  \/ update.kind \in {"LOADING", "PENDING", "SETTLED", "ERROR"} /\ RunOnMatch(update)
         \/ update.kind = "OVERWRITE" /\ RunOverwrite(update)
         \/ update.kind = "SYNCED" /\ RunSynced(update)
         \/ update.kind = "COMPLETED" /\ RunCompleted(update)
         \/ update.kind = "TRANSITION" /\ RunTransition(update.transition)
  /\ matchRef' = match'
  /\ rendering' = (updates' # <<>>)
  /\ UNCHANGED <<committed, command, ackTimer>>

Answer == \E version \in 0 .. MaxVersion : SyncAnswered(version)
Ack    == AckAccepted \/ AckRefused \/ AckStale \/ SurrenderAgain

Next ==
  \/ \E transition \in Transitions : Receive(transition)
  \/ Answer \/ SyncFails
  \/ OpponentTimeout \/ AckTimeout
  \/ OthersCommit \/ Decide
  \/ \E surrender \in BOOLEAN : SubmitAction(surrender)
  \/ Ack
  \/ AnimationEnds \/ Render

Spec == Init /\ [][Next]_vars

-----------------------------------------------------------------------------
(* Properties. *)

Watermarks  == [version : Nat, last : Nat]
Envelopes   == [version : Nat \ {0}, snapshot : Nat]
Recoveries  == {"NO_CONTROLLER", "NONE", "SEQUENCE_GAP", "SEQUENCE_OVERLAP"}
Queues ==
  [queued : Seq(Envelopes), active : Envelopes \union {NoTransition}, reconciled : Watermarks]
Controllers ==
  [generation : Nat, authoritative : Watermarks, snapshot : Nat, presentation : Watermarks,
   queue : Queues, recovery : Recoveries]
Updates ==
  [kind : {"LOADING", "PENDING", "SETTLED", "ERROR"}]
  \union [kind : {"TRANSITION"}, transition : Envelopes]
  \union [kind : {"SYNCED"}, controller : Controllers, snapshot : Nat, last : Nat]
  \union [kind : {"OVERWRITE"}, version : Nat]
  \union [kind : {"COMPLETED"}, token : [generation : Nat, version : Nat]]

Matches ==
  [status : {"IDLE", "LOADING", "READY", "ERROR"}, version : Nat, last : Nat, pending : BOOLEAN]
Buffers ==
  {b \in [on : BOOLEAN, buffer : SUBSET Transitions] : ~ b.on => b.buffer = {}}
Syncs ==
  {s \in [running : BOOLEAN, initial : BOOLEAN, asked : 0 .. MaxVersion,
          retries : 0 .. StartupRetries, again : BOOLEAN] : ~ s.running => s = NoSync}
Commands ==
  {c \in [stage : {"NONE", "SENT", "ACCEPTED", "STALE", "AWAITING"}, version : Nat,
          initial : BOOLEAN, surrender : BOOLEAN, retry : BOOLEAN] :
     c.stage = "ACCEPTED" => c.version # 0}

(* Types, and what the refs may hold: only an open buffer holds broadcasts,*)
(* only a run in flight can be asked to run again, an accepted command is  *)
(* not the initial state, and React is not at work when nothing waits.     *)
TypeOK ==
  /\ committed \in 0 .. MaxVersion
  /\ match \in Matches /\ matchRef \in Matches
  /\ watermark \in Watermarks
  /\ controller \in Controllers
  /\ hydration \in Buffers /\ sync \in Syncs /\ command \in Commands
  /\ ackTimer \in Nat
  /\ updates \in Seq(Updates)
  /\ rendering \in BOOLEAN /\ overwritten \in BOOLEAN
  /\ rendering => updates # <<>>

(* What waits for its animation is contiguous and ends with what the       *)
(* controller takes for the state of the match.                            *)
Waiting(queue) ==
  IF queue.active = NoTransition THEN queue.queued ELSE <<queue.active>> \o queue.queued

QueueContiguous ==
  LET waiting == Waiting(controller.queue)
  IN  /\ \A i \in 1 .. (Len(waiting) - 1) : waiting[i + 1].version = waiting[i].version + 1
      /\ waiting # <<>> => /\ ToSequence(waiting[Len(waiting)].version)
                                = controller.authoritative.last
                           /\ controller.queue.active # NoTransition

(* Until a controller has paused, every transition is animated from the    *)
(* board its predecessor left: none is skipped or shown again.             *)
AnimatesInOrder ==
  controller.generation = 0 =>
    IF controller.queue.active = NoTransition
    THEN controller.presentation.last = controller.authoritative.last
    ELSE FromSequence(controller.queue.active.version) = controller.presentation.last + 1

(* The page decides twice whether a transition continues what it has, once *)
(* for the match and once for the board; the two agree until the           *)
(* controller pauses or a surrender is repeated.                           *)
BoardFollowsMatch ==
  match.status = "READY" /\ controller.generation = 0 /\ ~ overwritten =>
    controller.authoritative.last = match.last

(* No answer that waits for React is older than the match it rendered      *)
(* last, whatever waits before it - broadcasts, commands, other answers -  *)
(* unless that is a repeated surrender: syncMatch drops the older answers, *)
(* although the watermark it compares them with may be behind the match.   *)
(* So running what waits never puts an older match on the screen.          *)
AnswerAt(list, i) ==
  list[i].kind = "SYNCED" /\ \A j \in 1 .. (i - 1) : list[j].kind # "OVERWRITE"

AnswersKeepWhatIsShown ==
  ~ rendering /\ match.status = "READY" /\ ~ overwritten =>
    \A i \in 1 .. Len(updates) : AnswerAt(updates, i) => match.last <= updates[i].last

(* An answer does not take back what a broadcast that ran before it told:  *)
(* a later stale answer does not roll the match back.  The code does not   *)
(* keep this when the broadcast was still waiting as the answer came.      *)
AnswersTakeNothingBack ==
  [][updates # <<>> /\ updates' = Tail(updates)
     /\ Head(updates).kind = "SYNCED" /\ match.status = "READY" /\ ~ overwritten
     => match'.last >= match.last]_vars

(* What is on the board keeps the promises of MatchView, however late, in  *)
(* whatever order and through whichever update it gets there.              *)
View == INSTANCE MatchView WITH
          shown   <- controller.presentation.version,
          board   <- controller.snapshot,
          known   <- controller.authoritative.version,
          playing <- controller.queue.active.version,
          stopped <- controller.generation # 0

ImplementsView == View!ViewSpec

=============================================================================
