-------------------------- MODULE BotRunnerProofs ---------------------------
(***************************************************************************)
(* What BotRunner promises for any number of servers, versions, actions of *)
(* a kick, attempts and faults.                                            *)
(***************************************************************************)
EXTENDS BotRunner, TLAPS

(* What keeps a run's promise: a run that is about to submit a command     *)
(* counts only while its command is for the current version.  A stale one  *)
(* is refused and leaves no kick behind, so BotTurnNotForgotten, which     *)
(* counts every run that still has something to do, is not inductive.      *)
Fresh(s) ==
  \/ s \in queued \/ timers[s] # {}
  \/ run[s].at \in {"acquire", "detect", "choose"}
  \/ run[s].at = "submit" /\ run[s].seen = version

BotTurnCovered == turn = "BOT" => abandoned \/ \E s \in Servers : Fresh(s)

BotRunnerInv == TypeOK /\ BotTurnCovered

-----------------------------------------------------------------------------
(* The parts the actions share.                                            *)

LEMMA RunsTyped ==
  /\ Idle \in Runs
  /\ \A q \in Runs : [q EXCEPT !.at = "release", !.step = 0, !.seen = 0] \in Runs
  /\ \A q \in Runs, attempt \in 0 .. MaxAttempts :
       [q EXCEPT !.at = "acquire", !.attempt = attempt] \in Runs
<1>1. 0 \in 0 .. MaxAttempts /\ 0 \in 0 .. MaxActions /\ 0 \in 0 .. MaxVersion
  BY BotRunnerAssumption
<1>2. Idle \in Runs
  BY <1>1 DEF Idle, Runs
<1>3. \A q \in Runs : [q EXCEPT !.at = "release", !.step = 0, !.seen = 0] \in Runs
  BY <1>1 DEF Runs
<1>4. \A q \in Runs, attempt \in 0 .. MaxAttempts :
        [q EXCEPT !.at = "acquire", !.attempt = attempt] \in Runs
  BY DEF Runs
<1> QED
  BY <1>2, <1>3, <1>4

(* A kick of s starts a run or is remembered.                              *)
LEMMA KickKicks ==
  ASSUME TypeOK, NEW s \in Servers, NEW attempt \in 0 .. MaxAttempts,
         KickWithRetry(s, attempt)
  PROVE  /\ run' \in [Servers -> Runs] /\ queued' \in SUBSET Servers
         /\ s \in queued' \/ run'[s].at = "acquire"
         /\ run' = run \/ run[s].at = "idle"
         /\ \A t \in Servers \ {s} : run'[t] = run[t]
<1>1. [Idle EXCEPT !.at = "acquire", !.attempt = attempt] \in Runs
  BY RunsTyped
<1>2. [Idle EXCEPT !.at = "acquire", !.attempt = attempt].at = "acquire"
  BY DEF Idle
<1> QED
  <2>1. CASE run[s].at # "idle"
    BY <2>1 DEF KickWithRetry, TypeOK
  <2>2. CASE run[s].at = "idle"
    <3> DEFINE begun == [Idle EXCEPT !.at = "acquire", !.attempt = attempt]
    <3>1. run' = [run EXCEPT ![s] = begun] /\ queued' = queued
      BY <2>2 DEF KickWithRetry
    <3> HIDE DEF begun
    <3> QED
      BY <1>1, <1>2, <2>2, <3>1 DEF TypeOK, begun
  <2> QED
    BY <2>1, <2>2

(* A run that ends hands the kick it was asked to remember to a timer.     *)
LEMMA FinallyEnds ==
  ASSUME TypeOK, NEW s \in Servers, Finally(s)
  PROVE  /\ run' \in [Servers -> Runs] /\ queued' \in SUBSET Servers
         /\ run'[s].at = "idle"
         /\ \A t \in Servers \ {s} : run'[t] = run[t]
  BY RunsTyped DEF Finally, TypeOK, Idle

LEMMA BusyWaits ==
  ASSUME TypeOK, NEW s \in Servers, Busy(s)
  PROVE  /\ timers' \in [Servers -> SUBSET (0 .. MaxAttempts)]
         /\ looking' \in SUBSET Servers
         /\ timers'[s] # {}
<1>1. run[s].attempt \in 0 .. MaxAttempts
  BY DEF TypeOK, Runs
<1>2. (IF run[s].attempt >= MaxAttempts THEN 0 ELSE run[s].attempt + 1) \in 0 .. MaxAttempts
  BY <1>1, BotRunnerAssumption
<1>3. Requeued(s) \in SUBSET (0 .. MaxAttempts)
  BY BotRunnerAssumption DEF Requeued
<1> QED
  BY <1>2, <1>3 DEF Busy, TypeOK

LEMMA ExecutedKeeps ==
  ASSUME TypeOK, NEW s \in Servers, Executed(s)
  PROVE  /\ timers' \in [Servers -> SUBSET (0 .. MaxAttempts)]
         /\ \A t \in Servers : timers[t] \subseteq timers'[t]
         /\ s \in queued => timers'[s] # {}
<1>1. Requeued(s) \in SUBSET (0 .. MaxAttempts) /\ (s \in queued => Requeued(s) # {})
  BY BotRunnerAssumption DEF Requeued
<1> QED
  BY <1>1 DEF Executed, TypeOK

LEMMA LeaveLeaves ==
  ASSUME TypeOK, NEW s \in Servers, Leave(s)
  PROVE  /\ run' \in [Servers -> Runs]
         /\ run'[s].at = "release"
         /\ \A t \in Servers \ {s} : run'[t] = run[t]
<1> DEFINE left == [run[s] EXCEPT !.at = "release", !.step = 0, !.seen = 0]
<1>1. left \in Runs /\ left.at = "release"
  <2>1. run[s] \in Runs
    BY DEF TypeOK
  <2> QED
    BY <2>1, RunsTyped DEF Runs
<1>2. run' = [run EXCEPT ![s] = left]
  BY DEF Leave, TypeOK, Runs
<1> HIDE DEF left
<1> QED
  BY <1>1, <1>2 DEF TypeOK

LEMMA AdvanceMoves ==
  ASSUME TypeOK, Advance
  PROVE  /\ version' \in 0 .. MaxVersion /\ version' = version + 1
         /\ turn' \in {"BOT", "HUMAN", "OVER"} /\ watchdogs' \in SUBSET Servers
<1>1. version + 1 \in 0 .. MaxVersion
  BY BotRunnerAssumption DEF Advance, TypeOK
<1>2. turn' \in {"BOT", "HUMAN", "OVER"}
  BY DEF Advance
<1> QED
  BY <1>1, <1>2 DEF Advance

-----------------------------------------------------------------------------
(* Every step preserves the invariant.                                     *)

LEMMA InitEstablishes == Init => BotRunnerInv
<1> SUFFICES ASSUME Init PROVE BotRunnerInv
  OBVIOUS
<1>1. PICK starter \in Servers :
        run = [s \in Servers |-> IF s = starter THEN [Idle EXCEPT !.at = "acquire"] ELSE Idle]
  BY DEF Init
<1>2. [Idle EXCEPT !.at = "acquire"] \in Runs /\ [Idle EXCEPT !.at = "acquire"].at = "acquire"
  BY RunsTyped DEF Idle, Runs
<1>3. run \in [Servers -> Runs] /\ run[starter].at = "acquire"
  BY <1>1, <1>2, RunsTyped
<1>4. TypeOK
  <2>1. 0 \in 0 .. MaxVersion /\ 0 \in 0 .. MaxEvents
    BY BotRunnerAssumption
  <2>2. timers \in [Servers -> SUBSET (0 .. MaxAttempts)] /\ abandoned \in BOOLEAN
    BY DEF Init
  <2> QED
    BY <1>3, <2>1, <2>2 DEF Init, TypeOK
<1> QED
  BY <1>3, <1>4 DEF BotRunnerInv, BotTurnCovered, Fresh

(* A kick covers the turn, whatever else the step did to the match.        *)
LEMMA KicksCover ==
  ASSUME TypeOK, NEW s \in Servers, NEW attempt \in 0 .. MaxAttempts,
         KickWithRetry(s, attempt)
  PROVE  BotTurnCovered'
  BY KickKicks DEF BotTurnCovered, Fresh

LEMMA MatchStep ==
  ASSUME BotRunnerInv, NEW s \in Servers, PlayerCommits(s) \/ KickByClient(s)
  PROVE  BotRunnerInv'
<1>1. TypeOK /\ 0 \in 0 .. MaxAttempts
  BY BotRunnerAssumption DEF BotRunnerInv
<1>2. KickWithRetry(s, 0) /\ abandoned' = FALSE
  BY DEF PlayerCommits, KickByClient
<1>3. BotTurnCovered'
  BY <1>1, <1>2, KicksCover
<1>4. run' \in [Servers -> Runs] /\ queued' \in SUBSET Servers
  BY <1>1, <1>2, KickKicks
<1>5. CASE PlayerCommits(s)
  <2>1. /\ version' \in 0 .. MaxVersion /\ turn' \in {"BOT", "HUMAN", "OVER"}
        /\ watchdogs' \in SUBSET Servers
    BY <1>1, <1>5, AdvanceMoves DEF PlayerCommits, PlayerAdvances
  <2> QED
    BY <1>1, <1>2, <1>3, <1>4, <1>5, <2>1 DEF PlayerCommits, TypeOK, BotRunnerInv
<1>6. CASE KickByClient(s)
  <2>1. events' \in 0 .. MaxEvents
    BY <1>1, <1>6, BotRunnerAssumption DEF KickByClient, Event, TypeOK
  <2> QED
    BY <1>1, <1>2, <1>3, <1>4, <1>6, <2>1 DEF KickByClient, TypeOK, BotRunnerInv
<1> QED
  BY <1>5, <1>6

(* A run that moves on within the match: the turn stays covered by s.       *)
LEMMA RunMovesTyped ==
  ASSUME TypeOK, NEW s \in Servers
  PROVE  /\ \A at \in {"idle", "acquire", "detect", "choose", "submit", "release"} :
              [run[s] EXCEPT !.at = at] \in Runs
         /\ \A held \in {"redis", "memory"} :
              [run[s] EXCEPT !.at = "detect", !.held = held] \in Runs
         /\ [run[s] EXCEPT !.at = "submit", !.seen = version] \in Runs
         /\ run[s].step + 1 < MaxActions =>
              [run[s] EXCEPT !.at = "detect", !.step = run[s].step + 1, !.seen = 0] \in Runs
<1>1. run[s] \in Runs /\ version \in 0 .. MaxVersion
  BY DEF TypeOK
<1>2. \A at \in {"idle", "acquire", "detect", "choose", "submit", "release"} :
        [run[s] EXCEPT !.at = at] \in Runs
  BY <1>1 DEF Runs
<1>3. \A held \in {"redis", "memory"} : [run[s] EXCEPT !.at = "detect", !.held = held] \in Runs
  BY <1>1 DEF Runs
<1>4. [run[s] EXCEPT !.at = "submit", !.seen = version] \in Runs
  BY <1>1 DEF Runs
<1>5. ASSUME run[s].step + 1 < MaxActions
      PROVE  [run[s] EXCEPT !.at = "detect", !.step = run[s].step + 1, !.seen = 0] \in Runs
  <2>1. run[s].step + 1 \in 0 .. MaxActions /\ 0 \in 0 .. MaxVersion
    BY <1>1, <1>5, BotRunnerAssumption DEF Runs
  <2> DEFINE step == run[s].step + 1
  <2> HIDE DEF step
  <2>2. [run[s] EXCEPT !.at = "detect", !.step = step, !.seen = 0] \in Runs
    BY <1>1, <2>1 DEF Runs, step
  <2> QED
    BY <2>2 DEF step
<1> QED
  BY <1>2, <1>3, <1>4, <1>5

(* Whoever was covering the turn still is, and it is the same turn.        *)
LEMMA StillCovered ==
  ASSUME BotTurnCovered, turn' = turn, abandoned' = abandoned,
         \A t \in Servers : Fresh(t) => Fresh(t)'
  PROVE  BotTurnCovered'
  BY DEF BotTurnCovered

LEMMA RunStepPreserves ==
  ASSUME BotRunnerInv, NEW s \in Servers, RunStep(s)
  PROVE  BotRunnerInv'
<1> USE DEF BotRunnerInv
<1>1. CASE Acquire(s)
  <2>1. run' \in [Servers -> Runs] /\ run'[s].at = "detect"
    <3> DEFINE next == [run[s] EXCEPT !.at = "detect", !.held = "redis"]
    <3>1. run' = [run EXCEPT ![s] = next]
      BY <1>1 DEF Acquire, TypeOK, Runs
    <3>2. next \in Runs
      BY RunMovesTyped
    <3>3. next.at = "detect"
      BY DEF TypeOK, Runs
    <3> HIDE DEF next
    <3> QED
      BY <3>1, <3>2, <3>3 DEF TypeOK
  <2>2. TypeOK'
    BY <1>1, <2>1 DEF Acquire, TypeOK
  <2> QED
    BY <1>1, <2>1, <2>2 DEF Acquire, BotTurnCovered, Fresh, TypeOK
<1>2. CASE LeaseBusy(s)
  <2>1. Busy(s) /\ Finally(s)
    BY <1>2 DEF LeaseBusy, Busy
  <2>2. TypeOK'
    BY <1>2, <2>1, BusyWaits, FinallyEnds DEF LeaseBusy, TypeOK
  <2>3. Fresh(s)'
    BY <2>1, BusyWaits DEF Fresh
  <2> QED
    BY <2>2, <2>3 DEF BotTurnCovered
<1>3. CASE Detect(s)
  <2>1. CASE turn = "BOT"
    <3> DEFINE next == [run[s] EXCEPT !.at = "choose"]
    <3>1. run' = [run EXCEPT ![s] = next]
      BY <1>3, <2>1 DEF Detect
    <3>2. next \in Runs
      BY RunMovesTyped
    <3>3. next.at = "choose"
      BY DEF TypeOK, Runs
    <3> HIDE DEF next
    <3>4. run' \in [Servers -> Runs] /\ run'[s].at = "choose"
      BY <3>1, <3>2, <3>3 DEF TypeOK
    <3>5. TypeOK'
      BY <1>3, <3>4 DEF Detect, TypeOK
    <3> QED
      BY <3>4, <3>5 DEF BotTurnCovered, Fresh
  <2>2. CASE turn # "BOT"
    <3>1. Leave(s) /\ turn' # "BOT"
      BY <1>3, <2>2 DEF Detect
    <3>2. TypeOK'
      BY <1>3, <3>1, LeaveLeaves DEF Detect, TypeOK
    <3> QED
      BY <3>1, <3>2 DEF BotTurnCovered
  <2> QED
    BY <2>1, <2>2
<1>4. CASE Choose(s)
  <2>1. CASE turn = "BOT"
    <3> DEFINE next == [run[s] EXCEPT !.at = "submit", !.seen = version]
    <3>1. run' = [run EXCEPT ![s] = next]
      BY <1>4, <2>1 DEF Choose, TypeOK, Runs
    <3>2. next \in Runs
      BY RunMovesTyped
    <3>3. next.at = "submit" /\ next.seen = version
      BY DEF TypeOK, Runs
    <3> HIDE DEF next
    <3>4. run' \in [Servers -> Runs] /\ run'[s].at = "submit" /\ run'[s].seen = version'
      BY <1>4, <3>1, <3>2, <3>3 DEF TypeOK, Choose
    <3>5. TypeOK'
      BY <1>4, <3>4 DEF Choose, TypeOK
    <3> QED
      BY <3>4, <3>5 DEF BotTurnCovered, Fresh
  <2>2. CASE turn # "BOT"
    <3>1. Leave(s) /\ turn' # "BOT"
      BY <1>4, <2>2 DEF Choose
    <3>2. TypeOK'
      BY <1>4, <3>1, LeaveLeaves DEF Choose, TypeOK
    <3> QED
      BY <3>1, <3>2 DEF BotTurnCovered
  <2> QED
    BY <2>1, <2>2
<1>5. CASE SubmitApplied(s)
  <2>1. /\ version' \in 0 .. MaxVersion /\ turn' \in {"BOT", "HUMAN", "OVER"}
        /\ watchdogs' \in SUBSET Servers
    BY <1>5, AdvanceMoves DEF SubmitApplied
  <2>2. CASE run[s].step + 1 < MaxActions
    <3> DEFINE next == [run[s] EXCEPT !.at = "detect", !.step = run[s].step + 1, !.seen = 0]
    <3>1. run' = [run EXCEPT ![s] = next] /\ UNCHANGED abandoned
      BY <1>5, <2>2 DEF SubmitApplied, TypeOK, Runs
    <3>2. next \in Runs
      BY <2>2, RunMovesTyped
    <3>3. next.at = "detect"
      BY DEF TypeOK, Runs
    <3> HIDE DEF next
    <3>4. run' \in [Servers -> Runs] /\ run'[s].at = "detect"
      BY <3>1, <3>2, <3>3 DEF TypeOK
    <3>5. TypeOK'
      BY <1>5, <2>1, <3>1, <3>4 DEF SubmitApplied, TypeOK
    <3> QED
      BY <3>4, <3>5 DEF BotTurnCovered, Fresh
  <2>3. CASE ~ (run[s].step + 1 < MaxActions)
    <3>1. Leave(s) /\ abandoned' = TRUE
      BY <1>5, <2>3 DEF SubmitApplied, Abandon
    <3>2. TypeOK'
      BY <1>5, <2>1, <3>1, LeaveLeaves DEF SubmitApplied, TypeOK
    <3> QED
      BY <3>1, <3>2 DEF BotTurnCovered
  <2> QED
    BY <2>2, <2>3
<1>6. CASE SubmitRefused(s)
  <2>1. Leave(s) /\ looking' \in SUBSET Servers
    BY <1>6 DEF SubmitRefused, TypeOK
  <2>2. TypeOK'
    BY <1>6, <2>1, LeaveLeaves DEF SubmitRefused, TypeOK
  <2>3. CASE turn = "BOT"
    <3>1. run[s].at = "submit" /\ run[s].seen # version
      BY <1>6, <2>3 DEF SubmitRefused, Accepted
    <3>2. \A t \in Servers : Fresh(t) => Fresh(t)'
      BY <1>6, <2>1, <3>1, LeaveLeaves DEF SubmitRefused, Fresh
    <3> QED
      BY <1>6, <2>2, <3>2, StillCovered DEF SubmitRefused
  <2>4. CASE turn # "BOT"
    BY <1>6, <2>2, <2>4 DEF SubmitRefused, BotTurnCovered
  <2> QED
    BY <2>3, <2>4
<1>7. CASE Release(s)
  <2>1. Executed(s) /\ Finally(s) /\ run[s].at = "release"
    BY <1>7 DEF Release, Executed
  <2>2. TypeOK'
    <3>1. lease' \in Servers \union {NoLease, Orphan}
      BY <1>7 DEF Release, LeaseAfterRelease, TypeOK
    <3>2. looking' = looking
      BY <2>1 DEF Executed
    <3> QED
      BY <1>7, <2>1, <3>1, <3>2, ExecutedKeeps, FinallyEnds DEF Release, TypeOK
  <2>3. \A t \in Servers : Fresh(t) => Fresh(t)'
    <3>1. Fresh(s) => Fresh(s)'
      BY <2>1, ExecutedKeeps DEF Fresh, TypeOK
    <3>2. ASSUME NEW t \in Servers \ {s}, Fresh(t)
          PROVE  Fresh(t)'
      <4>1. run'[t] = run[t] /\ (t \in queued => t \in queued') /\ version' = version
        BY <1>7, <2>1, FinallyEnds DEF Finally, Release
      <4> QED
        BY <2>1, <3>2, <4>1, ExecutedKeeps DEF Fresh, TypeOK
    <3> QED
      BY <3>1, <3>2
  <2> QED
    BY <1>7, <2>2, <2>3, StillCovered DEF Release
<1> QED
  BY <1>1, <1>2, <1>3, <1>4, <1>5, <1>6, <1>7 DEF RunStep

LEMMA TimerStepPreserves ==
  ASSUME BotRunnerInv, NEW s \in Servers, TimerStep(s)
  PROVE  BotRunnerInv'
<1> USE DEF BotRunnerInv
<1>1. ASSUME NEW attempt \in 0 .. MaxAttempts, TimerFires(s, attempt)
      PROVE  BotRunnerInv'
  <2>1. KickWithRetry(s, attempt) /\ timers' \in [Servers -> SUBSET (0 .. MaxAttempts)]
    BY <1>1 DEF TimerFires, TypeOK
  <2>2. run' \in [Servers -> Runs] /\ queued' \in SUBSET Servers
    BY <2>1, KickKicks
  <2>3. TypeOK'
    BY <1>1, <2>1, <2>2 DEF TimerFires, TypeOK
  <2> QED
    BY <2>1, <2>3, KicksCover
<1>2. CASE WatchdogSet(s)
  <2>1. TypeOK'
    BY <1>2 DEF WatchdogSet, TypeOK
  <2>2. \A t \in Servers : Fresh(t) => Fresh(t)'
    BY <1>2 DEF WatchdogSet, Fresh
  <2> QED
    BY <1>2, <2>1, <2>2, StillCovered DEF WatchdogSet
<1>3. CASE WatchdogFires(s)
  <2>1. CASE turn = "BOT"
    <3>1. KickWithRetry(s, 0) /\ 0 \in 0 .. MaxAttempts
      BY <1>3, <2>1, BotRunnerAssumption DEF WatchdogFires
    <3>2. run' \in [Servers -> Runs] /\ queued' \in SUBSET Servers
      BY <3>1, KickKicks
    <3>3. TypeOK'
      BY <1>3, <3>2 DEF WatchdogFires, TypeOK
    <3> QED
      BY <3>1, <3>3, KicksCover
  <2>2. CASE turn # "BOT"
    BY <1>3, <2>2 DEF WatchdogFires, TypeOK, BotTurnCovered
  <2> QED
    BY <2>1, <2>2
<1> QED
  BY <1>1, <1>2, <1>3 DEF TimerStep

LEMMA FaultStepPreserves ==
  ASSUME BotRunnerInv, NEW s \in Servers, FaultStep(s)
  PROVE  BotRunnerInv'
<1> USE DEF BotRunnerInv
<1>1. ASSUME Event
      PROVE  events' \in 0 .. MaxEvents
  BY <1>1, BotRunnerAssumption DEF Event, TypeOK
<1>2. CASE AcquireInMemory(s)
  <2> DEFINE next == [run[s] EXCEPT !.at = "detect", !.held = "memory"]
  <2>1. run' = [run EXCEPT ![s] = next]
    BY <1>2 DEF AcquireInMemory, TypeOK, Runs
  <2>2. next \in Runs
    BY RunMovesTyped
  <2>3. next.at = "detect"
    BY DEF TypeOK, Runs
  <2> HIDE DEF next
  <2>4. run' \in [Servers -> Runs] /\ run'[s].at = "detect"
    BY <2>1, <2>2, <2>3 DEF TypeOK
  <2>5. TypeOK'
    BY <1>1, <1>2, <2>4 DEF AcquireInMemory, TypeOK
  <2> QED
    BY <2>4, <2>5 DEF BotTurnCovered, Fresh
<1>3. CASE RunThrows(s)
  <2>1. Leave(s) /\ abandoned' = TRUE /\ events' \in 0 .. MaxEvents
    BY <1>1, <1>3 DEF RunThrows, Abandon
  <2>2. /\ version' \in 0 .. MaxVersion /\ turn' \in {"BOT", "HUMAN", "OVER"}
        /\ watchdogs' \in SUBSET Servers
    BY <1>3, AdvanceMoves DEF RunThrows, matchVars, TypeOK
  <2>3. TypeOK'
    BY <1>3, <2>1, <2>2, LeaveLeaves DEF RunThrows, TypeOK
  <2> QED
    BY <2>1, <2>3 DEF BotTurnCovered
<1>4. CASE ReleaseFails(s)
  <2>1. Busy(s) /\ Finally(s) /\ events' \in 0 .. MaxEvents
    BY <1>1, <1>4 DEF ReleaseFails, Busy
  <2>2. TypeOK'
    BY <1>4, <2>1, BusyWaits, FinallyEnds DEF ReleaseFails, TypeOK
  <2>3. Fresh(s)'
    BY <2>1, BusyWaits DEF Fresh
  <2> QED
    BY <2>2, <2>3 DEF BotTurnCovered
<1>5. CASE WatchdogNotSet(s)
  <2>1. TypeOK'
    BY <1>1, <1>5 DEF WatchdogNotSet, TypeOK
  <2>2. \A t \in Servers : Fresh(t) => Fresh(t)'
    BY <1>5 DEF WatchdogNotSet, Fresh
  <2> QED
    BY <1>5, <2>1, <2>2, StillCovered DEF WatchdogNotSet
<1>6. CASE Crash(s)
  <2>1. /\ version' \in 0 .. MaxVersion /\ turn' \in {"BOT", "HUMAN", "OVER"}
        /\ watchdogs' \in SUBSET Servers
    BY <1>6, AdvanceMoves DEF Crash, PlayerAdvances, TypeOK
  <2>2. /\ run' \in [Servers -> Runs] /\ events' \in 0 .. MaxEvents
        /\ timers' \in [Servers -> SUBSET (0 .. MaxAttempts)]
    BY <1>1, <1>6, RunsTyped DEF Crash, TypeOK
  <2>3. TypeOK' /\ abandoned' = TRUE
    BY <1>6, <2>1, <2>2 DEF Crash, Abandon, TypeOK
  <2> QED
    BY <2>3 DEF BotTurnCovered
<1> QED
  BY <1>2, <1>3, <1>4, <1>5, <1>6 DEF FaultStep

LEMMA StepPreserves == BotRunnerInv /\ [Next]_vars => BotRunnerInv'
<1> SUFFICES ASSUME BotRunnerInv, [Next]_vars PROVE BotRunnerInv'
  OBVIOUS
<1>1. CASE Expire
  <2>1. TypeOK'
    BY <1>1 DEF Expire, BotRunnerInv, TypeOK
  <2>2. \A t \in Servers : Fresh(t) => Fresh(t)'
    BY <1>1 DEF Expire, Fresh
  <2> QED
    BY <1>1, <2>1, <2>2, StillCovered DEF Expire, BotRunnerInv
<1>2. CASE UNCHANGED vars
  <2>1. TypeOK'
    BY <1>2 DEF vars, BotRunnerInv, TypeOK
  <2>2. \A t \in Servers : Fresh(t) => Fresh(t)'
    BY <1>2 DEF vars, Fresh
  <2> QED
    BY <1>2, <2>1, <2>2, StillCovered DEF vars, BotRunnerInv
<1>3. ASSUME NEW s \in Servers,
             PlayerCommits(s) \/ KickByClient(s) \/ RunStep(s) \/ TimerStep(s) \/ FaultStep(s)
      PROVE  BotRunnerInv'
  BY <1>3, MatchStep, RunStepPreserves, TimerStepPreserves, FaultStepPreserves
<1> QED
  BY <1>1, <1>2, <1>3 DEF Next

(* The invariant holds in every reachable state.                           *)
THEOREM InvariantHolds == Spec => []BotRunnerInv
<1> QED
  BY InitEstablishes, StepPreserves, PTL DEF Spec

(* Every variable keeps its type: runs stay within MaxActions commands,    *)
(* retries within MaxAttempts, versions within MaxVersion.                 *)
THEOREM TypeCorrect == Spec => []TypeOK
<1>1. BotRunnerInv => TypeOK
  BY DEF BotRunnerInv
<1> QED
  BY <1>1, InvariantHolds, PTL

(* While it is a bot's turn and no run has given up since the last kick,   *)
(* some process has a kick queued, a timer, or a run that will still read  *)
(* the turn: kickWithRetry, scheduleRetry and the finally of runExclusive  *)
(* lose no turn among them, in whatever order several servers run them.    *)
THEOREM BotTurnNotForgottenHolds == Spec => []BotTurnNotForgotten
<1>1. BotRunnerInv => BotTurnNotForgotten
  BY DEF BotRunnerInv, BotTurnCovered, BotTurnNotForgotten, Fresh, Promised
<1> QED
  BY <1>1, InvariantHolds, PTL

-----------------------------------------------------------------------------
(* What a step may do to the lease and to the match.                       *)

LEMMA LeaseStep ==
  BotRunnerInv /\ Next =>
    \A s \in Servers : lease = s /\ lease' # s => run' = run \/ run'[s] # run[s]
<1> SUFFICES ASSUME BotRunnerInv, Next, NEW s \in Servers, lease = s, lease' # s
             PROVE  run' = run \/ run'[s] # run[s]
  OBVIOUS
<1>1. TypeOK /\ lease # NoLease
  BY BotRunnerAssumption DEF BotRunnerInv
<1>2. CASE Expire
  BY <1>2 DEF Expire
<1>3. ASSUME NEW t \in Servers, Release(t) \/ ReleaseFails(t)
      PROVE  run'[s] # run[s]
  <2>1. Finally(t) /\ run[t].at = "release" /\ lease = t
    BY <1>3 DEF Release, ReleaseFails, Executed, Busy, LeaseAfterRelease
  <2> QED
    BY <1>1, <2>1, FinallyEnds
<1>4. ASSUME NEW t \in Servers, Crash(t)
      PROVE  run' = run \/ run'[s] # run[s]
  <2>1. s = t /\ run' = [run EXCEPT ![s] = Idle]
    BY <1>4 DEF Crash
  <2>2. CASE run[s] = Idle
    BY <1>1, <2>1, <2>2 DEF TypeOK
  <2>3. CASE run[s] # Idle
    BY <1>1, <2>1, <2>3 DEF TypeOK
  <2> QED
    BY <2>2, <2>3
<1>5. ASSUME NEW t \in Servers,
             \/ PlayerCommits(t) \/ KickByClient(t) \/ TimerStep(t)
             \/ Acquire(t) \/ LeaseBusy(t) \/ Detect(t) \/ Choose(t)
             \/ SubmitApplied(t) \/ SubmitRefused(t)
             \/ AcquireInMemory(t) \/ RunThrows(t) \/ WatchdogNotSet(t)
      PROVE  FALSE
  BY <1>1, <1>5
     DEF PlayerCommits, KickByClient, TimerStep, TimerFires, WatchdogSet, WatchdogFires,
         Acquire, LeaseBusy, Detect, Choose, SubmitApplied, SubmitRefused,
         AcquireInMemory, RunThrows, WatchdogNotSet
<1> QED
  BY <1>2, <1>3, <1>4, <1>5 DEF Next, RunStep, FaultStep

(* A lease goes only by expiry or by the release (or the death) of the run *)
(* that holds it: releaseScript compares the token before it deletes.      *)
THEOREM LeaseReleasedByOwnerHolds == Spec => LeaseReleasedByOwner
<1> QED
  BY InvariantHolds, LeaseStep, PTL DEF Spec, LeaseReleasedByOwner

=============================================================================
