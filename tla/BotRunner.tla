----------------------------- MODULE BotRunner ------------------------------
(***************************************************************************)
(* How the turns of bots get played (apps/api/src/bots).  Every server     *)
(* process has one runner; this module follows one match.  A kick takes a  *)
(* lease in Redis, plays up to MaxActions commands through the ordinary    *)
(* command path, and releases the lease.  Kicks come from committed        *)
(* commands and from clients that join or synchronise; everything else     *)
(* that keeps a match of bots going is a timer of some process.            *)
(*                                                                         *)
(* The command path is CommandProcessor's: a command is applied if its     *)
(* version is still the match's, and refused otherwise.  That a bot in     *)
(* turn always finds a legal action is ActionAvailable of MatchEngine.     *)
(***************************************************************************)
EXTENDS Naturals, FiniteSets

CONSTANTS
  Servers,      \* server processes
  MaxActions,   \* maxActionsPerKick (8)
  MaxAttempts,  \* maxLeaseRetryAttempts (3)
  MaxVersion,   \* bound: the match is over at this version
  MaxEvents     \* bound on failures (of reads, commands, leases, processes) and
                \* on kicks by clients that join or synchronise

(* The lease holds the token of a run.  A process has one run at a time, so *)
(* its name stands for the token; a process that dies leaves Orphan.       *)
NoLease == "none"
Orphan  == "orphan"

ASSUME BotRunnerAssumption ==
  /\ MaxActions \in Nat \ {0} /\ MaxAttempts \in Nat
  /\ MaxVersion \in Nat /\ MaxEvents \in Nat
  /\ {NoLease, Orphan} \cap Servers = {}

VARIABLES
  version,    \* state version of the match
  turn,       \* whose turn it is at that version: "BOT", "HUMAN" or "OVER"
  lease,      \* NoLease, Orphan or the server whose run holds it
  run,        \* server -> its run of the match; at "idle": not in localInFlight
  queued,     \* queuedKicks: servers kicked again during their run
  timers,     \* server -> pending timers that will kick: the attempt they make
  looking,    \* servers whose scheduleWatchdog is reading the turn
  watchdogs,  \* servers with a pending watchdog for this version
  abandoned,  \* history: a run gave up since the last kick (see Abandon)
  events      \* failures and clients' kicks so far

matchVars == <<version, turn, watchdogs>>
vars == <<version, turn, lease, run, queued, timers, looking, watchdogs,
          abandoned, events>>

Idle == [at |-> "idle", attempt |-> 0, step |-> 0, seen |-> 0, held |-> "none"]

Runs == [at : {"idle", "acquire", "detect", "choose", "submit", "release"},
         attempt : 0 .. MaxAttempts, step : 0 .. MaxActions,
         seen : 0 .. MaxVersion, held : {"none", "redis", "memory"}]

-----------------------------------------------------------------------------

(* A command was committed; at the bound the match is over.  A watchdog    *)
(* observes one version and does nothing once it has passed, so the        *)
(* pending ones are dropped here.                                          *)
Advance ==
  /\ version < MaxVersion
  /\ version' = version + 1
  /\ watchdogs' = {}
  /\ turn' \in IF version' = MaxVersion THEN {"OVER"} ELSE {"BOT", "HUMAN", "OVER"}

(* Faulty KickWithRetry: a kick during a run is forgotten. *)
KickForgotten(s, attempt) ==
  /\ queued' = queued
  /\ run' = IF run[s].at # "idle" THEN run
            ELSE [run EXCEPT ![s] = [Idle EXCEPT !.at = "acquire", !.attempt = attempt]]

(* kickWithRetry: at most one run of a process at a time; a kick during a  *)
(* run is remembered.                                                      *)
KickWithRetry(s, attempt) ==
  IF run[s].at # "idle"
  THEN queued' = queued \union {s} /\ run' = run
  ELSE /\ queued' = queued
       /\ run' = [run EXCEPT ![s] = [Idle EXCEPT !.at = "acquire", !.attempt = attempt]]

(* A run ends without having seen the turn go and without a timer.         *)
Abandon == abandoned' = TRUE

(* finally: a kick that came during the run starts another one.            *)
Requeued(s) == IF s \in queued THEN {0} ELSE {}

Finally(s) ==
  /\ run' = [run EXCEPT ![s] = Idle]
  /\ queued' = queued \ {s}

(* The promise of runExclusive with a result: it is done.                  *)
Executed(s) ==
  /\ timers' = [timers EXCEPT ![s] = @ \union Requeued(s)]
  /\ UNCHANGED looking
  /\ Finally(s)

(* Faulty Busy: nothing is scheduled after the last attempt. *)
BusyGivesUp(s) ==
  /\ looking' = looking \union {s}
  /\ timers' = [timers EXCEPT ![s] =
       @ \union Requeued(s)
         \union IF run[s].attempt >= MaxAttempts THEN {} ELSE {run[s].attempt + 1}]
  /\ Finally(s)

(* ... and without one: watchdog and the next attempt, or after the last   *)
(* one a fresh kick by the recovery timer.                                 *)
Busy(s) ==
  /\ looking' = looking \union {s}
  /\ timers' = [timers EXCEPT ![s] =
       @ \union Requeued(s)
         \union {IF run[s].attempt >= MaxAttempts THEN 0 ELSE run[s].attempt + 1}]
  /\ Finally(s)

Event == events < MaxEvents /\ events' = events + 1

-----------------------------------------------------------------------------
(* What happens to the match outside the runners.                          *)

(* The match has just been started by s, which kicks (onMatchStarted).     *)
Init ==
  /\ version = 0 /\ turn \in {"BOT", "HUMAN"}
  /\ lease = NoLease
  /\ \E starter \in Servers :
       run = [s \in Servers |-> IF s = starter THEN [Idle EXCEPT !.at = "acquire"] ELSE Idle]
  /\ queued = {} /\ looking = {}
  /\ timers = [s \in Servers |-> {}]
  /\ watchdogs = {}
  /\ abandoned = FALSE
  /\ events = 0

(* A player's command, in its turn or as a surrender during the turn of a  *)
(* bot, which keeps the turn or ends the match.                            *)
PlayerAdvances == Advance /\ (turn = "BOT" => turn' # "HUMAN")

(* ... committed by s, which then kicks (wakeBotRunner).                   *)
PlayerCommits(s) ==
  /\ PlayerAdvances
  /\ KickWithRetry(s, 0)
  /\ abandoned' = FALSE
  /\ UNCHANGED <<lease, timers, looking, events>>

(* wakeBotRunner for match:join and game:sync.                             *)
KickByClient(s) ==
  /\ Event
  /\ KickWithRetry(s, 0)
  /\ abandoned' = FALSE
  /\ UNCHANGED <<version, turn, lease, timers, looking, watchdogs>>

-----------------------------------------------------------------------------
(* One run.                                                                *)

(* SET NX PX: the lease is free.                                           *)
Acquire(s) ==
  /\ run[s].at = "acquire" /\ lease = NoLease
  /\ lease' = s
  /\ run' = [run EXCEPT ![s].at = "detect", ![s].held = "redis"]
  /\ UNCHANGED <<version, turn, queued, timers, looking, watchdogs, abandoned, events>>

LeaseBusy(s) ==
  /\ run[s].at = "acquire" /\ lease # NoLease
  /\ Busy(s)
  /\ UNCHANGED <<version, turn, lease, watchdogs, abandoned, events>>

(* Redis does not answer: the lease of this process alone, which its only  *)
(* run always gets.                                                        *)
AcquireInMemory(s) ==
  /\ run[s].at = "acquire"
  /\ Event
  /\ run' = [run EXCEPT ![s].at = "detect", ![s].held = "memory"]
  /\ UNCHANGED <<version, turn, lease, queued, timers, looking, watchdogs, abandoned>>

(* The loop returns; what it knew is gone.                                 *)
Leave(s) == run' = [run EXCEPT ![s].at = "release", ![s].step = 0, ![s].seen = 0]

(* readTurn before the delay: is it a bot's turn at all?                   *)
Detect(s) ==
  /\ run[s].at = "detect"
  /\ IF turn = "BOT" THEN run' = [run EXCEPT ![s].at = "choose"] ELSE Leave(s)
  /\ UNCHANGED <<version, turn, lease, queued, timers, looking, watchdogs, abandoned, events>>

(* readTurn after the delay: the command is chosen for what it shows.      *)
Choose(s) ==
  /\ run[s].at = "choose"
  /\ IF turn = "BOT" THEN run' = [run EXCEPT ![s].at = "submit", ![s].seen = version]
                     ELSE Leave(s)
  /\ UNCHANGED <<version, turn, lease, queued, timers, looking, watchdogs, abandoned, events>>

(* submitCommand: a bot is in turn and the command's version is current.   *)
Accepted(s) == turn = "BOT" /\ run[s].seen = version

(* The command is applied; the run goes on, or has reached its limit.      *)
SubmitApplied(s) ==
  /\ run[s].at = "submit" /\ Accepted(s)
  /\ Advance
  /\ IF run[s].step + 1 < MaxActions
     THEN /\ run' = [run EXCEPT ![s].at = "detect", ![s].step = @ + 1, ![s].seen = 0]
          /\ UNCHANGED abandoned
     ELSE Leave(s) /\ Abandon
  /\ UNCHANGED <<lease, queued, timers, looking, events>>

SubmitRefused(s) ==
  /\ run[s].at = "submit" /\ ~ Accepted(s)
  /\ looking' = looking \union {s}
  /\ Leave(s)
  /\ UNCHANGED <<version, turn, lease, queued, timers, watchdogs, abandoned, events>>

(* A read or a command throws out of the run, the command possibly after   *)
(* it was applied: the kick ends, and nothing is scheduled.                *)
RunThrows(s) ==
  /\ run[s].at \in {"detect", "choose", "submit"}
  /\ Event
  /\ \/ UNCHANGED matchVars
     \/ run[s].at = "submit" /\ Accepted(s) /\ Advance
  /\ Leave(s)
  /\ Abandon
  /\ UNCHANGED <<lease, queued, timers, looking>>

(* Faulty LeaseAfterRelease: deletes whatever lease there is. *)
ReleaseAnybodys(s) == NoLease

(* The release script compares the token.                                  *)
LeaseAfterRelease(s) == IF lease = s THEN NoLease ELSE lease

Release(s) ==
  /\ run[s].at = "release"
  /\ lease' = IF run[s].held = "redis" THEN LeaseAfterRelease(s) ELSE lease
  /\ Executed(s)
  /\ UNCHANGED <<version, turn, watchdogs, abandoned, events>>

(* The release fails: its handler returns, and the run counts as busy.     *)
ReleaseFails(s) ==
  /\ run[s].at = "release" /\ run[s].held = "redis"
  /\ Event
  /\ Busy(s)
  /\ lease' = IF lease = s THEN Orphan ELSE lease
  /\ UNCHANGED <<version, turn, watchdogs, abandoned>>

-----------------------------------------------------------------------------
(* Timers and faults.                                                      *)

(* The retry, recovery and requeue timers. Equal pending timers are one.   *)
TimerFires(s, attempt) ==
  /\ attempt \in timers[s]
  /\ timers' = [timers EXCEPT ![s] = @ \ {attempt}]
  /\ KickWithRetry(s, attempt)
  /\ UNCHANGED <<version, turn, lease, looking, watchdogs, abandoned, events>>

(* scheduleWatchdog has read the turn: one watchdog per version.           *)
WatchdogSet(s) ==
  /\ s \in looking
  /\ looking' = looking \ {s}
  /\ watchdogs' = IF turn = "BOT" THEN watchdogs \union {s} ELSE watchdogs
  /\ UNCHANGED <<version, turn, lease, run, queued, timers, abandoned, events>>

WatchdogNotSet(s) ==
  /\ s \in looking
  /\ Event
  /\ looking' = looking \ {s}
  /\ UNCHANGED <<version, turn, lease, run, queued, timers, watchdogs, abandoned>>

(* reconcileBotProgress: nothing has moved since the watchdog was set.     *)
WatchdogFires(s) ==
  /\ s \in watchdogs
  /\ watchdogs' = watchdogs \ {s}
  /\ IF turn = "BOT" THEN KickWithRetry(s, 0) ELSE UNCHANGED <<run, queued>>
  /\ UNCHANGED <<version, turn, lease, timers, looking, abandoned, events>>

(* The lease runs out, whether or not its run is still going.              *)
Expire ==
  /\ lease # NoLease
  /\ lease' = NoLease
  /\ UNCHANGED <<version, turn, run, queued, timers, looking, watchdogs, abandoned, events>>

(* The process ends, also by a watchdog whose read throws (nobody handles  *)
(* that rejection), or between a player's command and its kick, and is     *)
(* restarted with nothing in memory.                                       *)
Crash(s) ==
  /\ Event
  /\ run' = [run EXCEPT ![s] = Idle]
  /\ queued' = queued \ {s} /\ looking' = looking \ {s}
  /\ \/ PlayerAdvances
     \/ watchdogs' = watchdogs \ {s} /\ UNCHANGED <<version, turn>>
  /\ timers' = [timers EXCEPT ![s] = {}]
  /\ lease' = IF lease = s THEN Orphan ELSE lease
  /\ Abandon

RunStep(s) ==
  \/ Acquire(s) \/ LeaseBusy(s) \/ Detect(s) \/ Choose(s)
  \/ SubmitApplied(s) \/ SubmitRefused(s) \/ Release(s)

TimerStep(s) ==
  \/ \E attempt \in 0 .. MaxAttempts : TimerFires(s, attempt)
  \/ WatchdogSet(s) \/ WatchdogFires(s)

FaultStep(s) ==
  AcquireInMemory(s) \/ RunThrows(s) \/ ReleaseFails(s) \/ WatchdogNotSet(s) \/ Crash(s)

(* Once the match is over, the next read of every run and of every         *)
(* watchdog ends it; that is not followed here.                            *)
Next ==
  /\ turn # "OVER"
  /\ \/ \E s \in Servers :
          \/ PlayerCommits(s) \/ KickByClient(s)
          \/ RunStep(s) \/ TimerStep(s) \/ FaultStep(s)
     \/ Expire

Spec == Init /\ [][Next]_vars

(* Reads, commands and Redis answer or fail, timers fire, and a lease runs *)
(* out by the clock.  Nobody promises that players or clients do anything. *)
FairSpec ==
  /\ Spec
  /\ \A s \in Servers :
       /\ WF_vars(turn # "OVER" /\ RunStep(s))
       /\ WF_vars(turn # "OVER" /\ TimerStep(s))
  /\ WF_vars(turn # "OVER" /\ Expire)

-----------------------------------------------------------------------------
(* Properties. *)

(* Every variable holds a value of its type.                               *)
TypeOK ==
  /\ version \in 0 .. MaxVersion
  /\ turn \in {"BOT", "HUMAN", "OVER"}
  /\ lease \in Servers \union {NoLease, Orphan}
  /\ run \in [Servers -> Runs]
  /\ queued \in SUBSET Servers /\ looking \in SUBSET Servers
  /\ watchdogs \in SUBSET Servers
  /\ timers \in [Servers -> SUBSET (0 .. MaxAttempts)]
  /\ abandoned \in BOOLEAN
  /\ events \in 0 .. MaxEvents

(* Somebody is going to look at the match: a kick that is queued or on a   *)
(* timer, or a run that has not yet read the turn for the last time.  *)
Promised(s) ==
  \/ s \in queued \/ timers[s] # {}
  \/ run[s].at \in {"acquire", "detect", "choose", "submit"}

(* While it is a bot's turn, some process is going to play it, unless a    *)
(* run gave up (its limit of actions, an exception, the end of its         *)
(* process) and nobody has kicked since.  No order of kicks, retries,      *)
(* expiring leases and stale commands of several servers loses the turn    *)
(* silently.                                                               *)
BotTurnNotForgotten ==
  turn = "BOT" => abandoned \/ \E s \in Servers : Promised(s)

(* A lease disappears by expiry or by the release of its own run: a slow   *)
(* run whose lease has gone to another server does not take it from there. *)
LeaseReleasedByOwner ==
  [][\A s \in Servers : lease = s /\ lease' # s => run' = run \/ run'[s] # run[s]]_vars

(* The turn of a bot is played, or a run gives up.                         *)
BotTurnIsPlayed == (turn = "BOT" /\ ~ abandoned) ~> (turn # "BOT" \/ abandoned)

=============================================================================
