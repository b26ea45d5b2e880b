# Zamanushka: specifications, model checking and proofs

Zamanushka is a board game for two to four players inside Telegram. A
TypeScript monorepo holds a pure game engine, a Fastify + Socket.IO server over
PostgreSQL (Prisma) and Redis, and a Next.js client. The server is
authoritative: a client sends a command with the version it has seen, the
server locks the match row, asks the engine, stores the transition, the event
journal and an outbox row in one transaction, and a dispatcher broadcasts the
row afterwards. Clients animate what was committed and resynchronise when they
missed something.

This directory models the parts of that system that decide whether a match is
played correctly, checks them with TLC on small instances, and proves most of
the properties with TLAPS for every value of the constants.

## 1. Inventory

| Part (source) | State it keeps | Operations | Talks to | What makes it correct |
|---|---|---|---|---|
| Game engine (`packages/game-engine/src`) | none; a pure function on snapshots | roll, enter a pawn, move a pawn, surrender; legal actions; initial state | called by the command path and by the bots' policy | one pawn per cell, no pawn on an inactive corner, pawns never go backwards, the turn reaches everybody and nobody is ever without a legal action, the match ends exactly when won |
| Command processor (`apps/api/src/realtime/command-processor.ts`, `match/match-repository.ts`, `event-journal.ts`) | Match, MatchEvent, ProcessedAction, OutboxRow, MatchResult rows | one transaction per command, ACK afterwards | engine; rooms (terminal hook); outbox (wake) | commands apply one after another and at most once, a retry gets the first answer, the journal has neither gaps nor overlaps, whoever gets an ACCEPTED can rely on it |
| Outbox and dispatcher (`realtime/outbox.ts`, `outbox-dispatcher.ts`, `socketio.ts`) | lease and publication mark of each row; a wake flag per process | claim, publish, mark, release, wake, timer | all server processes through the database | everything committed is broadcast, nothing is marked without having been, repeats come from faults only |
| Realtime gateway (`realtime/socketio.ts`, `playable-beta/realtime-client.ts`) | sockets and their groups; joined matches, requests in flight | connect, join, sync, subscribe, reconnect | clients, command processor, bots | a client that joins and synchronises misses nothing, hears its match again after a lost connection, and waits for ever only for an answer that was lost |
| Client presentation (`apps/web/src/game`, `playable-beta/page.tsx`) | queue of transitions, watermarks, generation | accept, activate, complete, pause, reconcile, sync | gateway, animation director | what is shown is a prefix of what was committed; gaps lead to a recovery |
| Journal, schemas, animation and screen (`realtime/event-journal.ts`, `packages/shared/src`, `game/animation-director.ts`, `game/board.tsx`, `page.tsx`) | journal entries; frames of a transition | journal a command, parse a transition, animate it, offer buttons | engine, presentation | everything committed can be journalled and read by the page, the animation ends where the match is, the screen offers what the engine accepts |
| Results and profile (`apps/api/src/profile`) | MatchResult rows | draft at the end of a match; card, statistics | command processor | the winning command never fails over its result, and the result tells the match |
| Rooms (`apps/api/src/rooms`) | Room, RoomMembership, RoomSeat, Match rows | create, join, take and move seats, bots, ready, start, leave, delete, release at the end of a match; views and lists | command processor through the terminal hook | who sits is a member, a started match keeps its room, only the match of a room releases it, the version betrays every change, the lobby offers what the service accepts |
| Room page (`playable-beta/page.tsx`, `room-api.ts`) | room, match and pending flag shown; scopes of requests | navigate, poll, act on the room, switch rooms, start, attend the match | rooms, gateway | the page shows the room and the match of its address, never stays disabled, gets to the match of its room |
| Bot runner (`apps/api/src/bots`) | per-process set of running kicks, watchdogs, Redis lease | kick, run loop, retry, watchdog | command processor | the turn of a bot is played unless a run gives up; a slow run neither loses the turn nor takes the lease of another |
| Sessions (`apps/api/src/auth`, `apps/web/src/app.tsx`) | Session rows, a cookie jar, the screen of each tab | login, replacement, sign-out, expiry; bootstrap, focus, retry | all routes | a session has one successor, a tab never waits for an answer nobody reads |
| Presence (`rooms/presence-store.ts`) | a flag per user and process | connect, disconnect | start of a match, views | an input of rooms and views |
| Version watchdog (`realtime/watchdog.ts`), events-since sync (`realtime/sync.ts`) | | | not wired into the server | |
| Invites, chat, profile screen, configuration | | | | no influence on a match |

Behaviour that is hard to test, with its place in the code, is listed under
`hazards` in `PROJECT.json`; the properties below were chosen from that list.

## 2. Modules

| Module | Models | Used by |
|---|---|---|
| `Board` | cells, progress, corners, the home diagonal, capture and legality geometry | `MatchEngine` |
| `TurnProtocol` | abstract: who may act, how a turn passes, how a match ends | refined by `MatchEngine`; its turn rotation is shared |
| `MatchEngine` | the engine: one action per command, as a transition of the snapshot | all below about one match |
| `DebugSkip` | the debug match against a dummy: the request that skips its turn, racing the bot runner and the player | extends `MatchEngine` |
| `EventJournal` | the domain events and journal entries of a command, and the schema a page reads them with | extends `MatchEngine` |
| `MatchAnimation` | the frames of a transition and where pawns are drawn in them | extends `EventJournal` |
| `MatchResults` | the result written with the last command, the cards and statistics made of it | extends `EventJournal` |
| `MatchScreen` | the legal actions, and the buttons of the wide and of the compact screen | extends `MatchEngine` |
| `CommandLog` | abstract: one log of requests of a match, each applied at most once, and the answers it gives | refined by `CommandProcessor` |
| `CommandProcessor` | handlers, row lock, checks, transaction, ACK, retries, crashes | |
| `Outbox` | rows, leases, dispatchers, wakes, faults of several servers | |
| `BotRunner` | the runners of several servers, their timers and the lease over one match | |
| `RealtimeGateway` | one page's connection: joining, synchronising, losing and restoring it | |
| `Rooms` | rooms, members, seats, matches and their release | |
| `RoomViews` | refusals of the service, views and lists, answers and their schemas, buttons of the lobbies | extends `Rooms` |
| `RoomPage` | the page of a room while answers come late, fail or cross | |
| `Sessions` | sessions, the cookie jar of a browser and its tabs | |
| `TransitionQueue` | the client's queue of transitions and their watermarks | `PresentationController` |
| `PresentationController` | what the board shows and still has to show; gaps, recovery, animation tokens | `MatchClient` |
| `MatchView` | abstract: what the page of a player promises to show of a match | refined by `MatchClient` |
| `MatchClient` | the page of one player: handlers, React's updates, synchronisation, commands, timers | |
| `MatchEngineProofs`, `CommandProcessorProofs`, `OutboxProofs`, `MatchClientProofs`, `RoomsProofs`, `BotRunnerProofs`, `SessionsProofs`, `RoomPageProofs` | theorems about the module they are named after; those of `MatchEngine` also cover `DebugSkip`, `EventJournal`, `MatchAnimation`, `MatchResults` and `MatchScreen`, those of `MatchClient` also `RealtimeGateway`, those of `Rooms` also `RoomViews` | |
| `MC*` | what TLC needs to run it: compositions, symmetry, views, constants | |

### MatchEngine (with Board)

The variables are the fields of the stored snapshot (`status`, `playerStatus`,
`currentPlayer`, `turnPhase`, `diceValue`, `position`, `winner`, `winReason`,
`turnNumber`, `stateVersion`) and the kinds of the events of the last
transition. A position is a zone and an index, as in the code: off the board,
on the perimeter with the owner's progress, or on the home diagonal. `RollDice`, `EnterPawn`, `MovePawn` and
`Surrender` are the four commands. The size of the board (`Side` cells per
side, 7 in the code), the number of pawns (4) and the highest face of the die
(6, which also grants the entry and the extra roll) are constants; the
arithmetic is that of the code.

### CommandProcessor

A handler is one execution of `process()`. `Issue` is a client that sends a
request (again), `Receive` and `Lock` its way to the match row, one of `Reject`,
`Replay` and `Commit` the decision, `Deliver` the answer; `GiveUp`, `Abort`,
`Lose` (the answer) and `Crash` are what can go wrong between. The transaction of `Commit` writes the journal, the
processed action, the outbox row, the match and, at the end of a match, the
result and the release of the room; its intermediate writes are invisible to
others, so it is one step. The engine is an arbitrary set of accepted commands
carried by the snapshot and redrawn at each commit, not empty while the match
is active (which is `ActionAvailable` of `MatchEngine`).

Choices worth knowing: authentication and unknown matches are not modelled;
`MATCH_NOT_CURRENT` is the business of `Rooms`; a rejected promise of the
socket handler of `game:command` ends the process (a crash), while the bots'
runner catches it (an abort); the unique-violation branch inside the
transaction can only fail, because PostgreSQL has aborted the transaction by
then. A rejected request leaves no record, as in the code, so `CommandLog` lets
it be judged again.

### Outbox

`Commit` adds a row; `Dispatch` starts or wakes the loop of one process, whose
rounds are `Claim` (or `ClaimNothing`), `Publish` and `Mark`, each with its
failure (`ClaimFails`, `PublishFails`, which releases the lease, `ReleaseFails`,
which ends the process, and `MarkFails`, which leaves the lease); `Expire` is
the 30 s lease, `Crash` and `Restart` the process. Lease tokens are `socketio-<pid>`, so two
hosts may share one, and the run includes that case. The envelope of a row
carries the snapshot of the moment it is sent, as the code does.

### Rooms

Every mutation but one locks its room row and writes back in the same
transaction; it is one step, and a refused request is none. `createRoom` reads
the user's previous room without a lock and later rewrites it from what it
read, so it is `CreateRead` and `CreateWrite` (or `CreateAborts`) with anything
in between. Unique indexes and foreign keys of `schema.prisma` are guards
(`SeatsAllowed`). `overwritten` is a history variable: the rooms a
`createRoom` changed behind somebody's back. The initial state may contain one
room left over from an earlier version (a finished match it still points to),
which is what the repair paths exist for. Presence could only refuse a start,
so `Rooms` lets every ready room start.

`RoomViews` says, for every reachable room, user, set of connected users and
either setting of the solo debug mode, what the service would answer to each
request (its checks in their order), what `domain.ts` and the room list tell,
what the schemas of `packages/shared/src/rooms.ts` accept, and which buttons
the lobbies of `page.tsx` show. `LobbyTellsTheTruth` compares them. The
checks of a handler are chained by `??`, which is the first of them that fails,
as the early returns of the code are. A seat is one of the four the schemas
know (`SeatsAssumption`). The
differences the code has are named: `RefusedWide` and `RefusedCompact` list the
buttons whose request the service refuses, `PageUnderstands` the answers the page
cannot read, and the wide lobby's missing buttons are left out of the comparison (section 5).

### MatchClient (with PresentationController and TransitionQueue)

One player's stay on the page of one match. The page keeps its knowledge
several times: `match` as React rendered it, `matchRef` (ahead of it by what
handlers already know), the `watermark` in a ref, and the `controller` of the
board with its queue of transitions to animate. Handlers (`Receive`,
`SyncAnswered`, `SubmitAction`, `AckAccepted`, ...) read refs and queue
updates; `Render` is React running one queued update. No handler comes between
the updates of one batch (`rendering`), but updates themselves start
synchronisations, as in the code. The server is one number, `committed`, and
what `Outbox` and `CommandProcessor` say of it: broadcasts come late, twice, in
any order or never, with a snapshot that may be newer than their transition;
the events of a match are numbered without gaps (`JournalTiled`), so a version
determines its interval of sequence numbers. `game:sync` answers with the
snapshot of some moment after the request, or never.

`hydration` is the buffer of the first synchronisation, `sync` the run in
flight with the one asked for meanwhile, `command` the player's command, of
which a stale surrender is repeated by the page itself (`SurrenderAgain`).
`overwritten` is a history variable: that repetition has replaced `match` but
not `controller`.

`MatchView` is what all this promises, without updates, queues, sequence
numbers or synchronisations: versions are committed; the board learns of the
next one, animates them one by one, and leaves one out only if it stops or
loads an answer of the server in its place. `MatchClient` maps its controller
to it (`View`): the presented version, the snapshot on the board, the authoritative
version, the active transition, and whether it has paused. The snapshot may be
newer than the animation it ends, because a broadcast carries the one of the
moment it is sent.

Choices worth knowing: what was already presented is at or below the
reconciled watermark, so the list of it is left out. A request the controller
makes when it pauses never happens, because its condition needs the watermark of
another match (`page.tsx:837`). `AckTimeout` is a handler whose check runs at once
and is taken only when no update waits. React evaluates updates hook by hook,
here in the order of their queueing; an update of the board reads nothing an
update of the match writes. Left out: other matches and coming back
(`clearMatchPresentation`), the `events` answer, which the server never gives,
the debug skip, and `reconcilePresentation`, which the page never calls.

### EventJournal, MatchAnimation, MatchResults, MatchScreen, DebugSkip

These are what other code makes of the engine. `EventJournal` gives the
payloads of the domain events of a step (`Entries`), whose cells
`event-journal.ts` looks up in the states before and after - it throws where
there is none - and puts them in the order the engine emits them in
(`Payloads`); `Commit` numbers them on, and `FitsTransitionSchema` is what
`realtime.ts` demands of the transition, its schemas being sets of records. `MatchAnimation` computes the frames of the animation director from the
old snapshot and the events: an event pushes frames and leaves a state for the
next one (`Frames`, `Continue`), `Playback` goes through the events, and
`CellsDrawn` are the cells `board.tsx` draws a pawn on in a frame. `MatchResults` drafts the result as `result-draft.ts` does,
with each of its exceptions, and reads it back as a profile does. `MatchScreen`
derives the buttons from the legal actions and compares them with the
transitions (`ENABLED`), which are other code. `DebugSkip` adds to a match of two the requests
that play the turn of the dummy: `Read` and `Play` are separate transactions,
between which the bot runner (`Others`), the human and another request act.

Left out: the number on the die, durations, easing, sounds and toasts, and the
3-D die; `premium-runtime` only plays them.

### RealtimeGateway

`Opened`, `OpenFails`, `Refused`, `Drop` and `Disconnect` are what Socket.IO does; `run` is what
the page's synchronisation awaits. Requests emitted without a connection wait
for the next one, answers expected on a lost connection never come. The server
handles a join or a synchronisation at any later moment on the connection it
came by, and what is published reaches only connections in the group of the
match. It is another view of the page of `MatchClient`, for the same match, and
shares no name with it. Authentication and a missing seat are refusals that may happen.

### BotRunner

One match, several processes. A run is `acquire`, `detect`, `choose`, `submit`
and `release`; every wait of the code is a step boundary. `timers` are pending
`setTimeout`s by the attempt they make, `watchdogs` those that look at one
version again, `looking` the read that sets one. The lease may expire at any
time, and be replaced by the in-process lease when Redis fails. `abandoned`
remembers that a run gave up - the action limit, an exception, the death of its
process - and nobody has kicked since: the code schedules nothing then.

### RoomPage

`page` is the state of the component, `requests` what it has asked and still
listens to; `Serve` is the server's part of a request and `Deliver` the
callback in the page, so anything may come between. Effects of React run in the
step that changes what they depend on. The server is reduced to what a page can
tell of it; its versions grow with every change.

### Sessions

A request is sent, served (for a login with a cookie in two steps, the unlocked
read and the read under the lock), and arrives: its cookie is stored even if
the tab no longer waits, its answer is handled only if it does. `launch` is how
the application was opened. Clocks are `fresh` (init data) and `expired`.

## 3. Runs

Every run is deadlock-checked unless the table says otherwise.

| Run | Bounds | Distinct states | Shows |
|---|---|---|---|
| `engine_two_players` | a player and a dummy, 2 pawns, 2 cells a side, die to 3, 1 skip request of up to 8 commands | 379,051 | occupancy, captures and inactive corners, victory, a skip stays in its turn |
| `engine_and_animation` | 3 players, 2 pawns, 1 cell a side, die to 3 | 19,653 | surrenders in and out of turn, a legal action always and a button for it, `TurnProtocol` implemented, journal and schema, results, animations |
| `command_processor` | 2 handlers, 2 action ids, 2 commands and one of a foreign user, 2 requests in flight, up to 2 events each | 125,435 | `CommandLog` implemented, answers agree with the log, the journal is tiled by what was announced, no handler waits for ever, under races, aborts and crashes |
| `outbox` | 2 servers with equal or different tokens, 2 rows, 2 faults | 92,804 | nothing falsely marked, repeats are faults, every row is published |
| `rooms` | 2 users and bots, 2 rooms, 2 seats, 1 concurrent `createRoom`, 2 matches; every set of connected users | about 119,000 | seats, matches and their rooms, versions; the views and lobbies agree with the service, and the page reads what it says |
| `room_page` | 2 rooms, 1 change or failure, 1 match | 501,203 | room, match and buttons of the page while answers cross; the match is reached |
| `client` | 3 versions of 2 events, 2 waiting updates, 1 pause, 1 retry at the start | 4,004,082 | board and match stay one gapless story; no waiting answer is older than what was rendered; `MatchView` implemented |
| `client_stale_answer` | as `client` with 2 versions | | finding: an answer takes back a broadcast that waited for React when it came |
| `gateway` | 3 transitions, 3 faults | 50,362 | nothing is missed, a match is heard again, runs end |
| `bots` | 2 servers, 2 actions a run, 3 versions, 1 fault or kick by a client | 294,297 | no turn of a bot is lost silently, a slow run does not release the lease of another, bots get to play |
| `sessions` | 2 tabs, 1 user, 2 events | 126,305 | one successor, live answers, no endless spinner |
| `sessions_lockout` | 2 tabs, 1 user, 1 event | | finding: a lost login answer locks a browser out |

Why the bounds are enough to be interesting. On the small boards pawns meet on
every kind of cell (corner, side, home diagonal), die throws can overshoot, and
2 pawns per player allow blocking, capture and victory; the third player is
what rotation and out-of-turn surrenders need. The animation of two players on
2 cells a side with a die to 4 (19,558 states) and the engine alone on 3 cells
a side with a die to 4 (133,390) were searched as well. Two handlers, two identifiers
and two commands allow a retry in flight, a collision of identifiers and a
race on one version at once. Two rows and two faults allow a slow worker, the
worker that takes over and the lease the first one then touches. Two rooms are
enough for a user to move between them; two users and two seats to have a
full room, a visitor and somebody sitting in the way. Two rooms on the page make every late answer
one about another room; one event is a command, a change by others or a
failure, while polls, navigation, switching rooms and synchronising are not counted. A
second match after a finished one is too much beside a failure: two matches without
failures were searched in two rooms (292,977 states) and in one (114,758), and the page
gets from the one to the next, but for `ReturnedTooEarly`. Three
transitions on the gateway are one before the snapshot, one between and one
after; three faults lose a connection, the next one and an answer. Two actions a run and three
versions reach the action limit with a bot still in turn. In `bots` a kick that
finds the lease taken goes straight to the recovery timer (`MaxAttempts = 0`); the retries before it
(`MaxAttempts = 1`) were searched with two versions and one action a run
(516,382 states) or two (637,739). `sessions` was searched with two users as
well (771,497), where a tab signs in as somebody else.
Three versions on the client allow a gap, the transition that fills it and a newer
snapshot in between; two waiting updates, that handlers work on refs React has
not caught up with. Broadcasts are received until a controller has paused once
(`MaxPauses`): each pause adds a generation, and a second one differs from the
first by that number only. Three versions with one waiting update and two
pauses (828,689 states) and two versions with two updates and two pauses
(277,976) were searched as well.

Reductions. The views of the two engine runs drop the events, journal entries
and frames of the last step, the turn number and the version: no guard reads them;
properties about them are action properties, evaluated
on the full step. `RoomView` drops from Rooms how far a version has grown
(versions are only compared with the one `createRoom` read) and the line-up of
finished matches, which nobody reads. Rooms and users are interchangeable,
and no property of that run names one; the page run starts on the first of two
rooms instead, because liveness is checked without symmetry. Deadlock is not checked for the
engine (a finished match accepts no command), for Rooms (all rooms within
the bound may have been closed), for the page of a match (nothing may be left to receive
or to send), for bots (the match is over) and for sessions (every tab shows
an outcome and its user does nothing more).

Faulty variants. Each property of a passing run is paired, in `PROJECT.json`,
with a deliberately faulty form of one definition ("Faulty ..." in the
comments: a dropped guard, a missing reset, a swapped order), under which the
run finds the property violated. They document what the property detects; no
specification uses them.

Fairness. `CommandProcessor`: weak for a decision and for an answer, because
awaits settle and Prisma's interactive transactions time out; strong for taking
the row, because PostgreSQL grants row locks in turn. `Outbox`: the 250 ms timer (Dispatch),
settling awaits (Work), a supervisor that restarts processes, and leases that
expire by the clock; the number of faults is finite. `BotRunner`: awaits of a
run settle, timers fire, leases expire; nothing is assumed of kicks, so what
keeps a match of bots going is the code's own timers. `RealtimeGateway`: a
server is reached in the end and answers the requests that reach it; nothing
makes a page start a run. `Sessions`: what a tab awaits is answered or fails
(`Progress`), and a user who sees the error presses retry, which only
`LoginRecovers` needs. `RoomPage`: requests are answered or fail and their
callbacks run; the polling interval goes on, and - strong fairness - now and
then a poll is answered before the next one aborts it; the page hears the end of its
match. Nothing is assumed of commits, users or faults. `MatchClient` is checked for
safety only: a missed last broadcast is asked for by nobody (section 5). An
engine or a room promises nothing to happen.

## 4. Theorems

All theorems are for every value of the constants within the assumptions their
modules state, and are checked by TLAPS without unproved leaves. The
assumptions say that bounds are numbers and that the values standing for
"none" are none of the things they stand beside. Those that say more are
`BoardAssumption` (a board the engine can be played on: two to four players, no throw
leads once around), `CommandAssumption` (an accepted command has events),
`SkipAssumption` and `HumansAssumption` (a request sends at least one command;
humans are players), `ClientAssumption` (a transition has events) and
`SeatsAssumption` (seats are numbered 0 to 3, the schema's range). The bounds of
the runs are part of the guards, but a theorem holds for each of their values.

A theorem that names a module's invariant proves it as usual: the initial
states have it, every action keeps it (one lemma per action or group of actions,
put together in `StepPreserves`), and the property follows from it alone or, for
an action property, from it and the step.

**MatchEngineProofs.** The inductive invariant is
`TurnInv == TypeOK /\ SnapshotShape`; `UniqueOccupancy`, `RemovedWithOwner`,
`NoPawnOnInactiveCorner` and `FinishedExactlyWhenWon` are carried beside it.
`SnapshotShape` ties phase, dice, current player and the legal actions
together; it is inductive only with the fact that removing the pawns of a
leaver keeps an action of the others legal (`FewerPawnsKeepActions`). Key
lemmas: walking the board step by step agrees with the arithmetic
(`AdvanceIteratesNextPosition`), equal cells are the same corner for everybody
(`SameCellSameCorner`), only a move home wins (`EnterNeverWins`, `ActionWins`,
`CompletionIsLocal`), and `NextActivePlayer` returns somebody still playing
(`NextActiveIsActive`). `EngineImplementsTurnProtocol` is the refinement.

Its other parts are about what other code makes of the engine.
`SkipsOneTurnHolds`: `SkipInv` says that a request which still knows the version
of the match has not seen its turn pass, and holds the command that fits the
snapshot of now; the property alone is not inductive, because it forgets why
the next command is refused. `TransitionParsesHolds`: `JournalInv` adds to
`TurnInv` that the sequence and the turns are numbers; every event of a step
is then shown to be one of the schema's, kind by kind, from the state the
action leaves (a pawn that moved was on the board, so it has a cell; one that
was captured stood on the cell where the path ends), and joining lists of fitting
events fits (`Joint`). `ResultRecordedHolds` reads the result off the last step of a match
(`DraftOfMatch`): nobody who surrendered has won, everybody has one outcome, and each
of the exceptions of `result-draft.ts` has a condition that state excludes.

`AnimationEndsAtSnapshotHolds` and `PawnsStayInSightHolds` are about sequences of
any length: a path has as many cells as the die has faces, a surrender as many
pawns as the player. A `Scene` is the set of states that draw the pawns as a
layout says; a layout that is `Clear` shows good frames only (`SceneInSight`);
and every kind of event takes one scene to the next in good frames
(`EnterEntry`, `MoveEntry`, `CaptureEntry`, `HomeEntry`, `RemoveEntry`,
`WinEntry`, `StillEntry`). `Leads(from, entries, to)` says that there are stages
from the one to the other; stages are put end to end (`LeadsOn`), so the
payloads of a command lead from the old layout to the new one (`MoveLeads` and
its like), whatever it emits. `PlaybackLeads` carries this over to the recursive
`Playback`: no induction is needed, because the shortest stretch that had no solution
would be continued by one entry (`PlaybackExists`), and two solutions cannot
differ for the first time (`PlayedAlike`). The facts about the match it rests on
are `UniqueOccupancy` (a path crosses nobody but the victim, `VictimOfMove`) and
`NoPawnOnInactiveCorner` (a capture and a removal exclude each other).

`OffersTheLegalActionsHolds` follows from `TurnInv` and `ActionAvailable`: a
pawn that may enter is in the tray of the phone, because somebody is then asked
for an action on the highest face; one that may move is on the board; and no pawn
has two actions of which one would hide the other (`LegalPawnsDrawn`).
`CommandsWereOfferedHolds` compares the buttons with the transitions, command by
command. Together they are `ScreenFitsTheTurn` without the question what the
service would accept now, which takes `ENABLED`: that an offered button is never
refused is left to the run.

**CommandProcessorProofs.** `CoreInv` (types, the lock holder and what a
reader has read is still the row), `JournalInv` (the journal is an interval,
tiled by the outbox) and `LogInv` for the refinement of `CommandLog`: what is
processed is recorded in the log, what was answered was told by it. The crux
is that a request rejected once is rejectable for ever
(`RejectionIsFinal`): versions only grow and a finished match stays finished.
That is why the missing record of rejections does not break at-most-once.

**OutboxProofs.** `OutboxInv == TypeOK /\ SnapshotsKeepUp /\ MarkersHaveSent /\
PublishedWasBroadcast`: a process about to mark has itself sent the row, with a
snapshot no older than the row, even where it no longer owns the lease.
`RepeatsAreFaults` bounds the broadcasts beyond the first of each row by the faults
there were; it is not inductive, because it does not see the repetition that is under
way or that a fault has made possible. The invariant is an account (`SendsPaidFor`): the
broadcasts made, those under way and the rows that could be claimed without a
further fault are no more than the rows and the faults. A claim moves a row
from the last to the second, a broadcast from the second to the first; only a
fault exposes a row again.

**BotRunnerProofs.** `BotTurnNotForgotten` counts every run that still has
something to do, also one that is about to submit a stale command; such a run is
refused and ends without a kick. `BotTurnCovered` therefore counts a run at
`submit` only while its command is for the current version: whoever made it stale
has kicked. `LeaseReleasedByOwner` follows with the types; that the lease is
only released by its owner needs `{NoLease, Orphan} \cap Servers = {}`.

**SessionsProofs.** `OneSuccessor` counts one successor for a replaced session
and none for any other, which is inductive, because a replacement looks again under
the lock. `AnswersCarryLiveSessions` needs `TokensUnseen`: a cookie in an
answer under way is in no other request, answer or jar, so nobody can name its
session to end it. That in turn needs that every cookie is of a session there is
(`CookiesKnown`), so that the next one is new.

**RoomPageProofs.** `PageInv` says what is true of the page and of everything
under way to it: the room and the match shown are of the selected room
(`PageSound`); a request that still counts (`live`) was made for that room, its
answer is of the room it asked for, and a match it carries is a match of that
room (`RequestSound`); the server itself reads rooms with matches of their own
(`ServerSound`). A match never changes its room, so new matches leave all of it true
(`Extends`). Which requests survive a change of the room is `Outlives`, and the pending
flag is kept by each of them that it waits for (`PendingHasRequest`).

**RoomsProofs.** `RoomsInv` says that every room is sound (open or in a match,
every member once, every human on at most one seat and a member, ready marks
on taken seats only, an unused row without members), matches are typed, a room points
to a match of its own (`CurrentsOwn`), everybody is in at most one room, a
running match keeps its room, a closed room is empty unless a `createRoom`
overwrote it, and what a `createRoom` has read is a sound room of which its
user was a member. Every action lemma proves `SafeStep`: the invariant afterwards, and
the three action properties. `SavingIsSafe` covers the locked operations,
`OverwritingIsSafe` and `FirstRoomIsSafe` the unlocked one.

`LobbyTellsTheTruthHolds` is about a state: it follows from `RoomsInv`
(`TruthTold`). What the service accepts in an open room is put as one condition
per command (`Accepts`, `AcceptedWhen`), and what each lobby offers as another
(`CompactOffers`, `WideOffers`); `CompactAgrees`, `WideAgrees` and
`EverythingOffered` compare them. That the view gives the very reason the
service would (`StartAgrees`) depends on sound rooms: in one with a human on two
seats, counting the seats and counting the players differ. It holds in every
reachable state, also while a `createRoom` is under way, which the run excepts.

**MatchClientProofs.** The inductive invariant is `ClientInv`: types, a sound
controller on the board (`Sound`), sound controllers in the answers React has
not run yet (`GoodUpdates`), and `BoardFollowsMatch`, which holds only together
with the former. `Sound` says that what waits is numbered through up to the
authoritative version (`Chained`) and, until a pause, starts directly after
what was presented (`InOrder`). The arithmetic is in `SequenceOrder` and
`FromOrder`: comparing the sequence numbers of transitions is comparing their
versions. `AcceptSound` shows that only the very next transition joins the
queue, `ReplaySound` that the controller built from a buffer is sound
(`LastReplayedExists` finds the end of its contiguous part), `FollowSound` that
match and board decide alike. Handlers keep the invariant by `HandlerStep`,
updates by `RenderKeeps`. `AnswersKeepWhatIsShown` needs `AnswersInv` besides. The
watermark an answer is compared with may lie behind the match: a waiting
transition that runs after an answer was taken sets it back. So the invariant
follows a run from its request: what the page has rendered by then, the answer has
too (`WithinCommitted`), and what React renders while the run waits is in the
watermark, unless a repeated surrender waits as well (`NothingOlderAsked`); hence an
answer is not older than the match rendered when it comes, whatever waits before
it. What waits before it may still be newer than it: React then runs the one and
the other, and the match is back where it was. That is the finding of
`client_stale_answer` (section 5), and the reason why the property is about what was
rendered. For the connection, `GatewayInv` says why the order of
the requests is safe: an answered join has put this connection into the group
of the match, only then is a synchronisation asked for, and from its answer on
all that is published is in the snapshot, was heard or is on its way
(`Reaches`).

`ClientImplementsMatchView` is the refinement. `Sound` is about the page alone;
the refinement also has to know that what the page holds has happened. `ViewInv`
says so of every place a transition or an answer can wait: the buffer, the updates
React has not run yet, and the queue of the controller hold only transitions that
were committed, with a snapshot taken no earlier and no later than now (`Happened`), and the
controller of an answer starts where the answer stands (`Fresh`). Handlers leave the board
alone (`HandlersView`), and every update maps to one step of `MatchView` or to
none (`RenderViews`): a transition that joins the queue to `Learn`, a gap to
`Stop`, the end of an animation to `Finish`, an answer to `Load`. That an ending animation is
followed by the next version, and not by a later one, is `InOrder` and `Chained` again
(`CompleteGenuine`). `ShowsWhatHappenedHolds` is then proved of `MatchView` and
inherited: the page never shows what has not happened nor less than it animated.

These modules also prove properties no run lists any more, because a theorem
says more than a small instance: `SnapshotShape`, `RemovedWithOwner`,
`NoPawnOnInactiveCorner`, `NeverBackwards`, `NobodySkipped`, `HandsOverOnce` of the engine,
`QueueContiguous` and `AnimatesInOrder` of the client, `ShowsWhatHappened` of its view,
`OffersTheLegalActions` and `CommandsWereOffered` of the screen, `ReadyMeansSeated`
and `ClosedForGood` of rooms, and the types.

Proving found what TLC passes over: three `CASE`s with overlapping guards
(`WithRoom`, `Rejection`, `FirstAction`), of which TLC takes the first and TLA+
any; they are disjoint now, in the order of the code's returns. Proving the
animation showed that the state after a capture is not the frame that was pushed
last: the cue is taken from the frame only (section 5).

Model-checked only:
`HandlersSettle`, `EveryRowPublished`, `BotTurnIsPlayed`, `SpinnerEnds`, `MatchReached`,
`HearsAgain` and `RunEnds` are liveness under fairness, and `ScreenFitsTheTurn` speaks of
`ENABLED`; both are beyond the prover. What of the latter needs no `ENABLED` is proved
above. Every other safety property of the runs is a theorem.

## 5. Findings

Two runs show a disagreement between the code and what it promises; the
quotations are in `PROJECT.json`.

1. `sessions_lockout`: when the answer of a login that replaced the session is
   lost, the browser keeps the old cookie, and every further login ends in 409
   (`auth-repository.ts:118`).
2. `client_stale_answer`: the answer to a synchronisation is compared with a
   watermark that broadcasts advance only when React runs them
   (`page.tsx:780`, `page.tsx:928`). An answer read before a commit and handled while
   the broadcast of that commit waits takes the match and the board back one
   version, until the next broadcast shows a gap or a timer asks. The test at
   `app-playable.test.tsx:1190` promises otherwise, but lets the broadcast be
   applied first.

Seen while modelling, and visible in the definitions, but not made runs:

- *Engine*: `turnNumber` (`pawn.ts:334`) counts a winning move that hands the turn to
  nobody, against `docs/MATCH_STATE_MACHINE.md:54`. `runtime-adapter.ts:19`
  reads `action.capture` where the engine sets `capturePreview`, so bots never see a
  capture.
- *Commands*: rejections are not recorded (`command-processor.ts:265`), against
  `docs/DATABASE.md:27`, so a retry is judged anew. The recovery from a unique
  violation (`command-processor.ts:381`) runs in a transaction PostgreSQL has
  already aborted. A debug skip that fails after some of its commands wakes
  neither the outbox nor the bot runner (`socketio.ts:425`).
- *Outbox*: the oldest row is always claimed first and attempts are never read
  (`outbox.ts:21`), against `docs/DATABASE.md:50`: a row that can never be
  published starves all others. If the Redis adapter fails at the start,
  broadcasts silently stay on one server (`socketio.ts:164`).
- *Client*: a missed last broadcast is asked for only during an opponent's
  roll or after an ACK (`page.tsx:1091`), against `docs/REALTIME_PROTOCOL.md:131`;
  the reconnect handler only joins again (`realtime-client.ts:123`), against "Reconnect" there.
  A synchronisation whose answer is lost with its connection, or never given because
  the match cannot be loaded (`socketio.ts:509`), keeps the page waiting (`Abandoned`,
  which `RunEnds` excepts). The animation shows a pawn sent home from an inactive
  corner at its start cell again for a moment, and a removed one not at all in the last frame.
  The highlight of a capture is taken from one frame only and is back in the
  next one until the animation ends (`animation-director.ts:451`).
- *Rooms*: `createRoom` can take the running match from the room of a member
  who only watches (`room-repository.ts:118`, against
  `docs/epics/EPIC-04-ROOMS.md:57`), or close a room somebody has just joined.
  `MatchKeepsItsRoom` excepts rooms overwritten so.
- *Room commands*: the service adds `presence` to the room in the answer to
  every command it has carried out, and the strict schema of the page refuses it
  (`routes.ts:261`, `packages/shared/src/rooms.ts:94`). The page reports a
  failure for what was done; a room created from the list is never entered.
  The tests of the commands answer with a service that adds no `presence`
  (`routes.test.ts:97`), those of the reads demand that there is none
  (`routes.test.ts:515`). `PageUnderstands` says exactly which answers are read, and
  `LobbyTellsTheTruth` contains it.
- *Lobby*: the wide lobby shows the seat of a bot as free (`page.tsx:2854`) and
  has no buttons for bots and invites; the compact one offers a visitor
  to leave; both offer a full room for joining; a debug player who is ready but not
  connected is told `ROOM_NOT_READY` by the view and
  `SEATED_PARTICIPANT_DISCONNECTED` by the service.
- *Room page*: "return to the room" pressed on a finished board when the room
  already has its next match leaves the page waiting (`page.tsx:1690`,
  `ReturnedTooEarly`); a failed start of the match view is not retried.
  Chat has no scope: a message sent in one room may appear in the next
  (`page.tsx:2233`).
- *Sessions*: signing in as another user in the same tab keeps the old socket;
  finishing the onboarding ignores the epoch (`app.tsx:516`).

## 6. Not modelled, and the plan

In order of what they would add:

1. The rest of the room page: creating a room from the list and joining it,
   the chat polls, invite links; and of the profile screen: paging through the
   history and its own epochs.
2. Rooms composed with the command path, so that the release of a room is the
   one of the transaction that ends its match (`Rooms` takes any match to end).
3. The frames of an animation under a snapshot newer than its transition
   (`MatchAnimation` starts every animation from the board the previous one left, while
   the envelope of an old row carries the snapshot of now; `MatchClient` has that
   case, without frames), and the debug skip of the page, which puts the match back
   when it fails without asking which room it was of (`page.tsx:2275`).

Left out for good: Telegram's HMAC check and JSON parsing (one message, no
state; that stale init data are refused is in `Sessions`), the watchdog and
`sync.ts` (not started by the server), how presence flags come about (all of
them are considered), durations, easing, sounds, layout and styles, the text of
the rules, configuration and health.
