------------------------------- MODULE RoomPage ------------------------------
(***************************************************************************)
(* The page of a room in one browser (PlayableBetaPage of                  *)
(* apps/web/src/playable-beta/page.tsx over room-api.ts): which room and    *)
(* which match it shows while answers come late, fail, or come after the   *)
(* user has gone to another room.                                           *)
(*                                                                         *)
(* The server is what the page can tell of it: the Rooms module has the    *)
(* rest.  What a match shows is MatchClient's; here a match goes on or is  *)
(* over.  Assigning a React state runs, in the same step, the effects that *)
(* depend on it.                                                           *)
(***************************************************************************)
EXTENDS Naturals, FiniteSets, Sequences

CONSTANTS
  Rooms,
  MaxEvents,   \* bound on changes of rooms, by the user and by others, and on failures
  MaxMatches   \* bound on matches started

NoRoom  == "no room"
NoMatch == 0

ASSUME RoomPageAssumption ==
  NoRoom \notin Rooms /\ MaxEvents \in Nat /\ MaxMatches \in Nat

VARIABLES
  server,     \* room -> what GET /api/rooms/:roomId reads
  home,       \* the room the user is a member of
  where,      \* the matches ever started -> their room
  over,       \* the matches that are FINISHED
  page,       \* the state of the page
  requests,   \* what the page has asked and still waits for
  events

vars == <<server, home, where, over, page, requests, events>>

-----------------------------------------------------------------------------
(* The page.                                                               *)

NoView == [id |-> NoRoom, version |-> 0, match |-> NoMatch, member |-> FALSE]

Idle     == [status |-> "idle", match |-> NoMatch, over |-> FALSE]
Loading  == [status |-> "loading", match |-> NoMatch, over |-> FALSE]
Failed   == [status |-> "error", match |-> NoMatch, over |-> FALSE]
Ready(m, o) == [status |-> "ready", match |-> m, over |-> o]

(* selectedRoomId, room, roomPending, activeMatchRef, match.                *)
EmptyPage(r) ==
  [selected |-> r, room |-> NoView, pending |-> r # NoRoom,
   active |-> NoMatch, view |-> Idle]

Reads     == {"reconnect", "poll", "refresh", "reload", "lateReload", "switchGet"}
Changes   == {"mutate", "join", "leave", "delete", "start", "switchLeave", "switchJoin"}
Syncs     == {"sync", "startSync"}
Ops       == Reads \cup Changes \cup Syncs \cup {"deleteList"}

(* Their callbacks do not ask which room the page is on.                    *)
Unscoped  == {"deleteList", "switchGet", "switchLeave", "switchJoin"}

(* A request stands for its chain of callbacks.  live: the room (for sync:  *)
(* the match) it was made for is still the one on the page.                 *)
Request(op, r, m) ==
  [op |-> op, room |-> r, match |-> m, from |-> NoRoom,
   version |-> IF op \in Changes THEN page.room.version ELSE 0,
   live |-> TRUE, stage |-> "sent", ok |-> FALSE, answer |-> NoView, found |-> FALSE]

Finished(view) == view.status = "ready" /\ view.over

(* setRoom(v), and the effects on room?.currentMatchId: without a match     *)
(* what is shown is dropped, unless it is a finished board; another match   *)
(* is synchronised, unless the page is at it already.                       *)
Attends(p, v) == v.match # p.room.match /\ v.match # NoMatch /\ p.active # v.match

WithRoom(p, v) ==
  LET q == [p EXCEPT !.room = v] IN
  CASE p.room.match # NoMatch /\ v.match = NoMatch ->
         [q EXCEPT !.active = NoMatch, !.view = IF Finished(@) THEN @ ELSE Idle]
    [] Attends(p, v) ->
         [q EXCEPT !.active = v.match, !.pending = @ \/ Finished(p.view),
                   !.view = IF @.status = "ready" THEN @ ELSE Loading]
    [] OTHER -> q

(* What those effects ask for, and abort.  A finished board that begins to  *)
(* synchronise another match is a new state of a finished board: its room   *)
(* is read again.                                                          *)
When(condition, set) == IF condition THEN set ELSE {}

Asked(p, v) ==
  When(Attends(p, v), {Request("sync", p.selected, v.match)})
  \cup When(Attends(p, v) /\ Finished(p.view), {Request("refresh", p.selected, NoMatch)})

Aborted(p, v) == {q \in requests : q.op = "poll" /\ v.match # p.room.match}

Put(r, more, p) == page' = p /\ requests' = (requests \ {r}) \cup more

(* The callback of r assigns the room v, and roomPending.                   *)
SetRoom(r, v, more, pending) ==
  /\ page' = [WithRoom(page, v) EXCEPT
                !.pending = pending \/ (Attends(page, v) /\ Finished(page.view))]
  /\ requests' = (requests \ ({r} \cup Aborted(page, v))) \cup Asked(page, v) \cup more

(* navigateTo: the scope ends.  What is still to happen on the server        *)
(* happens; of the callbacks only those that do not ask do anything.        *)
Kept ==
  {[q EXCEPT !.live = FALSE] : q \in {q \in requests :
     q.op \in Unscoped \cup {"mutate", "join"} \/ (q.op \in Changes /\ q.stage = "sent")}}

(* Faulty Leaving: the match shown stays when the page goes to another room. *)
LeavingTheMatch(r) == [EmptyPage(r) EXCEPT !.view = page.view, !.active = page.active]

Leaving(r) == EmptyPage(r)

(* What a new scope asks for: the room, and the room of the finished board   *)
(* that is just being taken away.                                          *)
Entering(r) ==
  When(r # NoRoom, {Request("reconnect", r, NoMatch)})
  \cup When(r # NoRoom /\ Finished(page.view), {Request("refresh", r, NoMatch)})

(* The page goes to r in the callback of q; going where it is does nothing  *)
(* but what the callback does at its end.                                   *)
Navigate(q, r) ==
  IF r = page.selected
  THEN Put(q, {}, [page EXCEPT !.pending = FALSE])
  ELSE page' = Leaving(r) /\ requests' = (Kept \ {[q EXCEPT !.live = FALSE]}) \cup Entering(r)

Init ==
  /\ server = [r \in Rooms |-> [version |-> 0, match |-> NoMatch, closed |-> FALSE]]
  /\ home \in Rooms \cup {NoRoom} /\ where = << >> /\ over = {}
  /\ page = EmptyPage(NoRoom) /\ requests = {}
  /\ events = 0

-----------------------------------------------------------------------------
(* The server.                                                             *)

ViewIn(s, h, r) == [id |-> r, version |-> s[r].version, match |-> s[r].match, member |-> h = r]
View(r) == ViewIn(server, home, r)

Waiting(r) == ~server[r].closed /\ server[r].match = NoMatch

(* The answer to q: good or not.  Nobody waits for the answer to a change   *)
(* of a room the page has left.                                            *)
Answer(q, ok, view, found) ==
  requests' = (requests \ {q}) \cup
    When(q.live \/ q.op \in Unscoped \cup {"mutate", "join"},
         {[q EXCEPT !.stage = "answered", !.ok = ok, !.answer = view, !.found = found]})

Refuse(q) == Answer(q, FALSE, NoView, FALSE) /\ UNCHANGED <<server, home, where>>

ServeRead(q) ==
  /\ q.op \in Reads
  /\ LET r == IF q.op = "switchGet" THEN q.from ELSE q.room IN
     IF server[r].closed
     THEN Refuse(q)
     ELSE Answer(q, TRUE, View(r), FALSE) /\ UNCHANGED <<server, home, where>>

Bumped(r) == [server EXCEPT ![r].version = @ + 1]

(* The commands of the room service: of a member, on a waiting room, at the *)
(* version the page has.                                                   *)
Commanded(q, r) == home = r /\ Waiting(r) /\ server[r].version = q.version

ServeMutate(q) ==
  /\ q.op = "mutate" /\ Commanded(q, q.room)
  /\ server' = Bumped(q.room) /\ UNCHANGED <<home, where>>
  /\ Answer(q, TRUE, ViewIn(server', home, q.room), FALSE)

LeftRoom(q) == IF q.op = "leave" THEN q.room ELSE q.from

ServeLeave(q) ==
  /\ q.op \in {"leave", "switchLeave"} /\ Commanded(q, LeftRoom(q))
  /\ server' = Bumped(LeftRoom(q)) /\ home' = NoRoom /\ UNCHANGED where
  /\ Answer(q, TRUE, ViewIn(server', home', LeftRoom(q)), FALSE)

ServeDelete(q) ==
  /\ q.op = "delete" /\ Commanded(q, q.room)
  /\ server' = [Bumped(q.room) EXCEPT ![q.room].closed = TRUE]
  /\ home' = NoRoom /\ UNCHANGED where
  /\ Answer(q, TRUE, NoView, FALSE)

ServeStart(q) ==
  /\ q.op = "start" /\ Commanded(q, q.room)
  /\ where' = Append(where, q.room)
  /\ server' = [Bumped(q.room) EXCEPT ![q.room].match = Len(where')]
  /\ UNCHANGED home
  /\ Answer(q, TRUE, ViewIn(server', home, q.room), FALSE)

Joinable(r) == ~server[r].closed /\ (home = r \/ (home = NoRoom /\ Waiting(r)))

ServeJoin(q) ==
  /\ q.op \in {"join", "switchJoin"} /\ Joinable(q.room)
  /\ server' = IF home = q.room THEN server ELSE Bumped(q.room)
  /\ home' = q.room /\ UNCHANGED where
  /\ Answer(q, TRUE, ViewIn(server', home', q.room), FALSE)

RefuseChange(q) ==
  /\ q.op \in Changes
  /\ CASE q.op \in {"join", "switchJoin"} -> ~Joinable(q.room)
       [] q.op = "switchLeave"            -> ~Commanded(q, q.from)
       [] OTHER                           -> ~Commanded(q, q.room)
  /\ Refuse(q)

ServeChange(q) ==
  \/ ServeMutate(q) \/ ServeLeave(q) \/ ServeDelete(q) \/ ServeStart(q) \/ ServeJoin(q)
  \/ RefuseChange(q)

(* game:join and game:sync: for the participants, the members of the room.  *)
ServeSync(q) ==
  /\ q.op \in Syncs /\ UNCHANGED <<server, home, where>>
  /\ Answer(q, home = where[q.match], NoView, q.match \in over)

ServeList(q) ==
  q.op = "deleteList" /\ Answer(q, TRUE, NoView, FALSE)
  /\ UNCHANGED <<server, home, where>>

Serve(q) ==
  /\ q.stage = "sent"
  /\ ServeRead(q) \/ ServeChange(q) \/ ServeSync(q) \/ ServeList(q)
  /\ UNCHANGED <<over, page, events>>

(* The answer is lost, or is an error, done or not.                         *)
Fail(q) ==
  /\ (q.live /\ q.stage = "sent") \/ (q.stage = "answered" /\ q.ok /\ q.op \notin Changes)
  /\ events < MaxEvents /\ events' = events + 1
  /\ requests' = (requests \ {q}) \cup {[q EXCEPT !.stage = "answered", !.ok = FALSE]}
  /\ UNCHANGED <<server, home, where, over, page>>

(* What the server has done, the page may take for a failure: it does not    *)
(* understand the answer (RoomViews' PageUnderstands).                      *)
Misread(q) ==
  /\ q.stage = "answered" /\ q.ok /\ q.op \in Changes
  /\ requests' = (requests \ {q}) \cup {[q EXCEPT !.ok = FALSE]}
  /\ UNCHANGED <<server, home, where, over, page, events>>

(* Other members take and leave seats, start a match, finish it.            *)
OthersChange(r) ==
  /\ Waiting(r) /\ events < MaxEvents /\ events' = events + 1
  /\ server' = Bumped(r)
  /\ UNCHANGED <<home, where, over, page, requests>>

OthersStart(r) ==
  /\ Waiting(r) /\ Len(where) < MaxMatches
  /\ where' = Append(where, r)
  /\ server' = [Bumped(r) EXCEPT ![r].match = Len(where')]
  /\ UNCHANGED <<home, over, page, requests, events>>

MatchEnds(r) ==
  /\ server[r].match # NoMatch
  /\ over' = over \cup {server[r].match}
  /\ server' = [Bumped(r) EXCEPT ![r].match = NoMatch]
  /\ UNCHANGED <<home, where, page, requests, events>>

-----------------------------------------------------------------------------
(* The answers.                                                            *)

(* Faulty InScope: the answer is taken for whatever room the page is on.    *)
AnyScope(q) == TRUE

(* Only for the room the page is still on (isCurrentRoomScope).             *)
InScope(q) == q.live

AfterReconnect(q) ==
  /\ q.op \in {"reconnect", "refresh"}
  /\ SetRoom(q, IF q.ok THEN q.answer ELSE NoView, {}, FALSE)

AfterPoll(q) ==
  /\ q.op \in {"poll", "lateReload"}
  /\ IF q.ok THEN SetRoom(q, q.answer, {}, page.pending) ELSE Put(q, {}, page)

(* Faulty AfterMutate: a command that fails leaves the buttons disabled.      *)
AfterMutateStuck(q) ==
  /\ q.op \in {"mutate", "join"}
  /\ \/ /\ q.ok /\ InScope(q)
        /\ SetRoom(q, q.answer, {Request("reload", q.room, NoMatch)}, page.pending)
     \/ ~(q.ok /\ InScope(q)) /\ Put(q, {}, page)

(* mutateRoom: the room of the answer, and then the room as it is read       *)
(* again; if the user came back in between, that read is of the new visit.  *)
AfterMutate(q) ==
  /\ q.op \in {"mutate", "join"}
  /\ \/ /\ q.ok /\ InScope(q)
        /\ SetRoom(q, q.answer, {Request("reload", q.room, NoMatch)}, page.pending)
     \/ /\ q.ok /\ ~InScope(q)
        /\ Put(q, When(page.selected = q.room, {Request("lateReload", q.room, NoMatch)}), page)
     \/ /\ ~q.ok
        /\ Put(q, {}, IF InScope(q) THEN [page EXCEPT !.pending = FALSE] ELSE page)

AfterReload(q) ==
  /\ q.op = "reload"
  /\ IF q.ok THEN SetRoom(q, q.answer, {}, FALSE)
             ELSE Put(q, {}, [page EXCEPT !.pending = FALSE])

AfterLeave(q) ==
  /\ q.op = "leave"
  /\ IF q.ok THEN Navigate(q, NoRoom) ELSE Put(q, {}, [page EXCEPT !.pending = FALSE])

(* deleteCurrentRoom reads the list, and then goes there from wherever the   *)
(* page is by now.                                                         *)
AfterDelete(q) ==
  /\ q.op = "delete"
  /\ IF q.ok THEN SetRoom(q, NoView, {Request("deleteList", q.room, NoMatch)}, page.pending)
             ELSE Put(q, {}, [page EXCEPT !.pending = FALSE])

AfterDeleteList(q) == q.op = "deleteList" /\ Navigate(q, NoRoom)

(* startMatch attends to the match itself, and is pending until it shows.    *)
AfterStart(q) ==
  /\ q.op = "start"
  /\ IF ~q.ok THEN Put(q, {}, [page EXCEPT !.pending = FALSE])
     ELSE LET m == q.answer.match
              p == [page EXCEPT !.active = m] IN
          /\ page' = [WithRoom(p, q.answer) EXCEPT !.view = IF @.status = "ready" THEN @ ELSE Loading]
          /\ requests' = (requests \ ({q} \cup Aborted(p, q.answer))) \cup Asked(p, q.answer)
                         \cup {Request("startSync", q.room, m)}
                         \cup When(Finished(page.view), {Request("refresh", q.room, NoMatch)})

(* A finished match sends for the room again.                               *)
AfterSync(q) ==
  LET mine == page.active = q.match
      done == mine /\ q.ok /\ q.found IN
  /\ q.op \in Syncs
  /\ Put(q, When(done, {Request("refresh", page.selected, NoMatch)}),
         [page EXCEPT !.pending = IF done THEN TRUE ELSE IF q.op = "startSync" THEN FALSE ELSE @,
                      !.view = IF ~mine THEN @ ELSE IF q.ok THEN Ready(q.match, q.found) ELSE Failed])

(* switchFromCurrentMembershipTo: read the old room, leave it, join the one  *)
(* on the page, go to it.                                                  *)
Proceed(q, op) ==
  Put(q, {[q EXCEPT !.op = op, !.stage = "sent", !.ok = FALSE, !.answer = NoView,
                    !.version = IF op = "switchLeave" THEN q.answer.version ELSE @]}, page)

AfterSwitchGet(q) ==
  /\ q.op = "switchGet"
  /\ IF q.ok /\ q.answer.member /\ q.answer.match = NoMatch
     THEN Proceed(q, "switchLeave") ELSE Put(q, {}, [page EXCEPT !.pending = FALSE])

AfterSwitchLeave(q) ==
  /\ q.op = "switchLeave"
  /\ IF q.ok THEN Proceed(q, "switchJoin") ELSE Put(q, {}, [page EXCEPT !.pending = FALSE])

AfterSwitchJoin(q) ==
  /\ q.op = "switchJoin"
  /\ IF q.ok THEN Navigate(q, q.room) ELSE Put(q, {}, [page EXCEPT !.pending = FALSE])

Deliver(q) ==
  /\ q.stage = "answered"
  /\ \/ AfterReconnect(q) \/ AfterPoll(q) \/ AfterMutate(q) \/ AfterReload(q) \/ AfterLeave(q)
     \/ AfterDelete(q) \/ AfterDeleteList(q) \/ AfterStart(q) \/ AfterSync(q)
     \/ AfterSwitchGet(q) \/ AfterSwitchLeave(q) \/ AfterSwitchJoin(q)
  /\ UNCHANGED <<server, home, where, over, events>>

-----------------------------------------------------------------------------
(* The page by itself and its user.                                        *)

Keeps == UNCHANGED <<server, home, where, over>>

(* Faulty Poll: only a room that has been read once is read again.           *)
PollLoaded ==
  /\ page.room # NoView /\ page.room.match = NoMatch
  /\ requests' = {q \in requests : q.op # "poll"} \cup {Request("poll", page.selected, NoMatch)}
  /\ UNCHANGED <<page, events>> /\ Keeps

(* Every two seconds, while there is no match; an unanswered poll is        *)
(* aborted.                                                                *)
Poll ==
  /\ page.selected # NoRoom /\ page.room.match = NoMatch
  /\ requests' = {q \in requests : q.op # "poll"} \cup {Request("poll", page.selected, NoMatch)}
  /\ UNCHANGED <<page, events>> /\ Keeps

(* The committed transition that ends the match shown arrives.              *)
MatchEvent ==
  /\ page.view.status = "ready" /\ ~page.view.over
  /\ page.view.match \in over /\ page.active = page.view.match
  /\ page' = [page EXCEPT !.view.over = TRUE, !.pending = TRUE]
  /\ requests' = requests \cup {Request("refresh", page.selected, NoMatch)}
  /\ UNCHANGED events /\ Keeps

Go(r) ==
  /\ r # page.selected /\ page' = Leaving(r) /\ requests' = Kept \cup Entering(r)
  /\ UNCHANGED events /\ Keeps

Ask(q) ==
  /\ page' = [page EXCEPT !.pending = TRUE] /\ requests' = requests \cup {q}
  /\ Keeps

Free    == page.room # NoView /\ ~page.pending
Lobby   == page.room # NoView /\ page.room.match = NoMatch /\ page.view.status # "ready"
InLobby == Lobby /\ ~page.pending

Spend == events < MaxEvents /\ events' = events + 1

(* The buttons of a seat ask although a command is pending.                  *)
Mutate == Lobby /\ page.room.member /\ Spend /\ Ask(Request("mutate", page.selected, NoMatch))
Join   == InLobby /\ ~page.room.member /\ Spend /\ Ask(Request("join", page.selected, NoMatch))
Leave  == Free /\ page.room.member /\ Spend /\ Ask(Request("leave", page.selected, NoMatch))
Delete == InLobby /\ page.room.member /\ Spend /\ Ask(Request("delete", page.selected, NoMatch))
Start  == InLobby /\ page.room.member /\ Len(where) < MaxMatches /\ UNCHANGED events
          /\ Ask(Request("start", page.selected, NoMatch))
Switch == InLobby /\ ~page.room.member /\ Spend
          /\ \E r \in Rooms \ {page.selected} :
               Ask([Request("switchGet", page.selected, NoMatch) EXCEPT !.from = r])

RefreshRoom ==
  /\ page.selected # NoRoom /\ ~page.pending /\ page.view.status # "ready" /\ Spend
  /\ Ask(Request("refresh", page.selected, NoMatch))

(* returnToRoom: the match shown is dropped, with its synchronisations.     *)
ReturnToRoom ==
  /\ page.room # NoView /\ Finished(page.view)
  /\ page' = [page EXCEPT !.active = NoMatch, !.view = Idle, !.pending = TRUE]
  /\ requests' = {q \in requests : q.op \notin Syncs}
                 \cup {Request("refresh", page.selected, NoMatch)}
  /\ UNCHANGED events /\ Keeps

UserStep ==
  \/ \E r \in Rooms \cup {NoRoom} : Go(r)
  \/ Mutate \/ Join \/ Leave \/ Delete \/ Start \/ Switch
  \/ RefreshRoom \/ ReturnToRoom

Next ==
  \/ \E q \in requests : Serve(q) \/ Fail(q) \/ Misread(q) \/ Deliver(q)
  \/ \E r \in Rooms : OthersChange(r) \/ OthersStart(r) \/ MatchEnds(r)
  \/ Poll \/ MatchEvent \/ UserStep

Spec == Init /\ [][Next]_vars

Polls == {q \in requests : q.op = "poll"}

(* Requests are answered or fail, and their callbacks run; the interval goes  *)
(* on, and now and then a poll is answered before the next one.             *)
Fairness ==
  /\ WF_vars(\E q \in requests \ Polls : Serve(q) \/ Deliver(q))
  /\ WF_vars(Poll) /\ SF_vars(\E q \in Polls : Serve(q)) /\ SF_vars(\E q \in Polls : Deliver(q))
  /\ WF_vars(MatchEvent)

FairSpec == Spec /\ Fairness

-----------------------------------------------------------------------------
(* Properties.                                                             *)

Views == [id : Rooms \cup {NoRoom}, version : Nat, match : Nat, member : BOOLEAN]

TypeOK ==
  /\ server \in [Rooms -> [version : Nat, match : Nat, closed : BOOLEAN]]
  /\ home \in Rooms \cup {NoRoom} /\ where \in Seq(Rooms)
  /\ over \subseteq DOMAIN where
  /\ page \in [selected : Rooms \cup {NoRoom}, room : Views, pending : BOOLEAN, active : Nat,
               view : [status : {"idle", "loading", "ready", "error"}, match : Nat, over : BOOLEAN]]
  /\ requests \subseteq [op : Ops, room : Rooms \cup {NoRoom}, match : Nat,
                         from : Rooms \cup {NoRoom}, version : Nat, live : BOOLEAN,
                         stage : {"sent", "answered"}, ok : BOOLEAN, answer : Views,
                         found : BOOLEAN]

(* The room on the page is the room of its address, whichever answers come   *)
(* late (isCurrentRoomScope; the epic's "Room A to B stale response          *)
(* protection").                                                           *)
RoomIsSelected == page.room # NoView => page.room.id = page.selected

(* The match on the page is one of the room on the page, however rooms and   *)
(* matches change while it is synchronised (matchScopeRef, activeMatchRef).  *)
MatchShownOfRoom ==
  page.view.status = "ready" => where[page.view.match] = page.selected

(* While the buttons are disabled there is a request whose end enables them: *)
(* no order of answers, failures and navigations leaves the page dead.      *)
Enables(q) ==
  \/ q.op \in {"switchGet", "switchLeave", "switchJoin"}
  \/ q.live /\ q.op \in {"reconnect", "refresh", "reload", "mutate", "join", "leave",
                           "delete", "deleteList", "start", "startSync"}

PendingHasRequest == page.pending => \E q \in requests : Enables(q)

(* "Return to the room" pressed on the finished board when the room already  *)
(* has its next match: the effect does not attend to that match again.      *)
ReturnedTooEarly == page.room.match # NoMatch /\ page.active = NoMatch /\ page.view = Idle

(* The page is on the room of its user, where the match m goes on.          *)
InMatch(m) == home # NoRoom /\ page.selected = home /\ server[home].match = m

(* A participant on the page of the room gets to see the match that goes on  *)
(* there, whatever failed before it started: by the answer to a start, by a  *)
(* poll, or by the refresh after a finished match.                          *)
MatchReached ==
  \A m \in 1..MaxMatches :
    InMatch(m) ~> \/ ~InMatch(m) \/ page.view = Ready(m, FALSE) \/ page.view = Failed
                 \/ ReturnedTooEarly
=============================================================================
