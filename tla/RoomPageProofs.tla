--------------------------- MODULE RoomPageProofs ----------------------------
(***************************************************************************)
(* What RoomPage promises about every number of rooms, matches, failures   *)
(* and requests under way: the room and the match on the page are those of *)
(* its address, and disabled buttons are enabled by a request that waits.  *)
(* That a match is reached is liveness, and checked by TLC only.           *)
(***************************************************************************)
EXTENDS RoomPage, SequenceTheorems, TLAPS

Outlooks == [status : {"idle", "loading", "ready", "error"}, match : Nat, over : BOOLEAN]

Pages == [selected : Rooms \cup {NoRoom}, room : Views, pending : BOOLEAN, active : Nat,
          view : Outlooks]

RequestSet == [op : Ops, room : Rooms \cup {NoRoom}, match : Nat,
               from : Rooms \cup {NoRoom}, version : Nat, live : BOOLEAN,
               stage : {"sent", "answered"}, ok : BOOLEAN, answer : Views, found : BOOLEAN]

Servers == [Rooms -> [version : Nat, match : Nat, closed : BOOLEAN]]

(* Of the matches w, m is one of the room r.                               *)
At(m, r, w) == m \in DOMAIN w /\ w[m] = r

(* A room is read with a match of its own.                                 *)
ServerSound(s, w) == \A r \in Rooms : s[r].match # NoMatch => At(s[r].match, r, w)

(* Whatever the page shows is of the room it is on.                        *)
PageSound(p, w) ==
  /\ p.selected = NoRoom => p.room = NoView
  /\ p.room # NoView => p.room.id = p.selected
  /\ p.room.match # NoMatch => At(p.room.match, p.selected, w)
  /\ p.active # NoMatch => At(p.active, p.selected, w)
  /\ p.view.status = "ready" => At(p.view.match, p.selected, w)

(* Their answer is the room they were made for.                            *)
Shown == {"reconnect", "poll", "refresh", "reload", "lateReload", "mutate", "join", "start"}

(* What a change of the room on the page leaves behind.                    *)
Outlives(q) ==
  q.op \in Unscoped \cup {"mutate", "join"} \/ (q.op \in Changes /\ q.stage = "sent")

(* A request that still counts was made for the room r the page is on.     *)
RequestSound(q, r, w) ==
  /\ q.room \in Rooms
  /\ q.op \in {"switchGet", "switchLeave"} => q.from \in Rooms
  /\ IF q.live THEN q.room = r ELSE Outlives(q)
  /\ q.ok /\ q.op \in Shown => q.answer.id = q.room
  /\ q.answer.match # NoMatch => At(q.answer.match, q.answer.id, w)
  /\ q.ok /\ q.op = "start" => q.answer.match # NoMatch
  /\ q.op \in Syncs => q.match # NoMatch /\ q.match \in DOMAIN w

PageInv ==
  /\ TypeOK
  /\ ServerSound(server, where)
  /\ PageSound(page, where)
  /\ \A q \in requests : RequestSound(q, page.selected, where)
  /\ PendingHasRequest

LEMMA TypesNamed ==
  TypeOK <=> /\ server \in Servers
             /\ home \in Rooms \cup {NoRoom} /\ where \in Seq(Rooms)
             /\ over \subseteq DOMAIN where
             /\ page \in Pages
             /\ requests \subseteq RequestSet
BY DEF TypeOK, Servers, Pages, Outlooks, RequestSet

LEMMA NoViewTyped == NoView \in Views /\ NoView.match = NoMatch /\ NoView.id = NoRoom
BY DEF NoView, Views, NoMatch

-----------------------------------------------------------------------------
(* Matches are only added.                                                 *)
Extends(w, v) == DOMAIN w \subseteq DOMAIN v /\ \A m \in DOMAIN w : v[m] = w[m]

LEMMA MatchAdded ==
  ASSUME NEW w \in Seq(Rooms), NEW r \in Rooms
  PROVE  /\ Append(w, r) \in Seq(Rooms) /\ Extends(w, Append(w, r))
         /\ Len(Append(w, r)) \in Nat \ {NoMatch}
         /\ At(Len(Append(w, r)), r, Append(w, r))
BY DEF Extends, At, NoMatch

LEMMA SoundPageStays ==
  ASSUME NEW p, NEW w, NEW v, PageSound(p, w), Extends(w, v)
  PROVE  PageSound(p, v)
BY DEF PageSound, Extends, At

LEMMA SoundRequestStays ==
  ASSUME NEW q, NEW r, NEW w, NEW v, RequestSound(q, r, w), Extends(w, v)
  PROVE  RequestSound(q, r, v)
BY DEF RequestSound, Extends, At

-----------------------------------------------------------------------------
(* Requests.                                                               *)

(* A new request of the page at r.                                         *)
LEMMA RequestIsSound ==
  ASSUME PageInv, NEW op \in Ops \ {"switchGet", "switchLeave"}, NEW r \in Rooms, NEW m \in Nat,
         op \in Syncs => m # NoMatch /\ m \in DOMAIN where
  PROVE  /\ Request(op, r, m) \in RequestSet
         /\ RequestSound(Request(op, r, m), r, where)
         /\ Request(op, r, m).live /\ Request(op, r, m).op = op
<1>1. page.room.version \in Nat
  BY TypesNamed DEF PageInv, Pages, Views
<1>2. Request(op, r, m) \in RequestSet
  BY <1>1, NoViewTyped DEF Request, RequestSet
<1> QED
  BY <1>2, NoViewTyped DEF Request, RequestSound

(* A step of the page that stays in its room.                              *)
LEMMA SameRoom ==
  ASSUME PageInv, UNCHANGED <<server, home, where, over>>,
         page' \in Pages, PageSound(page', where), page'.selected = page.selected,
         \A q \in requests' :
           q \in requests \/ (q \in RequestSet /\ RequestSound(q, page.selected, where)),
         page'.pending => \E q \in requests' : Enables(q)
  PROVE  PageInv'
<1>1. TypeOK
  BY DEF PageInv
<1>2. TypeOK'
  <2>1. requests' \subseteq RequestSet
    BY <1>1, TypesNamed
  <2>2. server \in Servers /\ home \in Rooms \cup {NoRoom} /\ where \in Seq(Rooms)
        /\ over \subseteq DOMAIN where
    BY <1>1, TypesNamed
  <2> QED
    BY <2>1, <2>2 DEF TypeOK, Servers, Pages, Outlooks, RequestSet
<1>3. \A q \in requests' : RequestSound(q, page'.selected, where')
  BY DEF PageInv
<1>4. ServerSound(server', where') /\ PageSound(page', where')
  BY DEF PageInv
<1>5. PendingHasRequest'
  BY DEF PendingHasRequest, Enables
<1> QED
  BY <1>2, <1>3, <1>4, <1>5 DEF PageInv

(* What outlives a change of room is sound in every room.                  *)
LEMMA KeptIsSound ==
  ASSUME PageInv, NEW q \in Kept, NEW r
  PROVE  q \in RequestSet /\ RequestSound(q, r, where)
<1>1. PICK p \in requests : q = [p EXCEPT !.live = FALSE] /\ Outlives(p)
  BY DEF Kept, Outlives
<1>2. p \in RequestSet /\ RequestSound(p, page.selected, where)
  BY TypesNamed DEF PageInv
<1>3. /\ q \in RequestSet /\ ~ q.live
      /\ q.op = p.op /\ q.room = p.room /\ q.from = p.from /\ q.ok = p.ok
      /\ q.answer = p.answer /\ q.match = p.match /\ q.stage = p.stage
  BY <1>1, <1>2 DEF RequestSet
<1> QED
  BY <1>1, <1>2, <1>3 DEF RequestSound, Outlives

(* A step of the page to another room.                                     *)
LEMMA NewRoom ==
  ASSUME PageInv, UNCHANGED <<server, home, where, over>>,
         NEW r \in Rooms \cup {NoRoom}, page' = Leaving(r),
         requests' \subseteq Kept \cup Entering(r), Entering(r) \subseteq requests'
  PROVE  PageInv'
<1>1. TypeOK
  BY DEF PageInv
<1>2. page' \in Pages /\ page'.selected = r /\ PageSound(page', where)
      /\ (page'.pending <=> r # NoRoom)
  BY NoViewTyped DEF Leaving, EmptyPage, Pages, Outlooks, PageSound, Idle, NoMatch
<1>3. \A q \in Entering(r) : r \in Rooms /\ q \in RequestSet /\ RequestSound(q, r, where)
  BY RequestIsSound DEF Entering, When, Ops, Reads, Changes, Syncs, NoMatch
<1>4. \A q \in requests' : q \in RequestSet /\ RequestSound(q, r, where)
  BY <1>3, KeptIsSound
<1>5. TypeOK'
  <2>1. server \in Servers /\ home \in Rooms \cup {NoRoom} /\ where \in Seq(Rooms)
        /\ over \subseteq DOMAIN where
    BY <1>1, TypesNamed
  <2> QED
    BY <1>2, <1>4, <2>1 DEF TypeOK, Servers, Pages, Outlooks, RequestSet
<1>6. PendingHasRequest'
  <2>1. ASSUME r # NoRoom PROVE \E q \in requests' : Enables(q)
    <3>1. Request("reconnect", r, NoMatch) \in requests'
      BY <2>1 DEF Entering, When
    <3>2. Enables(Request("reconnect", r, NoMatch))
      BY DEF Enables, Request
    <3> QED
      BY <3>1, <3>2
  <2> QED
    BY <1>2, <2>1 DEF PendingHasRequest, Enables
<1> QED
  BY <1>2, <1>4, <1>5, <1>6 DEF PageInv

-----------------------------------------------------------------------------
(* The server answers.                                                     *)

(* What an answer may say, given the matches w.                            *)
AnswerFits(q, ok, view, w) ==
  /\ ok \in BOOLEAN /\ view \in Views
  /\ view.match # NoMatch => At(view.match, view.id, w)
  /\ ok /\ q.op \in Shown => view.id = q.room
  /\ ok /\ q.op = "start" => view.match # NoMatch

LEMMA SomeAnswerKeeps ==
  ASSUME PageInv, server' \in Servers, home' \in Rooms \cup {NoRoom}, where' \in Seq(Rooms),
         ServerSound(server', where'), Extends(where, where'),
         UNCHANGED <<over, page>>,
         NEW q \in requests, q.stage = "sent", NEW ok, NEW view, NEW found \in BOOLEAN,
         AnswerFits(q, ok, view, where'), Answer(q, ok, view, found)
  PROVE  PageInv'
<1>1. TypeOK /\ page \in Pages /\ q \in RequestSet /\ RequestSound(q, page.selected, where)
  BY TypesNamed DEF PageInv
<1> DEFINE a == [q EXCEPT !.stage = "answered", !.ok = ok, !.answer = view, !.found = found]
<1>2. /\ a \in RequestSet /\ a.op = q.op /\ a.room = q.room /\ a.from = q.from
      /\ a.live = q.live /\ a.match = q.match /\ a.stage = "answered"
      /\ a.ok = ok /\ a.answer = view
  BY <1>1 DEF RequestSet, AnswerFits
<1>3. requests' = (requests \ {q}) \cup
        When(q.live \/ q.op \in Unscoped \cup {"mutate", "join"}, {a})
  BY DEF Answer
<1> HIDE DEF a
<1>4. \A p \in requests' : p \in requests \/ (p = a /\ (q.live \/ q.op \in Unscoped \cup {"mutate", "join"}))
  BY <1>3 DEF When
<1>5. RequestSound(q, page.selected, where')
  BY <1>1, SoundRequestStays
<1>6. \A p \in requests' : p \in RequestSet /\ RequestSound(p, page.selected, where')
  <2>1. ASSUME q.live \/ q.op \in Unscoped \cup {"mutate", "join"}
        PROVE  RequestSound(a, page.selected, where')
    BY <1>2, <1>5, <2>1 DEF RequestSound, AnswerFits, Outlives
  <2>2. \A p \in requests : p \in RequestSet /\ RequestSound(p, page.selected, where')
    BY SoundRequestStays, TypesNamed DEF PageInv
  <2> QED
    BY <1>2, <1>4, <2>1, <2>2
<1>7. TypeOK'
  <2>1. over' \subseteq DOMAIN where'
    BY <1>1, TypesNamed DEF Extends
  <2>2. page' \in Pages /\ requests' \subseteq RequestSet
    BY <1>1, <1>6
  <2> QED
    BY <2>1, <2>2 DEF TypeOK, Servers, Pages, Outlooks, RequestSet
<1>8. PageSound(page', where')
  BY SoundPageStays DEF PageInv
<1>9. PendingHasRequest'
  <2>1. ASSUME page.pending PROVE \E p \in requests' : Enables(p)
    <3>1. PICK p \in requests : Enables(p)
      BY <2>1 DEF PageInv, PendingHasRequest
    <3>2. CASE p # q
      BY <1>3, <3>1, <3>2
    <3>3. CASE p = q
      <4>1. a \in requests'
        BY <1>3, <3>1, <3>3 DEF Enables, Unscoped, When
      <4>2. Enables(a)
        BY <1>2, <3>1, <3>3 DEF Enables
      <4> QED
        BY <4>1, <4>2
    <3> QED
      BY <3>2, <3>3
  <2> QED
    BY <2>1 DEF PendingHasRequest, Enables
<1> QED
  BY <1>6, <1>7, <1>8, <1>9 DEF PageInv

(* A read of a room without changes.                                       *)
LEMMA ViewFits ==
  ASSUME NEW s \in Servers, NEW h, NEW w, ServerSound(s, w), NEW r \in Rooms
  PROVE  /\ ViewIn(s, h, r) \in Views /\ ViewIn(s, h, r).id = r
         /\ ViewIn(s, h, r).match = s[r].match
         /\ ViewIn(s, h, r).match # NoMatch => At(ViewIn(s, h, r).match, r, w)
BY DEF ViewIn, Views, Servers, ServerSound

LEMMA NothingAdded == \A w : Extends(w, w)
BY DEF Extends

(* A new version of a room.                                                *)
LEMMA BumpedSound ==
  ASSUME PageInv, NEW r \in Rooms
  PROVE  /\ Bumped(r) \in Servers /\ ServerSound(Bumped(r), where)
         /\ \A x \in Rooms : Bumped(r)[x].match = server[x].match
<1>1. server \in Servers /\ ServerSound(server, where)
  BY TypesNamed DEF PageInv
<1> DEFINE next == [server[r] EXCEPT !.version = @ + 1]
<1>2. Bumped(r) = [server EXCEPT ![r] = next]
  BY DEF Bumped
<1>3. next \in [version : Nat, match : Nat, closed : BOOLEAN] /\ next.match = server[r].match
  BY <1>1 DEF Servers
<1> HIDE DEF next
<1>4. Bumped(r) \in Servers /\ \A x \in Rooms : Bumped(r)[x].match = server[x].match
  BY <1>1, <1>2, <1>3 DEF Servers
<1> QED
  BY <1>1, <1>4 DEF ServerSound

(* The room r starts a match of its own.                                   *)
LEMMA StartedSound ==
  ASSUME PageInv, NEW r \in Rooms, where' = Append(where, r),
         server' = [Bumped(r) EXCEPT ![r].match = Len(where')]
  PROVE  /\ server' \in Servers /\ where' \in Seq(Rooms) /\ Extends(where, where')
         /\ ServerSound(server', where') /\ server'[r].match # NoMatch
<1>1. where \in Seq(Rooms)
  BY TypesNamed DEF PageInv
<1>2. /\ where' \in Seq(Rooms) /\ Extends(where, where') /\ Len(where') \in Nat \ {NoMatch}
      /\ At(Len(where'), r, where')
  BY <1>1, MatchAdded
<1>3. Bumped(r) \in Servers /\ ServerSound(Bumped(r), where)
  BY BumpedSound
<1> DEFINE next == [Bumped(r)[r] EXCEPT !.match = Len(where')]
<1>4. server' = [Bumped(r) EXCEPT ![r] = next]
  OBVIOUS
<1>5. next \in [version : Nat, match : Nat, closed : BOOLEAN] /\ next.match = Len(where')
  BY <1>2, <1>3 DEF Servers
<1> HIDE DEF next
<1>6. /\ server' \in Servers /\ server'[r].match = Len(where')
      /\ \A x \in Rooms : x # r => server'[x] = Bumped(r)[x]
  BY <1>3, <1>4, <1>5 DEF Servers
<1>7. ServerSound(server', where')
  BY <1>2, <1>3, <1>6 DEF ServerSound, Extends, At
<1> QED
  BY <1>2, <1>6, <1>7

LEMMA ClosedSound ==
  ASSUME PageInv, NEW r \in Rooms, server' = [Bumped(r) EXCEPT ![r].closed = TRUE]
  PROVE  server' \in Servers /\ ServerSound(server', where)
<1>1. Bumped(r) \in Servers /\ ServerSound(Bumped(r), where)
  BY BumpedSound
<1> DEFINE next == [Bumped(r)[r] EXCEPT !.closed = TRUE]
<1>2. server' = [Bumped(r) EXCEPT ![r] = next]
  OBVIOUS
<1>3. /\ next \in [version : Nat, match : Nat, closed : BOOLEAN]
      /\ next.match = Bumped(r)[r].match
  BY <1>1 DEF Servers
<1> HIDE DEF next
<1> QED
  BY <1>1, <1>2, <1>3 DEF Servers, ServerSound

LEMMA EndedSound ==
  ASSUME PageInv, NEW r \in Rooms, server' = [Bumped(r) EXCEPT ![r].match = NoMatch]
  PROVE  server' \in Servers /\ ServerSound(server', where)
<1>1. Bumped(r) \in Servers /\ ServerSound(Bumped(r), where)
  BY BumpedSound
<1> DEFINE next == [Bumped(r)[r] EXCEPT !.match = NoMatch]
<1>2. server' = [Bumped(r) EXCEPT ![r] = next]
  OBVIOUS
<1>3. next \in [version : Nat, match : Nat, closed : BOOLEAN] /\ next.match = NoMatch
  BY <1>1 DEF Servers, NoMatch
<1> HIDE DEF next
<1> QED
  BY <1>1, <1>2, <1>3 DEF Servers, ServerSound

LEMMA ServePreserves ==
  ASSUME PageInv, NEW q \in requests, Serve(q)
  PROVE  PageInv'
<1>1. /\ TypeOK /\ server \in Servers /\ home \in Rooms \cup {NoRoom} /\ where \in Seq(Rooms)
      /\ ServerSound(server, where) /\ q \in RequestSet /\ RequestSound(q, page.selected, where)
  BY TypesNamed DEF PageInv
<1>2. /\ q.stage = "sent" /\ UNCHANGED <<over, page>>
      /\ ServeRead(q) \/ ServeChange(q) \/ ServeSync(q) \/ ServeList(q)
  BY DEF Serve
<1>3. /\ q.room \in Rooms /\ q.op \in Ops
      /\ q.op \in {"switchGet", "switchLeave"} => q.from \in Rooms
  BY <1>1 DEF RequestSound, RequestSet
<1>4. \A ok \in BOOLEAN : ~ ok \/ q.op \notin Shown => AnswerFits(q, ok, NoView, where)
  BY NoViewTyped DEF AnswerFits, Shown
<1>5. ASSUME NEW ok \in BOOLEAN, NEW view, NEW found \in BOOLEAN,
             Answer(q, ok, view, found), AnswerFits(q, ok, view, where),
             UNCHANGED where, server' \in Servers, ServerSound(server', where),
             home' \in Rooms \cup {NoRoom}
      PROVE  PageInv'
  BY <1>1, <1>2, <1>5, SomeAnswerKeeps, NothingAdded
<1>6. ASSUME Refuse(q) PROVE PageInv'
  BY <1>1, <1>4, <1>5, <1>6 DEF Refuse
<1>7. CASE ServeRead(q)
  <2> DEFINE r == IF q.op = "switchGet" THEN q.from ELSE q.room
  <2>1. r \in Rooms
    BY <1>3
  <2>2. View(r) \in Views /\ AnswerFits(q, TRUE, View(r), where)
    <3>1. q.op # "start" /\ (q.op \in Shown => View(r).id = q.room)
      BY <1>7, <2>1, <1>1, ViewFits DEF ServeRead, Reads, View, Shown
    <3> QED
      BY <1>1, <2>1, <3>1, ViewFits DEF AnswerFits, View
  <2> QED
    BY <1>1, <1>5, <1>6, <1>7, <2>2 DEF ServeRead
<1>8. CASE ServeMutate(q)
  <2>1. server' \in Servers /\ ServerSound(server', where)
    BY <1>3, <1>8, BumpedSound DEF ServeMutate
  <2>2. AnswerFits(q, TRUE, ViewIn(server', home, q.room), where)
    BY <1>3, <1>8, <2>1, ViewFits DEF AnswerFits, ServeMutate
  <2> QED
    BY <1>1, <1>5, <1>8, <2>1, <2>2 DEF ServeMutate
<1>9. CASE ServeLeave(q)
  <2>1. LeftRoom(q) \in Rooms
    BY <1>3, <1>9 DEF ServeLeave, LeftRoom
  <2>2. server' \in Servers /\ ServerSound(server', where)
    BY <1>9, <2>1, BumpedSound DEF ServeLeave
  <2>3. AnswerFits(q, TRUE, ViewIn(server', home', LeftRoom(q)), where)
    BY <1>9, <2>1, <2>2, ViewFits DEF AnswerFits, ServeLeave, Shown
  <2> QED
    BY <1>5, <1>9, <2>2, <2>3 DEF ServeLeave
<1>10. CASE ServeDelete(q)
  <2>1. server' \in Servers /\ ServerSound(server', where)
    BY <1>3, <1>10, ClosedSound DEF ServeDelete
  <2>2. AnswerFits(q, TRUE, NoView, where)
    BY <1>4, <1>10 DEF ServeDelete, Shown
  <2> QED
    BY <1>5, <1>10, <2>1, <2>2 DEF ServeDelete
<1>11. CASE ServeStart(q)
  <2>1. /\ server' \in Servers /\ where' \in Seq(Rooms) /\ Extends(where, where')
        /\ ServerSound(server', where') /\ server'[q.room].match # NoMatch
    BY <1>3, <1>11, StartedSound DEF ServeStart
  <2>2. AnswerFits(q, TRUE, ViewIn(server', home, q.room), where')
    BY <1>3, <2>1, ViewFits DEF AnswerFits
  <2> QED
    BY <1>1, <1>2, <1>11, <2>1, <2>2, SomeAnswerKeeps DEF ServeStart
<1>12. CASE ServeJoin(q)
  <2>1. server' \in Servers /\ ServerSound(server', where)
    BY <1>1, <1>3, <1>12, BumpedSound DEF ServeJoin
  <2>2. AnswerFits(q, TRUE, ViewIn(server', home', q.room), where)
    BY <1>3, <1>12, <2>1, ViewFits DEF AnswerFits, ServeJoin
  <2> QED
    BY <1>3, <1>5, <1>12, <2>1, <2>2 DEF ServeJoin
<1>13. CASE RefuseChange(q)
  BY <1>6, <1>13 DEF RefuseChange
<1>14. CASE ServeSync(q)
  <2>1. (home = where[q.match]) \in BOOLEAN /\ (q.match \in over) \in BOOLEAN
    OBVIOUS
  <2>2. \A ok \in BOOLEAN : AnswerFits(q, ok, NoView, where)
    BY <1>4, <1>14 DEF ServeSync, Syncs, Shown
  <2> QED
    BY <1>1, <1>5, <1>14, <2>1, <2>2 DEF ServeSync
<1>15. CASE ServeList(q)
  <2>1. AnswerFits(q, TRUE, NoView, where)
    BY <1>4, <1>15 DEF ServeList, Shown
  <2> QED
    BY <1>1, <1>5, <1>15, <2>1 DEF ServeList
<1> QED
  BY <1>2, <1>7, <1>8, <1>9, <1>10, <1>11, <1>12, <1>13, <1>14, <1>15 DEF ServeChange

(* Another answer to a request than the server's: only less is known.      *)
LEMMA SpoiltPreserves ==
  ASSUME PageInv, NEW q \in requests, Fail(q) \/ Misread(q)
  PROVE  PageInv'
<1>1. TypeOK /\ page \in Pages /\ q \in RequestSet /\ RequestSound(q, page.selected, where)
  BY TypesNamed DEF PageInv
<1>2. PICK a \in RequestSet :
        /\ requests' = (requests \ {q}) \cup {a}
        /\ a.op = q.op /\ a.room = q.room /\ a.from = q.from /\ a.live = q.live
        /\ a.match = q.match /\ a.answer = q.answer /\ ~ a.ok /\ a.stage = "answered"
  <2>1. CASE Fail(q)
    <3> DEFINE a == [q EXCEPT !.stage = "answered", !.ok = FALSE]
    <3>1. /\ a \in RequestSet
          /\ a.op = q.op /\ a.room = q.room /\ a.from = q.from /\ a.live = q.live
          /\ a.match = q.match /\ a.answer = q.answer /\ ~ a.ok /\ a.stage = "answered"
      BY <1>1 DEF RequestSet
    <3>2. requests' = (requests \ {q}) \cup {a}
      BY <2>1 DEF Fail
    <3> HIDE DEF a
    <3> QED
      BY <3>1, <3>2
  <2>2. CASE Misread(q)
    <3> DEFINE a == [q EXCEPT !.ok = FALSE]
    <3>1. /\ a \in RequestSet
          /\ a.op = q.op /\ a.room = q.room /\ a.from = q.from /\ a.live = q.live
          /\ a.match = q.match /\ a.answer = q.answer /\ ~ a.ok /\ a.stage = "answered"
      BY <1>1, <2>2 DEF RequestSet, Misread
    <3>2. requests' = (requests \ {q}) \cup {a}
      BY <2>2 DEF Misread
    <3> HIDE DEF a
    <3> QED
      BY <3>1, <3>2
  <2> QED
    BY <2>1, <2>2
<1>3. q.live \/ q.op \in Unscoped \cup {"mutate", "join"}
  BY <1>1 DEF Fail, Misread, RequestSound, Outlives
<1>4. RequestSound(a, page.selected, where)
  BY <1>1, <1>2, <1>3 DEF RequestSound, Outlives
<1>5. page'.pending => \E p \in requests' : Enables(p)
  <2>1. Enables(q) => Enables(a)
    BY <1>2 DEF Enables
  <2>2. page' = page
    BY DEF Fail, Misread
  <2> QED
    BY <1>2, <2>1, <2>2 DEF PageInv, PendingHasRequest
<1>6. UNCHANGED <<server, home, where, over, page>>
  BY DEF Fail, Misread
<1> QED
  BY <1>1, <1>2, <1>4, <1>5, <1>6, SameRoom DEF PageInv

-----------------------------------------------------------------------------
(* The page takes the answers.                                             *)

(* A room that may be shown by a page at r, given the matches w.           *)
Showable(v, r, w) ==
  /\ v \in Views
  /\ v = NoView \/ v.id = r
  /\ v.match # NoMatch => At(v.match, r, w)

LEMMA WithRoomSound ==
  ASSUME NEW p \in Pages, NEW w, PageSound(p, w), p.selected \in Rooms,
         NEW v, Showable(v, p.selected, w)
  PROVE  /\ WithRoom(p, v) \in Pages /\ PageSound(WithRoom(p, v), w)
         /\ WithRoom(p, v).selected = p.selected
         /\ WithRoom(p, v).pending = (p.pending \/ (Attends(p, v) /\ Finished(p.view)))
<1>1. p.selected # NoRoom
  BY RoomPageAssumption
<1> DEFINE q == [p EXCEPT !.room = v]
           cleared == [q EXCEPT !.active = NoMatch,
                                !.view = IF Finished(q.view) THEN q.view ELSE Idle]
           attending == [q EXCEPT !.active = v.match,
                                  !.pending = q.pending \/ Finished(p.view),
                                  !.view = IF q.view.status = "ready" THEN q.view ELSE Loading]
<1>2. v.match \in Nat /\ v \in Views
  BY DEF Showable, Views
<1>3. /\ q \in Pages /\ q.selected = p.selected /\ q.pending = p.pending /\ q.room = v
      /\ q.active = p.active /\ q.view = p.view
  BY <1>2 DEF Pages
<1>4. PageSound(q, w)
  BY <1>1, <1>3 DEF PageSound, Showable
<1> HIDE DEF q
<1>5. /\ cleared \in Pages /\ cleared.selected = q.selected /\ cleared.pending = q.pending
      /\ cleared.room = q.room /\ cleared.active = NoMatch
      /\ cleared.view = q.view \/ cleared.view = Idle
  BY <1>3 DEF Pages, Outlooks, Idle, NoMatch
<1>6. PageSound(cleared, w)
  BY <1>4, <1>5 DEF PageSound, Idle
<1>7. Finished(p.view) \in BOOLEAN /\ q.pending \in BOOLEAN
  BY <1>3 DEF Finished, Pages, Outlooks
<1>8. /\ attending \in Pages /\ attending.selected = q.selected
      /\ attending.pending = (q.pending \/ Finished(p.view))
      /\ attending.room = q.room /\ attending.active = v.match
      /\ attending.view = q.view \/ attending.view = Loading
  BY <1>2, <1>3, <1>7 DEF Pages, Outlooks, Loading, NoMatch
<1>9. ASSUME v.match # NoMatch PROVE PageSound(attending, w)
  BY <1>3, <1>4, <1>8, <1>9 DEF PageSound, Loading, Showable
<1>10. /\ Attends(p, v) => WithRoom(p, v) = attending
       /\ ~ Attends(p, v) => WithRoom(p, v) \in {q, cleared}
  BY DEF WithRoom, Attends, q
<1>11. Attends(p, v) => v.match # NoMatch
  BY DEF Attends
<1> HIDE DEF cleared, attending
<1>12. CASE Attends(p, v)
  BY <1>3, <1>8, <1>9, <1>10, <1>11, <1>12
<1>13. CASE ~ Attends(p, v)
  BY <1>3, <1>4, <1>5, <1>6, <1>7, <1>10, <1>13
<1> QED
  BY <1>12, <1>13

LEMMA AskedSound ==
  ASSUME PageInv, NEW p, p.selected \in Rooms, NEW v, Showable(v, p.selected, where)
  PROVE  \A q \in Asked(p, v) : q \in RequestSet /\ RequestSound(q, p.selected, where)
<1>1. v.match \in Nat
  BY DEF Showable, Views
<1>2. ASSUME Attends(p, v)
      PROVE  /\ Request("sync", p.selected, v.match) \in RequestSet
             /\ RequestSound(Request("sync", p.selected, v.match), p.selected, where)
  <2>1. v.match # NoMatch /\ v.match \in DOMAIN where
    BY <1>2 DEF Attends, Showable, At
  <2> QED
    BY <1>1, <2>1, RequestIsSound DEF Ops, Syncs
<1>3. /\ Request("refresh", p.selected, NoMatch) \in RequestSet
      /\ RequestSound(Request("refresh", p.selected, NoMatch), p.selected, where)
  BY RequestIsSound DEF Ops, Reads, Syncs, NoMatch
<1> QED
  BY <1>2, <1>3 DEF Asked, When

LEMMA SetRoomKeeps ==
  ASSUME PageInv, UNCHANGED <<server, home, where, over>>, page.selected \in Rooms,
         NEW q \in requests, NEW v, Showable(v, page.selected, where),
         NEW more, \A p \in more : p \in RequestSet /\ RequestSound(p, page.selected, where),
         NEW pending \in BOOLEAN,
         pending => \E p \in requests' : Enables(p),
         SetRoom(q, v, more, pending)
  PROVE  PageInv'
<1>1. page \in Pages /\ PageSound(page, where)
  BY TypesNamed DEF PageInv
<1> DEFINE p == WithRoom(page, v)
           due == Attends(page, v) /\ Finished(page.view)
<1>2. p \in Pages /\ PageSound(p, where) /\ p.selected = page.selected
  BY <1>1, WithRoomSound
<1>3. page' = [p EXCEPT !.pending = pending \/ due]
  BY DEF SetRoom
<1>4. due \in BOOLEAN
  BY DEF Attends
<1>5. due => Request("refresh", page.selected, NoMatch) \in requests'
  BY DEF SetRoom, Asked, When
<1> HIDE DEF p, due
<1>6. /\ page' \in Pages /\ page'.selected = page.selected /\ page'.pending = (pending \/ due)
      /\ page'.room = p.room /\ page'.active = p.active /\ page'.view = p.view
  BY <1>2, <1>3, <1>4 DEF Pages
<1>7. PageSound(page', where)
  BY <1>2, <1>6 DEF PageSound
<1>8. \A x \in requests' :
        x \in requests \/ (x \in RequestSet /\ RequestSound(x, page.selected, where))
  BY AskedSound DEF SetRoom
<1>9. page'.pending => \E x \in requests' : Enables(x)
  <2>1. Enables(Request("refresh", page.selected, NoMatch))
    BY DEF Enables, Request
  <2> QED
    BY <1>5, <1>6, <2>1
<1> QED
  BY <1>6, <1>7, <1>8, <1>9, SameRoom

(* The callback changes nothing but roomPending, and asks for more.        *)
LEMMA PutKeeps ==
  ASSUME PageInv, UNCHANGED <<server, home, where, over>>,
         NEW q \in requests, requests \ {q} \subseteq requests',
         \A p \in requests' :
           p \in requests \/ (p \in RequestSet /\ RequestSound(p, page.selected, where)),
         \/ page' = page /\ (Enables(q) => \E p \in requests' : Enables(p))
         \/ page' = [page EXCEPT !.pending = FALSE]
  PROVE  PageInv'
<1>1. page \in Pages /\ PageSound(page, where)
  BY TypesNamed DEF PageInv
<1>2. /\ page' \in Pages /\ page'.selected = page.selected
      /\ page'.room = page.room /\ page'.active = page.active /\ page'.view = page.view
  BY <1>1 DEF Pages
<1>3. PageSound(page', where)
  BY <1>1, <1>2 DEF PageSound
<1>4. page'.pending => \E p \in requests' : Enables(p)
  <2>1. CASE page' = page /\ (Enables(q) => \E p \in requests' : Enables(p))
    BY <2>1 DEF PageInv, PendingHasRequest
  <2>2. CASE page' = [page EXCEPT !.pending = FALSE]
    BY <1>1, <2>2 DEF Pages
  <2> QED
    BY <2>1, <2>2
<1> QED
  BY <1>2, <1>3, <1>4, SameRoom

LEMMA NavigateKeeps ==
  ASSUME PageInv, UNCHANGED <<server, home, where, over>>,
         NEW q \in requests, NEW r \in Rooms \cup {NoRoom}, Navigate(q, r)
  PROVE  PageInv'
<1>1. CASE r = page.selected
  <2>1. requests' = requests \ {q} /\ page' = [page EXCEPT !.pending = FALSE]
    BY <1>1 DEF Navigate, Put
  <2> QED
    BY <2>1, PutKeeps
<1>2. CASE r # page.selected
  <2>1. /\ page' = Leaving(r)
        /\ requests' = (Kept \ {[q EXCEPT !.live = FALSE]}) \cup Entering(r)
    BY <1>2 DEF Navigate
  <2>2. requests' \subseteq Kept \cup Entering(r) /\ Entering(r) \subseteq requests'
    BY <2>1
  <2> QED
    BY <2>1, <2>2, NewRoom
<1> QED
  BY <1>1, <1>2

LEMMA AnswersOfThePage ==
  ASSUME PageInv, NEW q \in requests, q.stage = "answered"
  PROVE  /\ q \in RequestSet /\ RequestSound(q, page.selected, where) /\ q.room \in Rooms
         /\ q.live \/ q.op \in Unscoped \cup {"mutate", "join"}
         /\ q.live => q.room = page.selected
         /\ q.live /\ q.ok /\ q.op \in Shown => Showable(q.answer, page.selected, where)
<1>1. q \in RequestSet /\ RequestSound(q, page.selected, where)
  BY TypesNamed DEF PageInv
<1>2. /\ q.room \in Rooms
      /\ q.live \/ q.op \in Unscoped \cup {"mutate", "join"}
      /\ q.live => q.room = page.selected
  BY <1>1 DEF RequestSound, Outlives
<1>3. q.answer \in Views
  BY <1>1 DEF RequestSet
<1> QED
  BY <1>1, <1>2, <1>3 DEF RequestSound, Showable

LEMMA NoViewShowable == \A r, w : Showable(NoView, r, w)
BY NoViewTyped DEF Showable

(* Reads, and the changes that show their answer.                          *)
LEMMA ReadsPreserve ==
  ASSUME PageInv, UNCHANGED <<server, home, where, over>>,
         NEW q \in requests, q.stage = "answered",
         AfterReconnect(q) \/ AfterPoll(q) \/ AfterMutate(q) \/ AfterReload(q)
  PROVE  PageInv'
<1>1. /\ q.room \in Rooms /\ (q.live => q.room = page.selected)
      /\ q.live \/ q.op \in Unscoped \cup {"mutate", "join"}
      /\ q.live /\ q.ok /\ q.op \in Shown => Showable(q.answer, page.selected, where)
  BY AnswersOfThePage
<1>2. page \in Pages /\ page.pending \in BOOLEAN
  BY TypesNamed DEF PageInv, Pages
<1>3. page.pending => \E p \in requests : Enables(p)
  BY DEF PageInv, PendingHasRequest
<1>4. CASE AfterReconnect(q)
  <2> DEFINE v == IF q.ok THEN q.answer ELSE NoView
  <2>1. q.live /\ page.selected \in Rooms
    BY <1>1, <1>4 DEF AfterReconnect, Unscoped
  <2>2. Showable(v, page.selected, where)
    BY <1>1, <1>4, <2>1, NoViewShowable DEF AfterReconnect, Shown
  <2>3. SetRoom(q, v, {}, FALSE)
    BY <1>4 DEF AfterReconnect
  <2> HIDE DEF v
  <2> QED
    BY <2>1, <2>2, <2>3, SetRoomKeeps
<1>5. CASE AfterPoll(q)
  <2>1. q.live /\ page.selected \in Rooms /\ ~ Enables(q)
    BY <1>1, <1>5 DEF AfterPoll, Unscoped, Enables
  <2>2. CASE q.ok
    <3>1. Showable(q.answer, page.selected, where)
      BY <1>1, <1>5, <2>1, <2>2 DEF AfterPoll, Shown
    <3>2. SetRoom(q, q.answer, {}, page.pending)
      BY <1>5, <2>2 DEF AfterPoll
    <3>3. \A p \in requests : Enables(p) => p \in requests'
      BY <2>1, <3>2 DEF SetRoom, Aborted, Enables
    <3> QED
      BY <1>2, <1>3, <2>1, <3>1, <3>2, <3>3, SetRoomKeeps
  <2>3. CASE ~ q.ok
    BY <1>5, <2>1, <2>3, PutKeeps DEF AfterPoll, Put
  <2> QED
    BY <2>2, <2>3
<1>6. CASE AfterMutate(q)
  <2>1. ASSUME q.ok, InScope(q) PROVE PageInv'
    <3> DEFINE reload == Request("reload", q.room, NoMatch)
    <3>1. q.live /\ q.room = page.selected /\ page.selected \in Rooms
      BY <1>1, <2>1 DEF InScope
    <3>2. Showable(q.answer, page.selected, where)
      BY <1>1, <1>6, <2>1, <3>1 DEF AfterMutate, Shown
    <3>3. SetRoom(q, q.answer, {reload}, page.pending)
      BY <1>6, <2>1 DEF AfterMutate
    <3>4. reload \in RequestSet /\ RequestSound(reload, page.selected, where) /\ Enables(reload)
      BY <3>1, RequestIsSound DEF Ops, Reads, Syncs, NoMatch, Enables
    <3>5. reload \in requests'
      BY <3>3 DEF SetRoom
    <3> HIDE DEF reload
    <3> QED
      BY <1>2, <3>1, <3>2, <3>3, <3>4, <3>5, SetRoomKeeps
  <2>2. ASSUME q.ok, ~ InScope(q) PROVE PageInv'
    <3> DEFINE late == Request("lateReload", q.room, NoMatch)
    <3>1. page' = page /\ requests' = (requests \ {q}) \cup When(page.selected = q.room, {late})
      BY <1>6, <2>2 DEF AfterMutate, Put
    <3>2. late \in RequestSet /\ RequestSound(late, q.room, where)
      BY <1>1, RequestIsSound DEF Ops, Reads, Syncs, NoMatch
    <3>3. ~ Enables(q)
      BY <1>6, <2>2 DEF AfterMutate, InScope, Enables
    <3> HIDE DEF late
    <3>4. \A p \in requests' : p \in requests \/ (p = late /\ page.selected = q.room)
      BY <3>1 DEF When
    <3> QED
      BY <3>1, <3>2, <3>3, <3>4, PutKeeps
  <2>3. ASSUME ~ q.ok PROVE PageInv'
    <3>1. requests' = requests \ {q}
      BY <1>6, <2>3 DEF AfterMutate, Put
    <3>2. \/ page' = page /\ ~ Enables(q)
          \/ page' = [page EXCEPT !.pending = FALSE]
      BY <1>6, <2>3 DEF AfterMutate, Put, InScope, Enables
    <3> QED
      BY <3>1, <3>2, PutKeeps
  <2> QED
    BY <1>6, <2>1, <2>2, <2>3 DEF AfterMutate
<1>7. CASE AfterReload(q)
  <2>1. q.live /\ page.selected \in Rooms
    BY <1>1, <1>7 DEF AfterReload, Unscoped
  <2>2. CASE q.ok
    <3>1. Showable(q.answer, page.selected, where)
      BY <1>1, <1>7, <2>1, <2>2 DEF AfterReload, Shown
    <3>2. SetRoom(q, q.answer, {}, FALSE)
      BY <1>7, <2>2 DEF AfterReload
    <3> QED
      BY <2>1, <3>1, <3>2, SetRoomKeeps
  <2>3. CASE ~ q.ok
    BY <1>7, <2>3, PutKeeps DEF AfterReload, Put
  <2> QED
    BY <2>2, <2>3
<1> QED
  BY <1>4, <1>5, <1>6, <1>7

(* Changes that lead elsewhere, and the chain of a change of rooms.        *)
LEMMA ChangesPreserve ==
  ASSUME PageInv, UNCHANGED <<server, home, where, over>>,
         NEW q \in requests, q.stage = "answered",
         \/ AfterLeave(q) \/ AfterDelete(q) \/ AfterDeleteList(q)
         \/ AfterSwitchGet(q) \/ AfterSwitchLeave(q) \/ AfterSwitchJoin(q)
  PROVE  PageInv'
<1>1. /\ q \in RequestSet /\ RequestSound(q, page.selected, where) /\ q.room \in Rooms
      /\ q.live \/ q.op \in Unscoped \cup {"mutate", "join"}
      /\ q.live => q.room = page.selected
  BY AnswersOfThePage
<1>2. page \in Pages /\ page.pending \in BOOLEAN
  BY TypesNamed DEF PageInv, Pages
<1>3. ASSUME Put(q, {}, [page EXCEPT !.pending = FALSE]) PROVE PageInv'
  BY <1>3, PutKeeps DEF Put
<1>4. CASE AfterLeave(q)
  BY <1>3, <1>4, NavigateKeeps DEF AfterLeave
<1>5. CASE AfterDelete(q)
  <2>1. CASE q.ok
    <3> DEFINE list == Request("deleteList", q.room, NoMatch)
    <3>1. q.live /\ q.room = page.selected /\ page.selected \in Rooms
      BY <1>1, <1>5 DEF AfterDelete, Unscoped
    <3>2. SetRoom(q, NoView, {list}, page.pending)
      BY <1>5, <2>1 DEF AfterDelete
    <3>3. list \in RequestSet /\ RequestSound(list, page.selected, where) /\ Enables(list)
      BY <3>1, RequestIsSound DEF Ops, Syncs, NoMatch, Enables
    <3>4. list \in requests'
      BY <3>2 DEF SetRoom
    <3> HIDE DEF list
    <3> QED
      BY <1>2, <3>1, <3>2, <3>3, <3>4, NoViewShowable, SetRoomKeeps
  <2> QED
    BY <1>3, <1>5, <2>1 DEF AfterDelete
<1>6. CASE AfterDeleteList(q)
  BY <1>6, NavigateKeeps DEF AfterDeleteList
<1>7. ASSUME NEW op \in {"switchLeave", "switchJoin"}, Proceed(q, op),
             q.op \in {"switchGet", "switchLeave"}
      PROVE  PageInv'
  <2> DEFINE next == [q EXCEPT !.op = op, !.stage = "sent", !.ok = FALSE, !.answer = NoView,
                               !.version = IF op = "switchLeave" THEN q.answer.version
                                                                 ELSE q.version]
  <2>1. q.answer.version \in Nat /\ q.version \in Nat /\ q.from \in Rooms
    BY <1>1, <1>7 DEF RequestSet, Views, RequestSound
  <2>2. /\ next \in RequestSet /\ next.op = op /\ next.stage = "sent" /\ ~ next.ok
        /\ next.answer = NoView /\ next.room = q.room /\ next.from = q.from
        /\ next.live = q.live
    BY <1>1, <2>1, NoViewTyped DEF RequestSet, Ops, Changes
  <2>3. page' = page /\ requests' = (requests \ {q}) \cup {next}
    BY <1>7 DEF Proceed, Put
  <2> HIDE DEF next
  <2>4. RequestSound(next, page.selected, where) /\ Enables(next)
    BY <1>1, <2>1, <2>2, NoViewTyped DEF RequestSound, Enables, Outlives, Unscoped, Shown, Syncs
  <2> QED
    BY <2>2, <2>3, <2>4, PutKeeps
<1>8. CASE AfterSwitchGet(q)
  BY <1>3, <1>7, <1>8 DEF AfterSwitchGet
<1>9. CASE AfterSwitchLeave(q)
  BY <1>3, <1>7, <1>9 DEF AfterSwitchLeave
<1>10. CASE AfterSwitchJoin(q)
  BY <1>1, <1>3, <1>10, NavigateKeeps DEF AfterSwitchJoin
<1> QED
  BY <1>4, <1>5, <1>6, <1>8, <1>9, <1>10

(* The match that was started is attended to by its callback itself.       *)
LEMMA AfterStartPreserves ==
  ASSUME PageInv, UNCHANGED <<server, home, where, over>>,
         NEW q \in requests, q.stage = "answered", AfterStart(q)
  PROVE  PageInv'
<1>1. /\ q \in RequestSet /\ RequestSound(q, page.selected, where) /\ q.room \in Rooms
      /\ q.live /\ q.room = page.selected /\ page.selected \in Rooms
      /\ q.ok => Showable(q.answer, page.selected, where)
  BY AnswersOfThePage DEF AfterStart, Unscoped, Shown
<1>2. page \in Pages /\ PageSound(page, where)
  BY TypesNamed DEF PageInv
<1>3. CASE ~ q.ok
  BY <1>3, PutKeeps DEF AfterStart, Put
<1>4. CASE q.ok
  <2> DEFINE m == q.answer.match
             p == [page EXCEPT !.active = m]
             w == WithRoom(p, q.answer)
             view == IF w.view.status = "ready" THEN w.view ELSE Loading
             sync == Request("startSync", q.room, m)
             refresh == Request("refresh", q.room, NoMatch)
  <2>1. m \in Nat /\ m # NoMatch /\ At(m, page.selected, where) /\ Showable(q.answer, page.selected, where)
    BY <1>1, <1>4 DEF AfterStart, Showable, Views, RequestSound
  <2>2. /\ p \in Pages /\ p.selected = page.selected /\ p.room = page.room
        /\ p.active = m /\ p.view = page.view
    BY <1>2, <2>1 DEF Pages
  <2>3. PageSound(p, where)
    BY <1>2, <2>1, <2>2 DEF PageSound
  <2> HIDE DEF p
  <2>4. w \in Pages /\ PageSound(w, where) /\ w.selected = page.selected
    BY <1>1, <2>1, <2>2, <2>3, WithRoomSound
  <2>5. /\ page' = [w EXCEPT !.view = view]
        /\ requests' = (requests \ ({q} \cup Aborted(p, q.answer))) \cup Asked(p, q.answer)
                       \cup {sync} \cup When(Finished(page.view), {refresh})
    BY <1>4 DEF AfterStart, p
  <2> HIDE DEF w
  <2>6. /\ page' \in Pages /\ page'.selected = page.selected /\ page'.room = w.room
        /\ page'.active = w.active /\ page'.view \in {w.view, Loading}
    BY <2>4, <2>5 DEF Pages, Outlooks, Loading, NoMatch
  <2>7. PageSound(page', where)
    BY <2>4, <2>6 DEF PageSound, Loading
  <2>8. sync \in RequestSet /\ RequestSound(sync, page.selected, where) /\ Enables(sync)
    BY <1>1, <2>1, RequestIsSound DEF Ops, Syncs, At, Enables
  <2>9. refresh \in RequestSet /\ RequestSound(refresh, page.selected, where)
    BY <1>1, RequestIsSound DEF Ops, Reads, Syncs, NoMatch
  <2>10. \A x \in Asked(p, q.answer) : x \in RequestSet /\ RequestSound(x, page.selected, where)
    BY <1>1, <2>1, <2>2, AskedSound
  <2> HIDE DEF sync, refresh
  <2>11. \A x \in requests' :
           x \in requests \/ (x \in RequestSet /\ RequestSound(x, page.selected, where))
    BY <2>5, <2>8, <2>9, <2>10 DEF When
  <2>12. sync \in requests'
    BY <2>5
  <2> QED
    BY <2>6, <2>7, <2>8, <2>11, <2>12, SameRoom
<1> QED
  BY <1>3, <1>4

(* A synchronisation shows the match the page attends to, or nothing.      *)
LEMMA AfterSyncPreserves ==
  ASSUME PageInv, UNCHANGED <<server, home, where, over>>,
         NEW q \in requests, q.stage = "answered", AfterSync(q)
  PROVE  PageInv'
<1> DEFINE mine == page.active = q.match
           done == mine /\ q.ok /\ q.found
           pending == IF done THEN TRUE ELSE IF q.op = "startSync" THEN FALSE ELSE page.pending
           view == IF ~ mine THEN page.view ELSE IF q.ok THEN Ready(q.match, q.found) ELSE Failed
           refresh == Request("refresh", page.selected, NoMatch)
<1>1. /\ q \in RequestSet /\ RequestSound(q, page.selected, where)
      /\ q.live /\ page.selected \in Rooms
  BY AnswersOfThePage DEF AfterSync, Unscoped, Syncs
<1>2. page \in Pages /\ PageSound(page, where) /\ page.pending \in BOOLEAN
  BY TypesNamed DEF PageInv, Pages
<1>3. q.match \in Nat /\ q.found \in BOOLEAN /\ q.ok \in BOOLEAN /\ q.match # NoMatch
  BY <1>1 DEF RequestSet, RequestSound, AfterSync
<1>4. /\ page' = [page EXCEPT !.pending = pending, !.view = view]
      /\ requests' = (requests \ {q}) \cup When(done, {refresh})
  BY DEF AfterSync, Put
<1>5. view \in Outlooks /\ pending \in BOOLEAN
  BY <1>2, <1>3 DEF Pages, Outlooks, Ready, Failed, NoMatch
<1>6. view.status = "ready" => \/ view = page.view
                               \/ view.match = page.active /\ page.active # NoMatch
  BY <1>3 DEF Ready, Failed
<1>7. refresh \in RequestSet /\ RequestSound(refresh, page.selected, where) /\ Enables(refresh)
  BY <1>1, RequestIsSound DEF Ops, Reads, Syncs, NoMatch, Enables
<1>8. pending => done \/ (page.pending /\ q.op # "startSync")
  BY <1>2
<1>9. q.op # "startSync" => ~ Enables(q)
  BY DEF AfterSync, Syncs, Enables
<1>10. (done => refresh \in requests') /\ \A x \in requests' : x \in requests \/ x = refresh
  BY <1>4 DEF When
<1>11. requests \ {q} \subseteq requests'
  BY <1>4
<1> HIDE DEF done, pending, view, refresh
<1>12. /\ page' \in Pages /\ page'.selected = page.selected /\ page'.room = page.room
       /\ page'.active = page.active /\ page'.view = view /\ page'.pending = pending
  BY <1>2, <1>4, <1>5 DEF Pages
<1>13. PageSound(page', where)
  BY <1>2, <1>6, <1>12 DEF PageSound
<1>14. page'.pending => \E x \in requests' : Enables(x)
  BY <1>7, <1>8, <1>9, <1>10, <1>11, <1>12 DEF PageInv, PendingHasRequest
<1> QED
  BY <1>7, <1>10, <1>12, <1>13, <1>14, SameRoom

LEMMA DeliverPreserves ==
  ASSUME PageInv, NEW q \in requests, Deliver(q)
  PROVE  PageInv'
BY ReadsPreserve, ChangesPreserve, AfterStartPreserves, AfterSyncPreserves DEF Deliver

-----------------------------------------------------------------------------
(* The others, the page by itself, and its user.                           *)

LEMMA RoomsChange ==
  ASSUME PageInv, server' \in Servers, where' \in Seq(Rooms), Extends(where, where'),
         ServerSound(server', where'), over' \subseteq DOMAIN where',
         UNCHANGED <<home, page, requests>>
  PROVE  PageInv'
<1>1. TypeOK'
  <2>1. home \in Rooms \cup {NoRoom} /\ page \in Pages /\ requests \subseteq RequestSet
    BY TypesNamed DEF PageInv
  <2> QED
    BY <2>1 DEF TypeOK, Servers, Pages, Outlooks, RequestSet
<1>2. PageSound(page', where') /\ \A q \in requests' : RequestSound(q, page'.selected, where')
  BY SoundPageStays, SoundRequestStays DEF PageInv
<1>3. PendingHasRequest'
  BY DEF PageInv, PendingHasRequest, Enables
<1> QED
  BY <1>1, <1>2, <1>3 DEF PageInv

LEMMA OthersPreserve ==
  ASSUME PageInv, NEW r \in Rooms, OthersChange(r) \/ OthersStart(r) \/ MatchEnds(r)
  PROVE  PageInv'
<1>1. /\ server \in Servers /\ where \in Seq(Rooms) /\ ServerSound(server, where)
      /\ over \subseteq DOMAIN where
  BY TypesNamed DEF PageInv
<1>2. CASE OthersChange(r)
  BY <1>1, <1>2, BumpedSound, NothingAdded, RoomsChange DEF OthersChange
<1>3. CASE OthersStart(r)
  <2>1. /\ server' \in Servers /\ where' \in Seq(Rooms) /\ Extends(where, where')
        /\ ServerSound(server', where')
    BY <1>3, StartedSound DEF OthersStart
  <2>2. over' \subseteq DOMAIN where'
    BY <1>1, <1>3, <2>1 DEF OthersStart, Extends
  <2> QED
    BY <1>3, <2>1, <2>2, RoomsChange DEF OthersStart
<1>4. CASE MatchEnds(r)
  <2>1. server' \in Servers /\ ServerSound(server', where)
    BY <1>4, EndedSound DEF MatchEnds
  <2>2. over' \subseteq DOMAIN where
    BY <1>1, <1>4 DEF MatchEnds, ServerSound, At
  <2> QED
    BY <1>1, <1>4, <2>1, <2>2, NothingAdded, RoomsChange DEF MatchEnds
<1> QED
  BY <1>2, <1>3, <1>4

(* A read of the room that comes with a step of the page.                  *)
LEMMA RefreshAsked ==
  ASSUME PageInv, page.selected \in Rooms
  PROVE  LET refresh == Request("refresh", page.selected, NoMatch)
         IN  /\ refresh \in RequestSet /\ RequestSound(refresh, page.selected, where)
             /\ Enables(refresh)
BY RequestIsSound DEF Ops, Reads, Syncs, NoMatch, Enables

LEMMA MatchEventPreserves ==
  ASSUME PageInv, MatchEvent
  PROVE  PageInv'
<1> DEFINE refresh == Request("refresh", page.selected, NoMatch)
           view == [page.view EXCEPT !.over = TRUE]
<1>1. page \in Pages /\ PageSound(page, where) /\ where \in Seq(Rooms)
  BY TypesNamed DEF PageInv
<1>2. At(page.view.match, page.selected, where)
  BY <1>1 DEF MatchEvent, PageSound
<1>3. page.selected \in Rooms
  BY <1>1, <1>2 DEF At
<1>4. page' = [page EXCEPT !.view = view, !.pending = TRUE] /\ requests' = requests \cup {refresh}
  BY <1>1 DEF MatchEvent, Pages
<1>5. view \in Outlooks /\ view.match = page.view.match
  BY <1>1 DEF Pages, Outlooks
<1>6. refresh \in RequestSet /\ RequestSound(refresh, page.selected, where) /\ Enables(refresh)
  BY <1>3, RefreshAsked
<1> HIDE DEF refresh, view
<1>7. /\ page' \in Pages /\ page'.selected = page.selected /\ page'.room = page.room
      /\ page'.active = page.active /\ page'.view = view
  BY <1>1, <1>4, <1>5 DEF Pages
<1>8. PageSound(page', where)
  BY <1>1, <1>2, <1>5, <1>7 DEF PageSound
<1>9. UNCHANGED <<server, home, where, over>>
  BY DEF MatchEvent, Keeps
<1> QED
  BY <1>4, <1>6, <1>7, <1>8, <1>9, SameRoom

LEMMA PollPreserves ==
  ASSUME PageInv, Poll
  PROVE  PageInv'
<1> DEFINE poll == Request("poll", page.selected, NoMatch)
<1>1. page \in Pages /\ PageSound(page, where)
  BY TypesNamed DEF PageInv
<1>2. page.selected \in Rooms
  BY <1>1 DEF Poll, Pages
<1>3. poll \in RequestSet /\ RequestSound(poll, page.selected, where)
  BY <1>2, RequestIsSound DEF Ops, Reads, Syncs, NoMatch
<1>4. page' = page /\ requests' = {q \in requests : q.op # "poll"} \cup {poll}
  BY DEF Poll
<1> HIDE DEF poll
<1>5. page'.pending => \E q \in requests' : Enables(q)
  BY <1>4 DEF PageInv, PendingHasRequest, Enables
<1>6. UNCHANGED <<server, home, where, over>>
  BY DEF Poll, Keeps
<1> QED
  BY <1>1, <1>3, <1>4, <1>5, <1>6, SameRoom

(* A button asks for something that enables the buttons again.             *)
LEMMA AskKeeps ==
  ASSUME PageInv, NEW q, Ask(q), q \in RequestSet, RequestSound(q, page.selected, where),
         Enables(q)
  PROVE  PageInv'
<1>1. page \in Pages /\ PageSound(page, where)
  BY TypesNamed DEF PageInv
<1>2. page' = [page EXCEPT !.pending = TRUE] /\ requests' = requests \cup {q}
  BY DEF Ask
<1>3. /\ page' \in Pages /\ page'.selected = page.selected /\ page'.room = page.room
      /\ page'.active = page.active /\ page'.view = page.view
  BY <1>1, <1>2 DEF Pages
<1>4. PageSound(page', where)
  BY <1>1, <1>3 DEF PageSound
<1>5. UNCHANGED <<server, home, where, over>>
  BY DEF Ask, Keeps
<1> QED
  BY <1>2, <1>3, <1>4, <1>5, SameRoom

LEMMA UserPreserves ==
  ASSUME PageInv, UserStep
  PROVE  PageInv'
<1>1. page \in Pages /\ PageSound(page, where) /\ where \in Seq(Rooms)
  BY TypesNamed DEF PageInv
<1>2. page.room # NoView => page.selected \in Rooms
  BY <1>1 DEF PageSound, Pages
<1>3. ASSUME NEW r \in Rooms \cup {NoRoom}, Go(r) PROVE PageInv'
  BY <1>3, NewRoom DEF Go, Keeps
<1>4. ASSUME NEW op \in {"mutate", "join", "leave", "delete", "start", "refresh"},
             page.selected \in Rooms, Ask(Request(op, page.selected, NoMatch))
      PROVE  PageInv'
  <2> DEFINE q == Request(op, page.selected, NoMatch)
  <2>1. op \in Ops \ {"switchGet", "switchLeave"} /\ op \notin Syncs /\ NoMatch \in Nat
    BY DEF Ops, Reads, Changes, Syncs, NoMatch
  <2>2. q \in RequestSet /\ RequestSound(q, page.selected, where) /\ q.live /\ q.op = op
    BY <1>4, <2>1, RequestIsSound
  <2> HIDE DEF q
  <2>3. Enables(q)
    BY <2>2 DEF Enables
  <2> QED
    BY <1>4, <2>2, <2>3, AskKeeps DEF q
<1>5. CASE Mutate \/ Join \/ Leave \/ Delete \/ Start
  BY <1>2, <1>4, <1>5 DEF Mutate, Join, Leave, Delete, Start, InLobby, Lobby, Free
<1>6. CASE RefreshRoom
  <2>1. page.selected \in Rooms
    BY <1>1, <1>6 DEF RefreshRoom, Pages
  <2> QED
    BY <1>4, <1>6, <2>1 DEF RefreshRoom
<1>7. CASE Switch
  <2>1. page.selected \in Rooms
    BY <1>2, <1>7 DEF Switch, InLobby, Lobby
  <2>2. PICK r \in Rooms : Ask([Request("switchGet", page.selected, NoMatch) EXCEPT !.from = r])
    BY <1>7 DEF Switch
  <2> DEFINE q == [Request("switchGet", page.selected, NoMatch) EXCEPT !.from = r]
  <2>3. q \in RequestSet
    BY <2>1, NoViewTyped DEF Request, RequestSet, Ops, Reads, Changes, NoMatch
  <2>4. /\ q.op = "switchGet" /\ q.room = page.selected /\ q.from = r /\ q.live /\ ~ q.ok
        /\ q.answer = NoView
    BY DEF Request
  <2> HIDE DEF q
  <2>5. RequestSound(q, page.selected, where) /\ Enables(q)
    BY <2>1, <2>4, NoViewTyped DEF RequestSound, Enables, Syncs
  <2> QED
    BY <2>2, <2>3, <2>5, AskKeeps DEF q
<1>8. CASE ReturnToRoom
  <2> DEFINE refresh == Request("refresh", page.selected, NoMatch)
  <2>1. page.selected \in Rooms
    BY <1>2, <1>8 DEF ReturnToRoom
  <2>2. /\ page' = [page EXCEPT !.active = NoMatch, !.view = Idle, !.pending = TRUE]
        /\ requests' = {q \in requests : q.op \notin Syncs} \cup {refresh}
        /\ UNCHANGED <<server, home, where, over>>
    BY <1>8 DEF ReturnToRoom, Keeps
  <2>3. refresh \in RequestSet /\ RequestSound(refresh, page.selected, where) /\ Enables(refresh)
    BY <2>1, RefreshAsked
  <2> HIDE DEF refresh
  <2>4. /\ page' \in Pages /\ page'.selected = page.selected /\ page'.room = page.room
        /\ page'.active = NoMatch /\ page'.view = Idle
    BY <1>1, <2>2 DEF Pages, Outlooks, Idle, NoMatch
  <2>5. PageSound(page', where)
    BY <1>1, <2>4 DEF PageSound, Idle
  <2> QED
    BY <2>2, <2>3, <2>4, <2>5, SameRoom
<1> QED
  BY <1>3, <1>5, <1>6, <1>7, <1>8 DEF UserStep

LEMMA StepPreserves == PageInv /\ [Next]_vars => PageInv'
<1> SUFFICES ASSUME PageInv, [Next]_vars PROVE PageInv'
  OBVIOUS
<1>1. CASE UNCHANGED vars
  BY <1>1 DEF vars, PageInv, TypeOK, PendingHasRequest, Enables
<1>2. ASSUME NEW q \in requests, Serve(q) \/ Fail(q) \/ Misread(q) \/ Deliver(q)
      PROVE  PageInv'
  BY <1>2, ServePreserves, SpoiltPreserves, DeliverPreserves
<1>3. ASSUME NEW r \in Rooms, OthersChange(r) \/ OthersStart(r) \/ MatchEnds(r)
      PROVE  PageInv'
  BY <1>3, OthersPreserve
<1> QED
  BY <1>1, <1>2, <1>3, PollPreserves, MatchEventPreserves, UserPreserves DEF Next

LEMMA InitEstablishes == Init => PageInv
<1> SUFFICES ASSUME Init PROVE PageInv
  OBVIOUS
<1>1. page \in Pages /\ PageSound(page, where) /\ ~ page.pending
  BY NoViewTyped DEF Init, EmptyPage, Pages, Outlooks, PageSound, Idle, NoMatch
<1>2. TypeOK
  BY <1>1 DEF Init, TypeOK, Pages, Outlooks, NoMatch
<1> QED
  BY <1>1, <1>2 DEF Init, PageInv, ServerSound, PendingHasRequest

-----------------------------------------------------------------------------
(* Whatever the page shows or waits for belongs to the room of its         *)
(* address, and a request enables disabled buttons: the inductive          *)
(* invariant of the page.                                                  *)
THEOREM InvariantHolds == Spec => []PageInv
<1> QED BY InitEstablishes, StepPreserves, PTL DEF Spec

(* The state has its types: no answer of the server and no request has a   *)
(* room, match or version that is none.                                    *)
THEOREM TypeCorrect == Spec => []TypeOK
<1>1. PageInv => TypeOK
  BY DEF PageInv
<1> QED BY <1>1, InvariantHolds, PTL

(* The room on the page is the one of its address, whatever is answered    *)
(* late, out of order or not at all, and however often the user moves on.  *)
THEOREM RoomIsSelectedHolds == Spec => []RoomIsSelected
<1>1. PageInv => RoomIsSelected
  BY DEF PageInv, PageSound, RoomIsSelected
<1> QED BY <1>1, InvariantHolds, PTL

(* The match on the page is one of that room, although its synchronisation *)
(* is not asked which room it was for.                                     *)
THEOREM MatchShownOfRoomHolds == Spec => []MatchShownOfRoom
<1>1. PageInv => MatchShownOfRoom
  BY DEF PageInv, PageSound, At, MatchShownOfRoom
<1> QED BY <1>1, InvariantHolds, PTL

(* No order of answers, failures and changes of the room leaves the page   *)
(* with disabled buttons and nothing that would enable them.               *)
THEOREM PendingHasRequestHolds == Spec => []PendingHasRequest
<1>1. PageInv => PendingHasRequest
  BY DEF PageInv
<1> QED BY <1>1, InvariantHolds, PTL

=============================================================================
