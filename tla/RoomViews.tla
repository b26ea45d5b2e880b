------------------------------ MODULE RoomViews -----------------------------
(***************************************************************************)
(* What the server tells a user about a room, what the page offers the     *)
(* user to do there, and what the server answers: domain.ts, the checks of *)
(* room-service.ts, routes.ts, packages/shared/src/rooms.ts, room-api.ts   *)
(* and the lobbies of page.tsx, over the rooms of Rooms.                   *)
(*                                                                         *)
(* Presence is a set of connected users that comes and goes without a      *)
(* rule, and the flag of the solo debug mode is either: the definitions    *)
(* take them as parameters.                                                *)
(***************************************************************************)
EXTENDS Rooms, FiniteSets

(* The code has four seats.                                                *)
ASSUME SeatsAssumption == Seats \subseteq 0 .. 3

None    == "none"     \* no refusal, no kind
OK      == "OK"
Invalid == "INVALID_RESPONSE"

Kind(occupant) == CASE occupant = Empty -> None [] occupant = Bot -> "BOT" [] OTHER -> "HUMAN"

(* The first check that fails gives the code.                              *)
Check(holds, code) == IF holds THEN None ELSE code

refusal ?? next == IF refusal = None THEN next ELSE refusal

-----------------------------------------------------------------------------
(* The view of a room (domain.ts).                                         *)

Counts(room) ==
  [memberCount |-> Len(room.members), seatedCount |-> Cardinality(Seated(room)),
   readyCount |-> Cardinality(Seated(room) \cap room.ready)]

EnoughPlayers(room) == Cardinality(Seated(room)) \in 2 .. 4

(* Faulty AllReady: bots have to be marked, too. *)
EverySeatReady(room) == EnoughPlayers(room) /\ Seated(room) \subseteq room.ready

AllReady(room) ==
  EnoughPlayers(room) /\ \A s \in Seated(room) : room.seats[s] = Bot \/ s \in room.ready

AllConnected(room, connected) ==
  EnoughPlayers(room) /\ \A s \in SeatedHumans(room) : room.seats[s] \in connected

Alone(room, u) == Seated(room) # {} /\ \A s \in Seated(room) : room.seats[s] = u

SoloReady(room, u, connected, solo) ==
  solo /\ Alone(room, u) /\ Seated(room) \subseteq room.ready /\ u \in connected

MayStart(room, u, connected, solo) ==
  (AllReady(room) /\ AllConnected(room, connected)) \/ SoloReady(room, u, connected, solo)

StartBlockedReason(room, u, connected, solo) ==
  Check(IsMember(room, u), "NOT_ROOM_MEMBER")
  ?? Check(room.status # "CLOSED", "ROOM_CLOSED")
  ?? Check(IsOpen(room), "ROOM_ALREADY_ACTIVE")
  ?? Check(SeatsOf(room, u) # {}, "SEAT_NOT_OWNED")
  ?? Check(AllReady(room) \/ SoloReady(room, u, connected, solo), "ROOM_NOT_READY")
  ?? Check(AllConnected(room, connected) \/ SoloReady(room, u, connected, solo),
           "SEATED_PARTICIPANT_DISCONNECTED")

(* The seat index of the code, or null, is a set of one seat or none.      *)
CurrentUser(room, u, connected, solo) ==
  [isMember |-> IsMember(room, u),
   seatIndex |-> SeatsOf(room, u),
   ready |-> SeatsOf(room, u) \cap room.ready # {},
   canLeave |-> IsMember(room, u) /\ ~IsBusy(room),
   canStart |-> /\ IsMember(room, u) /\ SeatsOf(room, u) # {} /\ IsOpen(room)
                /\ MayStart(room, u, connected, solo),
   canManageBots |-> IsOpen(room) /\ IsHost(room, u),
   startBlockedReason |-> StartBlockedReason(room, u, connected, solo)]

(* toRoomState.  A seat says who sits there, whether a human or a bot.      *)
RoomState(r, room, u, connected, solo) ==
  [id |-> r, status |-> room.status, version |-> room.version,
   currentMatchId |-> room.current, members |-> room.members,
   seats |-> [s \in Seats |-> [participant |-> room.seats[s], kind |-> Kind(room.seats[s]),
                               ready |-> s \in room.ready]],
   counts |-> Counts(room), currentUser |-> CurrentUser(room, u, connected, solo)]

RoomSummary(r) ==
  [id |-> r, status |-> rooms[r].status, currentMatchId |-> rooms[r].current,
   counts |-> Counts(rooms[r])]

(* loadView: the service adds who is connected. *)
LoadView(r, room, u, connected, solo) ==
  LET state == RoomState(r, room, u, connected, solo)
  IN  [f \in DOMAIN state \cup {"presence"} |->
         IF f = "presence" THEN [i \in 1 .. Len(room.members) |-> room.members[i] \in connected]
         ELSE state[f]]

(* toRoomStateResponse: the routes that only read take it out again. *)
ToRoomStateResponse(view) == [f \in DOMAIN view \ {"presence"} |-> view[f]]

-----------------------------------------------------------------------------
(* The requests of the page (room-api.ts), and what the service says.      *)

(* seat: a set of one seat, or of none.  The page makes its requests of the *)
(* room it shows, commands with the version of its view.                   *)
Request(op, seat, ready) == [op |-> op, seat |-> seat, ready |-> ready]

Plain(op)   == Request(op, {}, FALSE)
Seat(op, s) == Request(op, {s}, FALSE)
Ready(ready) == Request("setReady", {}, ready)

Reads      == {"get", "reconnect"}
SeatOps    == {"takeSeat", "addBot", "removeBot"}
Commands   == SeatOps \cup {"join", "leaveSeat", "setReady", "leaveRoom", "deleteRoom", "start"}
OtherOps   == {"invite", "chat"}

AllRequests ==
  {Seat(op, s) : op \in SeatOps, s \in Seats} \cup {Ready(ready) : ready \in BOOLEAN}
  \cup {Plain(op) : op \in Reads \cup (Commands \ (SeatOps \cup {"setReady"})) \cup OtherOps}

MemberChecks(room, u) == Check(IsMember(room, u), "NOT_ROOM_MEMBER")
HostChecks(room, u)   == MemberChecks(room, u) ?? Check(IsHost(room, u), "NOT_ALLOWED")

OpenChecks(room) ==
  Check(room.status # "CLOSED", "ROOM_CLOSED") ?? Check(IsOpen(room), "ROOM_ALREADY_ACTIVE")

VersionChecks(room, version) == Check(room.version = version, "STALE_ROOM_VERSION")

JoinChecks(room, u, elsewhere) ==
  IF IsMember(room, u) THEN None
  ELSE OpenChecks(room)
       ?? Check(Len(room.members) < Capacity, "ROOM_FULL")
       ?? Check(~elsewhere, "USER_ALREADY_IN_ANOTHER_ROOM")

(* Whoever asks for the seat he has gets it, at any version.               *)
TakeSeatChecks(room, u, q, version) ==
  MemberChecks(room, u) ?? OpenChecks(room)
  ?? (IF q.seat \subseteq SeatsOf(room, u) THEN None
      ELSE VersionChecks(room, version)
           ?? Check(SeatsOf(room, u) = {}, "SEAT_TAKEN")
           ?? Check(q.seat \cap Seated(room) = {}, "SEAT_TAKEN"))

LeaveSeatChecks(room, u, version) ==
  MemberChecks(room, u) ?? OpenChecks(room) ?? VersionChecks(room, version)

SetReadyChecks(room, u, version) ==
  MemberChecks(room, u) ?? OpenChecks(room) ?? VersionChecks(room, version)
  ?? Check(SeatsOf(room, u) # {}, "SEAT_NOT_OWNED")

LeaveRoomChecks(room, u, version) ==
  MemberChecks(room, u) ?? Check(~IsBusy(room), "ROOM_ALREADY_ACTIVE")
  ?? VersionChecks(room, version)

(* A match that is not ACTIVE any more does not keep the room. *)
DeleteRoomChecks(room, u, version) ==
  HostChecks(room, u) ?? Check(room.status # "CLOSED", "ROOM_CLOSED")
  ?? VersionChecks(room, version)
  ?? Check(IsBusy(room) => ~IsActive(room.current), "ROOM_ALREADY_ACTIVE")

BotChecks(room, u, q, version) ==
  HostChecks(room, u) ?? OpenChecks(room) ?? VersionChecks(room, version)
  ?? (IF q.op = "addBot" THEN Check(q.seat \cap Seated(room) = {}, "SEAT_TAKEN")
      ELSE Check(\A s \in q.seat : room.seats[s] = Bot, "SEAT_NOT_OWNED"))

StartChecks(room, u, version, connected, solo) ==
  MemberChecks(room, u) ?? OpenChecks(room) ?? VersionChecks(room, version)
  ?? Check(SeatsOf(room, u) # {}, "SEAT_NOT_OWNED")
  ?? Check(Cardinality(Seated(room)) >= 2 \/ (solo /\ Alone(room, u)), "ROOM_NOT_READY")
  ?? Check(SeatedHumans(room) # {}, "ROOM_NOT_READY")
  ?? Check(Cardinality(Seated(room)) <= 4, "ROOM_FULL")
  ?? Check(SeatedHumans(room) \subseteq room.ready, "ROOM_NOT_READY")
  ?? Check(\A s \in SeatedHumans(room) : room.seats[s] \in connected,
           "SEATED_PARTICIPANT_DISCONNECTED")

InviteChecks(room, u) == OpenChecks(room) ?? MemberChecks(room, u)

Checks(room, u, q, version, connected, solo, elsewhere) ==
  CASE q.op \in Reads               -> Check(room.status # "CLOSED", "ROOM_NOT_FOUND")
    [] q.op = "join"                -> JoinChecks(room, u, elsewhere)
    [] q.op = "takeSeat"            -> TakeSeatChecks(room, u, q, version)
    [] q.op = "leaveSeat"           -> LeaveSeatChecks(room, u, version)
    [] q.op = "setReady"            -> SetReadyChecks(room, u, version)
    [] q.op = "leaveRoom"           -> LeaveRoomChecks(room, u, version)
    [] q.op = "deleteRoom"          -> DeleteRoomChecks(room, u, version)
    [] q.op \in {"addBot", "removeBot"} -> BotChecks(room, u, q, version)
    [] q.op = "start"               -> StartChecks(room, u, version, connected, solo)
    [] q.op = "invite"              -> InviteChecks(room, u)
    [] q.op = "chat"                -> MemberChecks(room, u)

(* A room without a row is not found; for the chat nobody is its member.   *)
RefusalIn(room, u, q, version, connected, solo, elsewhere) ==
  IF room.status = "NEW" /\ q.op # "chat" THEN "ROOM_NOT_FOUND"
  ELSE Checks(room, u, q, version, connected, solo, elsewhere)

Refusal(u, r, q, version, connected, solo) ==
  RefusalIn(rooms[r], u, q, version, connected, solo, RoomOf(u) \ {r} # {})

(* What is accepted and leaves the room as it was. *)
NoChange(room, u, q) ==
  \/ q.op \in Reads \cup OtherOps
  \/ q.op = "join" /\ IsMember(room, u)
  \/ q.op = "takeSeat" /\ q.seat \subseteq SeatsOf(room, u)
  \/ q.op = "leaveSeat" /\ SeatsOf(room, u) = {}
  \/ q.op = "setReady" /\ \A s \in SeatsOf(room, u) : (s \in room.ready) = q.ready

-----------------------------------------------------------------------------
(* HTTP: the status and the body of an answer, and what the page reads.    *)

RoomStatus(code) ==
  CASE code = "ROOM_NOT_FOUND" -> 404
    [] code \in {"NOT_ALLOWED", "SEAT_NOT_OWNED", "NOT_ROOM_MEMBER"} -> 403
    [] OTHER -> 409

RoomErrorCodes ==
  {"ROOM_NOT_FOUND", "ROOM_ALREADY_ACTIVE", "ROOM_NOT_READY", "ROOM_FULL", "ROOM_CLOSED",
   "SEAT_TAKEN", "SEAT_NOT_OWNED", "SEATED_PARTICIPANT_DISCONNECTED", "STALE_ROOM_VERSION",
   "NOT_ALLOWED", "NOT_ROOM_MEMBER", "USER_ALREADY_IN_ANOTHER_ROOM"}

InviteErrorCodes ==
  {"INVITE_NOT_FOUND", "INVITE_EXPIRED", "INVITE_REVOKED", "ROOM_NOT_FOUND", "ROOM_CLOSED",
   "ROOM_ALREADY_ACTIVE", "NOT_ROOM_MEMBER", "VALIDATION_ERROR"}

RoomStateFields ==
  {"id", "status", "version", "currentMatchId", "members", "seats", "counts", "currentUser"}

(* roomStateSchema: strict, so nothing may be missing and nothing added.   *)
FitsRoomState(view) ==
  /\ DOMAIN view = RoomStateFields
  /\ view.status \in {"WAITING", "ACTIVE", "CLOSED"} /\ view.version \in Nat
  /\ DOMAIN view.seats = Seats
  /\ view.counts.memberCount >= 0 /\ view.counts.seatedCount \in 0 .. 4
  /\ view.counts.readyCount \in 0 .. 4
  /\ view.currentUser.seatIndex \in SUBSET Seats

(* code: the refusal, or None; view: what loadView makes of the room.      *)
Answer(q, code, view) ==
  IF code # None THEN [status |-> RoomStatus(code), code |-> code, view |-> << >>]
  ELSE [status |-> 200, code |-> None,
        view |-> IF q.op \in Reads THEN ToRoomStateResponse(view) ELSE view]

(* parse: the code of a refusal the schemas know, OK for a body they fit,  *)
(* and INVALID_RESPONSE for everything else.                               *)
PageReads(q, answer) ==
  IF answer.status # 200
  THEN IF answer.code \in RoomErrorCodes \cup InviteErrorCodes THEN answer.code ELSE Invalid
  ELSE IF q.op \in OtherOps \/ FitsRoomState(answer.view) THEN OK ELSE Invalid

-----------------------------------------------------------------------------
(* The list of rooms, and the room the user is a member of.                *)

ListRooms == {RoomSummary(r) : r \in {r \in Rooms : rooms[r].status \in {"WAITING", "ACTIVE"}}}

MembershipRoom(u) == RoomOf(u)

(* The answer to POST /api/rooms by r, the room createRoom comes back with: *)
(* a new one, or the one of the match the user plays.                      *)
CreateRoomAnswer(r, u) ==
  IF IsBusy(rooms[r])
  THEN [ok |-> FALSE, kind |-> "ACTIVE_MATCH_EXISTS", roomId |-> r, matchId |-> rooms[r].current]
  ELSE [ok |-> TRUE, kind |-> "CREATED_NEW_ROOM", room |-> RoomState(r, rooms[r], u, {}, FALSE)]

-----------------------------------------------------------------------------
(* The lobbies of the page.  A button is the request it makes.             *)

(* The lobby is shown while the room has no match. *)
ShowsLobby(view) == view.currentMatchId = NoMatch

Conflict(view, u) == IF view.currentUser.isMember THEN {} ELSE MembershipRoom(u) \ {view.id}

When(condition, offers) == IF condition THEN offers ELSE {}

AvailableSeats(view) == {s \in Seats : view.seats[s].participant = Empty}

CanDelete(view) == view.currentUser.canManageBots /\ view.status = "WAITING" /\ ShowsLobby(view)

Join(view, u) == When(~view.currentUser.isMember /\ Conflict(view, u) = {}, {Plain("join")})

(* The own seat: getting ready or not, and leaving the seat. *)
OwnSeat(view) ==
  UNION {{Ready(~view.seats[s].ready), Plain("leaveSeat")} : s \in view.currentUser.seatIndex}

(* The bots' buttons on a slot (PlayerSlotCard, BotSeatControls).          *)
BotButtons(view, s) ==
  When(view.currentUser.canManageBots /\ view.status # "ACTIVE",
       CASE view.seats[s].kind = "BOT"   -> {Seat("removeBot", s)}
         [] view.seats[s].kind = "HUMAN" -> {}
         [] OTHER                        -> {Seat("addBot", s)})

(* RoomLobbyScreen.  A screen without secondary actions has a button to    *)
(* leave, the screen of a visitor among them.                              *)
OfferedCompact(view, u) ==
  LET me == view.currentUser
  IN  Join(view, u)
      \cup When(me.isMember /\ me.seatIndex = {},
                {Seat("takeSeat", s) : s \in AvailableSeats(view)})
      \cup When(me.canStart, {Plain("start")})
      \cup OwnSeat(view)
      \cup When(me.isMember, {Plain("invite")})
      \cup When(CanDelete(view), {Plain("deleteRoom")})
      \cup When(me.isMember \/ \A q \in Conflict(view, u) : IsBusy(rooms[q]), {Plain("leaveRoom")})
      \cup UNION {BotButtons(view, s) : s \in Seats}

(* The wide page knows members only: the seat of a bot looks free.         *)
OfferedWide(view, u) ==
  LET me == view.currentUser
      Member(s) == \E i \in 1 .. Len(view.members) : view.members[i] = view.seats[s].participant
  IN  Join(view, u)
      \cup When(me.isMember /\ me.seatIndex = {},
                {Seat("takeSeat", s) : s \in {s \in Seats : ~Member(s)}})
      \cup When(me.canStart, {Plain("start")})
      \cup OwnSeat(view)
      \cup When(CanDelete(view), {Plain("deleteRoom")})
      \cup When(me.isMember, {Plain("leaveRoom")})

(* The chat beside the board of a match. *)
OfferedChat(view) == When(view.currentUser.isMember, {Plain("chat")})

(* The button to leave the other room and join this one. *)
OffersSwitch(view, u) == \E q \in Conflict(view, u) : ~IsBusy(rooms[q])

(* leaveRoom in the one, and then joinRoom in the other: the first refusal. *)
SwitchRefusal(view, u) ==
  LET q     == CHOOSE q \in Conflict(view, u) : TRUE
      get   == Refusal(u, q, Plain("get"), 0, {}, FALSE)
      leave == Refusal(u, q, Plain("leaveRoom"), rooms[q].version, {}, FALSE)
      join  == RefusalIn(rooms[view.id], u, Plain("join"), 0, {}, FALSE, FALSE)
  IN  get ?? leave ?? join

-----------------------------------------------------------------------------
(* Properties. *)

(* What a lobby offers and the server refuses: a place in a full room, and *)
(* on the small screen leaving a room one is not in; on the wide one a     *)
(* seat a bot sits on.                                                     *)
RefusedCompact(view) ==
  When(Len(view.members) >= Capacity, {Plain("join")})
  \cup When(~view.currentUser.isMember, {Plain("leaveRoom")})

RefusedWide(view) ==
  When(Len(view.members) >= Capacity, {Plain("join")})
  \cup {Seat("takeSeat", s) : s \in {s \in Seats : view.seats[s].kind = "BOT"}}

(* A request made from another version of a room changes nothing, but for  *)
(* joining it.                                                             *)
LateIsHarmless(u, r) ==
  \A q \in AllRequests :
    Refusal(u, r, q, rooms[r].version + 1, {}, FALSE) = None =>
      NoChange(rooms[r], u, q) \/ q.op = "join"

(* The page reads a refusal as what it is, and the answer to a read; but    *)
(* not the answer to a command that was carried out, which has presence.   *)
PageUnderstands(u, r) ==
  LET full == LoadView(r, rooms[r], u, {}, FALSE)
  IN  \A q \in AllRequests :
        LET code == Refusal(u, r, q, rooms[r].version, {}, FALSE)
        IN  PageReads(q, Answer(q, code, full)) =
              IF code # None THEN code ELSE IF q.op \in Commands THEN Invalid ELSE OK

LobbyAgrees(u, view, can) ==
  LET small == OfferedCompact(view, u)
      wide  == OfferedWide(view, u)
  IN  /\ view.currentUser.canLeave <=> Plain("leaveRoom") \in can
      /\ {q \in can : ~NoChange(rooms[view.id], u, q) \/ q.op = "invite"} \subseteq small
      /\ small \ can = small \cap RefusedCompact(view)
      /\ wide \ can = wide \cap RefusedWide(view)
      /\ OffersSwitch(view, u) /\ MembershipRoom(u) \cap overwritten = {} =>
           SwitchRefusal(view, u) \in {None, "ROOM_FULL"}

(* A member finds his room in the list and can open it, unless createRoom  *)
(* overwrote it; and who presses the button for a new room is told of the  *)
(* match he plays, or gets a room the page can read.                       *)
ListAgrees(u, r) ==
  r \in MembershipRoom(u) \ overwritten =>
    LET answer == CreateRoomAnswer(r, u)
    IN  /\ RoomSummary(r) \in ListRooms
        /\ Refusal(u, r, Plain("get"), 0, {}, FALSE) = None
        /\ IF IsActive(rooms[r].current)
           THEN answer.kind = "ACTIVE_MATCH_EXISTS" /\ matches[answer.matchId].room = r
           ELSE ~IsBusy(rooms[r]) => FitsRoomState(answer.room)

(* quiet: what is accepted whoever is connected. *)
ViewAgrees(u, r, quiet, connected, solo) ==
  LET view  == ToRoomStateResponse(LoadView(r, rooms[r], u, connected, solo))
      start == Refusal(u, r, Plain("start"), rooms[r].version, connected, solo)
      can   == quiet \cup When(start = None, {Plain("start")})
  IN  /\ FitsRoomState(view)
      /\ OfferedChat(view) = can \cap {Plain("chat")}
      /\ view.currentUser.canStart <=> start = None
      /\ ~(solo /\ Alone(rooms[r], u)) => view.currentUser.startBlockedReason = start
      /\ ShowsLobby(view) => LobbyAgrees(u, view, can)

(* A creation can abort, so every room there is while one runs there is    *)
(* while none does.                                                        *)
NoneCreating == \A c \in Creations : creating[c] = Idle

(* Whoever is connected, the lobby and the service agree on every room: on *)
(* a small screen the user is offered whatever the service would accept    *)
(* and change the room by, and nothing the service refuses but the buttons *)
(* named above; the view says that the match can start exactly if it can,  *)
(* and otherwise the very reason the service would give; chat is open to   *)
(* the members the service lets in; a request made from another version of *)
(* the room changes nothing, but for joining it; the page reads a refusal  *)
(* as what it is, and every answer but those that carry presence; and a    *)
(* member finds his room in the list.  (buildCurrentUser and the lobbies    *)
(* repeat the rules of room-service.ts in other words.)                    *)
LobbyTellsTheTruth ==
  NoneCreating =>
    \A r \in {r \in Rooms : rooms[r].status # "NEW"}, u \in Users :
      LET quiet == {q \in AllRequests \ {Plain("start")} :
                      Refusal(u, r, q, rooms[r].version, {}, FALSE) = None}
      IN  /\ LateIsHarmless(u, r) /\ PageUnderstands(u, r) /\ ListAgrees(u, r)
          /\ rooms[r].status # "CLOSED" =>
               \A connected \in SUBSET {rooms[r].seats[s] : s \in SeatedHumans(rooms[r])},
                  solo \in BOOLEAN : ViewAgrees(u, r, quiet, connected, solo)

=============================================================================
