------------------------------- MODULE Rooms --------------------------------
(***************************************************************************)
(* Rooms, memberships, seats and the matches played in them:               *)
(* apps/api/src/rooms (room-service.ts, room-repository.ts,                *)
(* match-completion.ts) over the tables of prisma/schema.prisma.           *)
(*                                                                         *)
(* Every operation but one locks its room row, reads the room and writes   *)
(* it back in one transaction, so it is one step here, and a refused one   *)
(* is none.  createRoom is different: it reads the user's old room without *)
(* a lock and later overwrites it from what it read.  It takes two steps,  *)
(* and anything may happen in between.                                     *)
(***************************************************************************)
EXTENDS Naturals, Sequences

CONSTANTS
  Users,
  Rooms,       \* bound: the keys rooms can get; the ones not created yet are NEW
  Seats,       \* seat indexes (0..3 in the code)
  Capacity,    \* most members of a room (4)
  Creations,   \* concurrent executions of createRoom
  MaxMatches   \* bound: matches ever started

NoRoom == "no room"
Empty  == "empty"
Bot    == "bot"
NoMatch == 0

ASSUME RoomsAssumption ==
  /\ NoRoom \notin Rooms /\ Empty \notin Users /\ Bot \notin Users
  /\ Seats \subseteq Nat
  /\ Capacity \in Nat \ {0} /\ MaxMatches \in Nat \ {0}

VARIABLES
  rooms,       \* Room, RoomSeat and RoomMembership rows of each room
  matches,     \* Match rows, in the order they were created
  creating,    \* createRoom -> the user and what it has read
  overwritten  \* history: the rooms createRoom has changed behind the back of others

vars == <<rooms, matches, creating, overwritten>>

-----------------------------------------------------------------------------
(* A room. *)

NoSeats == [s \in Seats |-> Empty]

NewRoom == [status |-> "NEW", version |-> 0, members |-> <<>>, seats |-> NoSeats,
            ready |-> {}, current |-> NoMatch]

IsMember(room, user) == \E i \in 1 .. Len(room.members) : room.members[i] = user
IsHost(room, user)   == room.members # <<>> /\ room.members[1] = user

(* Faulty IsOpen: a room in its match passes. *)
IsNotClosed(room) == room.status \in {"WAITING", "ACTIVE"}

IsOpen(room)         == room.status = "WAITING" /\ room.current = NoMatch
IsBusy(room)         == room.status = "ACTIVE" \/ room.current # NoMatch

Seated(room)          == {s \in Seats : room.seats[s] # Empty}
SeatedHumans(room)    == {s \in Seats : room.seats[s] \in Users}
SeatsOf(room, user)   == {s \in Seats : room.seats[s] = user}

(* The members but for the one who leaves, in the order they joined. *)
Without(members, user) ==
  LET at == CHOOSE i \in 1 .. Len(members) : members[i] = user
  IN  [i \in 1 .. (Len(members) - 1) |-> IF i < at THEN members[i] ELSE members[i + 1]]

Vacate(room, seats) ==
  [room EXCEPT !.seats = [s \in Seats |-> IF s \in seats THEN Empty ELSE room.seats[s]],
               !.ready = @ \ seats]

(* Faulty Bump: the version stays. *)
SameVersion(room) == room

Bump(room) == [room EXCEPT !.version = @ + 1]

Fresh        == {r \in Rooms : rooms[r].status = "NEW"}
RoomOf(user) == {r \in Rooms : IsMember(rooms[r], user)}

IsActive(m) == m \in 1 .. Len(matches) /\ matches[m].status = "ACTIVE"
Players(m)  == {matches[m].lineup[s] : s \in Seats} \intersect Users

-----------------------------------------------------------------------------
(* No room exists yet, or one is left over whose match has ended without   *)
(* releasing it: createRoom and deleteRoom know how to repair such a room. *)
StaleRoom(user, seats) ==
  [status |-> "ACTIVE", version |-> 1, members |-> <<user>>, seats |-> seats,
   ready |-> Seated([seats |-> seats]), current |-> 1]

(* No createRoom is running. *)
Idle == [user |-> Empty, room |-> NoRoom, read |-> NewRoom]

Init ==
  /\ creating = [c \in Creations |-> Idle]
  /\ overwritten = {}
  /\ \/ rooms = [r \in Rooms |-> NewRoom] /\ matches = <<>>
     \/ \E r \in Rooms, u \in Users, s, b \in Seats :
          LET lineup == [NoSeats EXCEPT ![s] = u, ![b] = Bot]
          IN  /\ s # b
              /\ rooms = [[q \in Rooms |-> NewRoom] EXCEPT ![r] = StaleRoom(u, lineup)]
              /\ matches = <<[room |-> r, status |-> "FINISHED", lineup |-> lineup]>>

-----------------------------------------------------------------------------
(* The operations under the row lock of their room.                        *)

Save(r, room) ==
  /\ rooms' = [rooms EXCEPT ![r] = room]
  /\ UNCHANGED <<creating, overwritten>>

JoinRoom(u, r) ==
  /\ IsOpen(rooms[r])
  /\ Len(rooms[r].members) < Capacity
  /\ RoomOf(u) = {}
  /\ Save(r, Bump([rooms[r] EXCEPT !.members = Append(@, u)]))
  /\ UNCHANGED matches

TakeSeat(u, r, s) ==
  /\ IsMember(rooms[r], u) /\ IsOpen(rooms[r])
  /\ SeatsOf(rooms[r], u) = {} /\ rooms[r].seats[s] = Empty
  /\ Save(r, Bump([rooms[r] EXCEPT !.seats[s] = u, !.ready = @ \ {s}]))
  /\ UNCHANGED matches

LeaveSeat(u, r) ==
  /\ IsMember(rooms[r], u) /\ IsOpen(rooms[r])
  /\ SeatsOf(rooms[r], u) # {}
  /\ Save(r, Bump(Vacate(rooms[r], SeatsOf(rooms[r], u))))
  /\ UNCHANGED matches

SetReady(u, r, ready) ==
  /\ IsMember(rooms[r], u) /\ IsOpen(rooms[r])
  /\ \E s \in SeatsOf(rooms[r], u) :
       /\ (s \in rooms[r].ready) # ready
       /\ Save(r, Bump([rooms[r] EXCEPT !.ready = IF ready THEN @ \union {s} ELSE @ \ {s}]))
  /\ UNCHANGED matches

LeaveRoom(u, r) ==
  /\ IsMember(rooms[r], u) /\ ~ IsBusy(rooms[r])
  /\ Save(r, Bump([Vacate(rooms[r], SeatsOf(rooms[r], u)) EXCEPT !.members = Without(@, u)]))
  /\ UNCHANGED matches

AddBot(u, r, s) ==
  /\ IsHost(rooms[r], u) /\ IsOpen(rooms[r])
  /\ rooms[r].seats[s] = Empty
  /\ Save(r, Bump([rooms[r] EXCEPT !.seats[s] = Bot, !.ready = @ \union {s}]))
  /\ UNCHANGED matches

RemoveBot(u, r, s) ==
  /\ IsHost(rooms[r], u) /\ IsOpen(rooms[r])
  /\ rooms[r].seats[s] = Bot
  /\ Save(r, Bump(Vacate(rooms[r], {s})))
  /\ UNCHANGED matches

(* A room released from its match: everybody must get ready again.         *)
Released(room) == Bump([room EXCEPT !.status = "WAITING", !.current = NoMatch, !.ready = {}])

Closed(room) == [Vacate(room, Seats) EXCEPT !.status = "CLOSED", !.current = NoMatch]

DeleteRoom(u, r) ==
  LET repaired == IF IsBusy(rooms[r]) THEN Released(rooms[r]) ELSE rooms[r]
  IN  /\ IsHost(rooms[r], u) /\ rooms[r].status # "CLOSED"
      /\ ~ IsActive(rooms[r].current)
      /\ Save(r, Bump([Closed(repaired) EXCEPT !.members = <<>>]))
      /\ UNCHANGED matches

CanStart(u, r) ==
  /\ IsMember(rooms[r], u) /\ IsOpen(rooms[r])
  /\ SeatsOf(rooms[r], u) # {}
  /\ \E s, t \in Seated(rooms[r]) : s # t
  /\ SeatedHumans(rooms[r]) \subseteq rooms[r].ready

StartMatch(u, r) ==
  /\ CanStart(u, r)
  /\ Len(matches) < MaxMatches
  /\ matches' = Append(matches, [room |-> r, status |-> "ACTIVE", lineup |-> rooms[r].seats])
  /\ Save(r, Bump([rooms[r] EXCEPT !.status = "ACTIVE", !.current = Len(matches')]))

(* Faulty ReleaseRoom: whatever the room plays now. *)
ReleaseAnyMatch(m) ==
  LET r == matches[m].room IN rooms' = [rooms EXCEPT ![r] = Released(rooms[r])]

(* The room is released only from the match it points to.                  *)
ReleaseRoom(m) ==
  LET r == matches[m].room
  IN  rooms' = IF rooms[r].current = m THEN [rooms EXCEPT ![r] = Released(rooms[r])] ELSE rooms

(* The terminal command of a match, in the transaction that stores it.     *)
FinishMatch(m) ==
  /\ IsActive(m)
  /\ matches' = [matches EXCEPT ![m].status = "FINISHED"]
  /\ ReleaseRoom(m)
  /\ UNCHANGED <<creating, overwritten>>

-----------------------------------------------------------------------------
(* createRoom.  First the membership and the old room are read; a user who *)
(* plays in the current match of that room gets no further.                *)

CreateRead(c, u) ==
  /\ creating[c] = Idle /\ Fresh # {}
  /\ \/ /\ RoomOf(u) = {}
        /\ creating' = [creating EXCEPT ![c] = [user |-> u, room |-> NoRoom, read |-> NewRoom]]
     \/ \E r \in RoomOf(u) :
          /\ ~ (IsActive(rooms[r].current) /\ u \in Players(rooms[r].current))
          /\ creating' = [creating EXCEPT ![c] = [user |-> u, room |-> r, read |-> rooms[r]]]
  /\ UNCHANGED <<rooms, matches, overwritten>>

(* What the old room is overwritten with: repaired if it was in a match,   *)
(* without the user's seat, closed if the user was its only member.        *)
Rewritten(room, read, u) ==
  LET base == IF IsBusy(read) THEN [Released(read) EXCEPT !.members = room.members] ELSE read
      next == Bump(Vacate(base, SeatsOf(base, u)))
  IN  IF base.status = "CLOSED" THEN room
      ELSE [IF Len(base.members) <= 1 THEN Closed(next) ELSE next
              EXCEPT !.members = room.members]

(* Faulty SeatsAllowed: no foreign key ties a seat to a membership. *)
AnySeats(room, next) == TRUE

(* What the foreign key of a seat on its membership and the unique index   *)
(* on its user let through, the seats being written one by one.            *)
SeatsAllowed(room, next) ==
  /\ \A s \in SeatedHumans(next) : IsMember(room, next.seats[s])
  /\ \A s \in SeatedHumans(next), t \in Seats :
       s < t => room.seats[t] # next.seats[s]

(* Then the old room is overwritten, the membership the user has by now is *)
(* deleted, and the new room is created with the user as its only member.  *)
CreateWrite(c) ==
  LET u    == creating[c].user
      r    == creating[c].room
      next == Rewritten(rooms[r], creating[c].read, u)
  IN  /\ u # Empty
      /\ \E fresh \in Fresh :
           LET created == [NewRoom EXCEPT !.status = "WAITING", !.members = <<u>>]
           IN  \/ /\ r = NoRoom /\ RoomOf(u) = {}
                  /\ rooms' = [rooms EXCEPT ![fresh] = created]
                  /\ UNCHANGED overwritten
               \/ \E old \in RoomOf(u) :
                    LET saved == [rooms EXCEPT ![r] = next]
                    IN  /\ r # NoRoom
                        /\ next # rooms[r] => SeatsAllowed(rooms[r], next)
                        /\ SeatsOf(saved[old], u) = {}
                        /\ rooms' = [saved EXCEPT ![old].members = Without(@, u),
                                                  ![fresh] = created]
                        /\ overwritten' = overwritten
                             \union (IF rooms[r] # creating[c].read \/ IsActive(rooms[r].current)
                                     THEN {r} ELSE {})
                             \union (IF old # r THEN {old} ELSE {})
      /\ creating' = [creating EXCEPT ![c] = Idle]
      /\ UNCHANGED matches

(* A constraint is violated, or the transaction times out: nothing happened. *)
CreateAborts(c) ==
  /\ creating[c] # Idle
  /\ creating' = [creating EXCEPT ![c] = Idle]
  /\ UNCHANGED <<rooms, matches, overwritten>>

Next ==
  \/ \E u \in Users, r \in Rooms :
       \/ JoinRoom(u, r) \/ LeaveRoom(u, r) \/ DeleteRoom(u, r)
       \/ LeaveSeat(u, r) \/ StartMatch(u, r)
       \/ \E ready \in BOOLEAN : SetReady(u, r, ready)
       \/ \E s \in Seats : TakeSeat(u, r, s) \/ AddBot(u, r, s) \/ RemoveBot(u, r, s)
  \/ \E m \in 1 .. Len(matches) : FinishMatch(m)
  \/ \E c \in Creations : CreateWrite(c) \/ CreateAborts(c) \/ \E u \in Users : CreateRead(c, u)

Spec == Init /\ [][Next]_vars

-----------------------------------------------------------------------------
(* Properties. *)

RoomRecord ==
  [status : {"NEW", "WAITING", "ACTIVE", "CLOSED"}, version : Nat,
   members : Seq(Users), seats : [Seats -> Users \union {Bot, Empty}],
   ready : SUBSET Seats, current : 0 .. MaxMatches]

MatchRecord ==
  [room : Rooms, status : {"ACTIVE", "FINISHED"}, lineup : [Seats -> Users \union {Bot, Empty}]]

(* Types, and the check constraint of the database: a room is ACTIVE       *)
(* exactly while it points to a match.                                     *)
TypeOK ==
  /\ rooms \in [Rooms -> RoomRecord]
  /\ matches \in Seq(MatchRecord)
  /\ creating \in [Creations -> [user : Users \union {Empty}, room : Rooms \union {NoRoom},
                                 read : RoomRecord]]
  /\ overwritten \in SUBSET Rooms
  /\ \A r \in Rooms : rooms[r].status = "ACTIVE" <=> rooms[r].current # NoMatch
  /\ \A r \in Rooms : rooms[r].current \in 0 .. Len(matches)

(* Whatever createRoom writes from a stale read: a human on a seat is a    *)
(* member of that very room, sits once, and belongs to one room only.      *)
SeatsAreMembers ==
  /\ \A u \in Users : \A q, r \in RoomOf(u) : q = r
  /\ \A r \in Rooms : \A s \in SeatedHumans(rooms[r]) :
       /\ IsMember(rooms[r], rooms[r].seats[s])
       /\ SeatsOf(rooms[r], rooms[r].seats[s]) = {s}

(* A READY mark never outlives its participant.                            *)
ReadyMeansSeated == \A r \in Rooms : rooms[r].ready \subseteq Seated(rooms[r])

(* Until createRoom overwrites the room, an active match has its room, and *)
(* its players keep the seats they started from: nobody joins, leaves or   *)
(* moves, and no second match starts under the first.                      *)
MatchKeepsItsRoom ==
  \A m \in 1 .. Len(matches) :
    LET room == rooms[matches[m].room]
    IN  IsActive(m) /\ matches[m].room \notin overwritten
          => room.current = m /\ room.seats = matches[m].lineup

(* A room lets go of its match only because that match has finished, or by *)
(* a step of createRoom: an old match that finishes late never takes a     *)
(* newer one of the same room with it.                                     *)
NoForeignRelease ==
  [][\A r \in Rooms :
       rooms[r].current # NoMatch /\ rooms'[r].current # rooms[r].current =>
         \/ matches'[rooms[r].current].status = "FINISHED"
         \/ creating' # creating]_vars

(* A client that sends the version it saw acts on what it saw: whatever    *)
(* changes in a room raises its version, until createRoom overwrites it.   *)
VersionTellsChanges ==
  [][\A r \in Rooms :
       rooms'[r] # rooms[r] /\ rooms[r].status # "NEW" /\ r \notin overwritten' =>
         rooms'[r].version > rooms[r].version]_vars

(* A closed room stays closed and empty, until createRoom overwrites it.   *)
ClosedForGood ==
  [][\A r \in Rooms \ overwritten' :
       rooms[r].status = "CLOSED" => rooms'[r] = rooms[r]]_vars

=============================================================================
