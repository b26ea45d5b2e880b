---------------------------- MODULE RoomsProofs -----------------------------
(***************************************************************************)
(* What Rooms promises for any number of users, rooms, seats, matches and  *)
(* concurrent executions of createRoom.  Every property is inductive only  *)
(* together with the others: the database constraints that bound what      *)
(* createRoom can write from a stale read speak of members, seats and      *)
(* marks at once.                                                          *)
(*                                                                         *)
(* The second half is about RoomViews: in every state of the invariant the *)
(* rules of the lobby and those of the service come to the same.           *)
(***************************************************************************)
EXTENDS RoomViews, SequenceTheorems, FiniteSetTheorems, TLAPS

(* One member once.                                                        *)
Joined(room) ==
  \A i, j \in 1 .. Len(room.members) : room.members[i] = room.members[j] => i = j

(* A seated human is a member and sits once.                               *)
SeatedOnce(room) ==
  \A s \in SeatedHumans(room) :
    IsMember(room, room.seats[s]) /\ SeatsOf(room, room.seats[s]) = {s}

(* What is true of every room, also of the one createRoom has read.        *)
Sound(room) ==
  /\ room \in RoomRecord
  /\ room.status = "ACTIVE" <=> room.current # NoMatch
  /\ room.status = "NEW" => room.members = <<>>
  /\ Joined(room)
  /\ SeatedOnce(room)
  /\ room.ready \subseteq Seated(room)

RoomsTyped == rooms = [r \in Rooms |-> rooms[r]]

RoomsSound == \A r \in Rooms : Sound(rooms[r])

MatchesTyped ==
  /\ matches \in Seq(MatchRecord)
  /\ Len(matches) \in 0 .. MaxMatches
  /\ \A r \in Rooms : rooms[r].current \in 0 .. Len(matches)

(* The match a room points to is a match of that room.                     *)
CurrentsOwn ==
  \A r \in Rooms : rooms[r].current # NoMatch => matches[rooms[r].current].room = r

OneRoomEach == \A u \in Users : \A q, r \in RoomOf(u) : q = r

(* Nobody is left in a closed room, until createRoom overwrites it.        *)
ClosedAndEmpty ==
  \A r \in Rooms \ overwritten : rooms[r].status = "CLOSED" => rooms[r].members = <<>>

(* Whoever read an old room was a member of it.                            *)
ReadsSound ==
  /\ overwritten \in SUBSET Rooms
  /\ creating \in [Creations -> [user : Users \union {Empty}, room : Rooms \union {NoRoom},
                                 read : RoomRecord]]
  /\ \A c \in Creations :
       /\ Sound(creating[c].read)
       /\ creating[c].room # NoRoom => IsMember(creating[c].read, creating[c].user)

RoomsInv ==
  /\ RoomsTyped /\ RoomsSound /\ MatchesTyped /\ CurrentsOwn /\ OneRoomEach
  /\ MatchKeepsItsRoom /\ ClosedAndEmpty /\ ReadsSound

-----------------------------------------------------------------------------
(* Lists of members.                                                       *)

LEMMA MembersWithout ==
  ASSUME NEW members \in Seq(Users), NEW u,
         \A i, j \in 1 .. Len(members) : members[i] = members[j] => i = j,
         NEW k \in 1 .. Len(members), members[k] = u
  PROVE  /\ Without(members, u) \in Seq(Users)
         /\ Len(Without(members, u)) = Len(members) - 1
         /\ \A i \in 1 .. Len(members) - 1 :
              Without(members, u)[i] = IF i < k THEN members[i] ELSE members[i + 1]
<1>1. (CHOOSE i \in 1 .. Len(members) : members[i] = u) = k
  OBVIOUS
<1>2. Without(members, u) =
        [i \in 1 .. (Len(members) - 1) |-> IF i < k THEN members[i] ELSE members[i + 1]]
  BY <1>1 DEF Without
<1>3. Len(members) - 1 \in Nat
  OBVIOUS
<1>4. \A i \in 1 .. Len(members) - 1 : (IF i < k THEN members[i] ELSE members[i + 1]) \in Users
  OBVIOUS
<1> QED
  BY <1>2, <1>3, <1>4

(* The one who leaves is gone, everybody else stays, once.                 *)
LEMMA LeavingMembers ==
  ASSUME NEW room, Joined(room), room.members \in Seq(Users),
         NEW u, IsMember(room, u),
         NEW left, left.members = Without(room.members, u)
  PROVE  /\ left.members \in Seq(Users)
         /\ Joined(left)
         /\ ~ IsMember(left, u)
         /\ \A v : v # u => (IsMember(left, v) <=> IsMember(room, v))
         /\ Len(room.members) <= 1 => left.members = <<>>
<1> PICK k \in 1 .. Len(room.members) : room.members[k] = u
  BY DEF IsMember
<1> DEFINE W == Without(room.members, u)
<1>1. /\ W \in Seq(Users)
      /\ Len(W) = Len(room.members) - 1
      /\ \A i \in 1 .. Len(room.members) - 1 :
           W[i] = IF i < k THEN room.members[i] ELSE room.members[i + 1]
  BY MembersWithout DEF Joined
<1>2. Joined(left)
  BY <1>1 DEF Joined
<1>3. ~ IsMember(left, u)
  BY <1>1 DEF Joined, IsMember
<1>4. ASSUME NEW v, v # u  PROVE IsMember(left, v) <=> IsMember(room, v)
  <2>1. ASSUME IsMember(left, v) PROVE IsMember(room, v)
    BY <1>1, <2>1 DEF IsMember
  <2>2. ASSUME IsMember(room, v) PROVE IsMember(left, v)
    <3> PICK i \in 1 .. Len(room.members) : room.members[i] = v
      BY <2>2 DEF IsMember
    <3>1. CASE i < k
      <4>1. W[i] = v /\ i \in 1 .. Len(W)
        BY <1>1, <3>1
      <4> QED
        BY <4>1 DEF IsMember
    <3>2. CASE i > k
      <4>1. W[i - 1] = v /\ i - 1 \in 1 .. Len(W)
        BY <1>1, <3>2
      <4> QED
        BY <4>1 DEF IsMember
    <3>3. i # k
      BY <1>4
    <3> QED
      BY <3>1, <3>2, <3>3
  <2> QED
    BY <2>1, <2>2
<1>5. Len(room.members) <= 1 => left.members = <<>>
  BY <1>1
<1> QED
  BY <1>1, <1>2, <1>3, <1>4, <1>5

-----------------------------------------------------------------------------
(* Rooms.                                                                  *)

(* What Vacate leaves alone, and what it does to seats and marks.          *)
LEMMA VacateFields ==
  ASSUME NEW room \in RoomRecord, NEW seats \in SUBSET Seats
  PROVE  /\ Vacate(room, seats) \in RoomRecord
         /\ Vacate(room, seats).status = room.status
         /\ Vacate(room, seats).version = room.version
         /\ Vacate(room, seats).members = room.members
         /\ Vacate(room, seats).current = room.current
         /\ Vacate(room, seats).seats =
              [s \in Seats |-> IF s \in seats THEN Empty ELSE room.seats[s]]
         /\ Vacate(room, seats).ready = room.ready \ seats
  BY DEF Vacate, RoomRecord

LEMMA BumpFields ==
  ASSUME NEW room \in RoomRecord
  PROVE  /\ Bump(room) \in RoomRecord
         /\ Bump(room).version = room.version + 1
         /\ Bump(room).status = room.status
         /\ Bump(room).members = room.members
         /\ Bump(room).current = room.current
         /\ Bump(room).seats = room.seats
         /\ Bump(room).ready = room.ready
  BY DEF Bump, RoomRecord

(* A record that differs in nothing but members, and keeps those seated.   *)
LEMMA SoundByParts ==
  ASSUME NEW room, Sound(room), NEW next \in RoomRecord,
         next.status = "ACTIVE" <=> next.current # NoMatch,
         next.status = "NEW" => next.members = <<>>,
         Joined(next),
         \A s \in Seats : next.seats[s] \in {room.seats[s], Empty, Bot},
         \A s \in SeatedHumans(next) : IsMember(next, next.seats[s]),
         next.ready \subseteq Seated(next)
  PROVE  Sound(next)
<1>1. ASSUME NEW s \in SeatedHumans(next)
      PROVE  SeatsOf(next, next.seats[s]) = {s}
  <2>1. next.seats[s] = room.seats[s] /\ s \in SeatedHumans(room)
    BY RoomsAssumption, <1>1 DEF SeatedHumans
  <2>2. SeatsOf(room, room.seats[s]) = {s}
    BY <2>1 DEF Sound, SeatedOnce
  <2>3. room.seats[s] \in Users
    BY <2>1 DEF SeatedHumans
  <2> QED
    BY <2>1, <2>2, <2>3, RoomsAssumption DEF SeatsOf, SeatedHumans
<1> QED
  BY <1>1 DEF Sound, SeatedOnce

LEMMA RecordWithMembers ==
  ASSUME NEW room \in RoomRecord, NEW members \in Seq(Users)
  PROVE  [room EXCEPT !.status = "WAITING", !.members = members] \in RoomRecord
  BY DEF RoomRecord

LEMMA EmptyRoomsAreSound ==
  /\ Sound(NewRoom)
  /\ \A u \in Users : Sound([NewRoom EXCEPT !.status = "WAITING", !.members = <<u>>])
<1>1. NewRoom \in RoomRecord
  BY RoomsAssumption DEF NewRoom, NoSeats, RoomRecord, NoMatch
<1>2. Sound(NewRoom)
  BY <1>1, RoomsAssumption
     DEF Sound, NewRoom, NoSeats, NoMatch, Joined, SeatedOnce, SeatedHumans
<1>3. ASSUME NEW u \in Users
      PROVE  Sound([NewRoom EXCEPT !.status = "WAITING", !.members = <<u>>])
  <2> DEFINE created == [NewRoom EXCEPT !.status = "WAITING", !.members = <<u>>]
  <2>1. /\ created.members = <<u>> /\ created.status = "WAITING" /\ created.current = NoMatch
        /\ created.seats = NoSeats /\ created.ready = {}
    BY DEF NewRoom
  <2>2. created \in RoomRecord
    <3>1. <<u>> \in Seq(Users)
      BY <1>3
    <3> QED
      BY <1>1, <3>1, RecordWithMembers
  <2> HIDE DEF created
  <2>3. SeatedHumans(created) = {}
    BY <2>1, RoomsAssumption DEF SeatedHumans, NoSeats
  <2>4. Joined(created)
    BY <2>1 DEF Joined
  <2>5. Sound(created)
    BY <2>1, <2>2, <2>3, <2>4 DEF Sound, SeatedOnce
  <2> QED
    BY <2>5 DEF created
<1> QED
  BY <1>2, <1>3

LEMMA VacatedIsSound ==
  ASSUME NEW room, Sound(room), NEW seats \in SUBSET Seats
  PROVE  Sound(Vacate(room, seats))
<1> DEFINE V == Vacate(room, seats)
<1>1. /\ V \in RoomRecord /\ V.status = room.status /\ V.members = room.members
      /\ V.current = room.current /\ V.ready = room.ready \ seats
      /\ V.seats = [s \in Seats |-> IF s \in seats THEN Empty ELSE room.seats[s]]
  BY VacateFields DEF Sound
<1> HIDE DEF V
<1>2. Joined(V)
  BY <1>1 DEF Sound, Joined
<1>3. \A s \in Seats : V.seats[s] \in {room.seats[s], Empty}
  BY <1>1
<1>4. \A s \in SeatedHumans(V) : s \in SeatedHumans(room) /\ V.seats[s] = room.seats[s]
  BY <1>3, RoomsAssumption DEF SeatedHumans
<1>5. \A s \in SeatedHumans(V) : IsMember(V, V.seats[s])
  BY <1>1, <1>4 DEF Sound, SeatedOnce, IsMember
<1>6. V.ready \subseteq Seated(V)
  BY <1>1 DEF Sound, Seated
<1>7. Sound(V)
  BY <1>1, <1>2, <1>3, <1>5, <1>6, SoundByParts DEF Sound
<1> QED
  BY <1>7 DEF V

LEMMA BumpedIsSound ==
  ASSUME NEW room, Sound(room)
  PROVE  Sound(Bump(room))
<1>1. room \in RoomRecord
  BY DEF Sound
<1>2. SeatedHumans(Bump(room)) = SeatedHumans(room) /\ Seated(Bump(room)) = Seated(room)
  BY <1>1, BumpFields DEF SeatedHumans, Seated
<1> QED
  BY <1>1, <1>2, BumpFields DEF Sound, Joined, SeatedOnce, IsMember, SeatsOf

(* Members may be replaced while everybody who sits stays one.             *)
LEMMA RememberedIsSound ==
  ASSUME NEW room, Sound(room), NEW members \in Seq(Users),
         NEW next, next = [room EXCEPT !.members = members],
         room.status = "NEW" => members = <<>>, Joined(next),
         \A s \in SeatedHumans(room) : IsMember(next, room.seats[s])
  PROVE  Sound(next)
<1>1. /\ next \in RoomRecord /\ next.members = members /\ next.seats = room.seats
      /\ next.status = room.status /\ next.current = room.current /\ next.ready = room.ready
  BY DEF Sound, RoomRecord
<1>2. SeatedHumans(next) = SeatedHumans(room) /\ Seated(next) = Seated(room)
  BY <1>1 DEF SeatedHumans, Seated
<1> QED
  BY <1>1, <1>2, SoundByParts DEF Sound

LEMMA ReleasedFields ==
  ASSUME NEW room \in RoomRecord
  PROVE  /\ Released(room) \in RoomRecord
         /\ Released(room).version = room.version + 1
         /\ Released(room).status = "WAITING"
         /\ Released(room).current = NoMatch
         /\ Released(room).members = room.members
         /\ Released(room).seats = room.seats
         /\ Released(room).ready = {}
<1> DEFINE W == [room EXCEPT !.status = "WAITING", !.current = NoMatch, !.ready = {}]
<1>1. W \in RoomRecord
  <2> DEFINE R == [room EXCEPT !.status = "WAITING"]
             Q == [R EXCEPT !.current = NoMatch]
  <2>1. R \in RoomRecord
    BY DEF RoomRecord
  <2>2. NoMatch \in 0 .. MaxMatches
    BY RoomsAssumption DEF NoMatch
  <2>3. W = [Q EXCEPT !.ready = {}]
    OBVIOUS
  <2> HIDE DEF R, W
  <2>4. Q \in RoomRecord
    BY <2>1, <2>2 DEF RoomRecord
  <2> HIDE DEF Q
  <2> QED
    BY <2>3, <2>4 DEF RoomRecord
<1>2. /\ W.status = "WAITING" /\ W.current = NoMatch /\ W.ready = {}
      /\ W.version = room.version /\ W.members = room.members /\ W.seats = room.seats
  BY DEF RoomRecord
<1>3. Released(room) = Bump(W)
  BY DEF Released
<1> HIDE DEF W
<1> QED
  BY <1>1, <1>2, <1>3, BumpFields

LEMMA ReleasedIsSound ==
  ASSUME NEW room, Sound(room)
  PROVE  Sound(Released(room))
<1>1. room \in RoomRecord
  BY DEF Sound
<1>2. SeatedHumans(Released(room)) = SeatedHumans(room)
  BY <1>1, ReleasedFields DEF SeatedHumans
<1> QED
  BY <1>1, <1>2, ReleasedFields DEF Sound, Joined, SeatedOnce, IsMember, SeatsOf

LEMMA ClosedFields ==
  ASSUME NEW room \in RoomRecord
  PROVE  /\ Closed(room) \in RoomRecord
         /\ Closed(room).status = "CLOSED"
         /\ Closed(room).current = NoMatch
         /\ Closed(room).version = room.version
         /\ Closed(room).members = room.members
         /\ \A s \in Seats : Closed(room).seats[s] = Empty
         /\ Closed(room).ready = {}
<1> DEFINE V == Vacate(room, Seats)
<1>1. /\ V \in RoomRecord /\ V.version = room.version /\ V.members = room.members
      /\ V.seats = [s \in Seats |-> IF s \in Seats THEN Empty ELSE room.seats[s]]
      /\ V.ready = room.ready \ Seats
  BY VacateFields
<1>2. V.ready = {}
  BY <1>1 DEF RoomRecord
<1>3. Closed(room) = [V EXCEPT !.status = "CLOSED", !.current = NoMatch]
  BY DEF Closed
<1> HIDE DEF V
<1>4. Closed(room) \in RoomRecord
  <2>1. Closed(room) = [status |-> "CLOSED", version |-> V.version, members |-> V.members,
                        seats |-> V.seats, ready |-> V.ready, current |-> NoMatch]
    BY <1>1, <1>3 DEF RoomRecord
  <2>2. NoMatch \in 0 .. MaxMatches
    BY RoomsAssumption DEF NoMatch
  <2> QED
    BY <1>1, <2>1, <2>2 DEF RoomRecord
<1>5. /\ Closed(room).status = "CLOSED" /\ Closed(room).current = NoMatch
      /\ Closed(room).version = V.version /\ Closed(room).members = V.members
      /\ Closed(room).seats = V.seats /\ Closed(room).ready = V.ready
  BY <1>1, <1>3 DEF RoomRecord
<1> QED
  BY <1>1, <1>2, <1>4, <1>5

LEMMA ClosedIsSound ==
  ASSUME NEW room, Sound(room)
  PROVE  Sound(Closed(room))
<1>1. room \in RoomRecord
  BY DEF Sound
<1>2. SeatedHumans(Closed(room)) = {}
  BY <1>1, ClosedFields, RoomsAssumption DEF SeatedHumans
<1> QED
  BY <1>1, <1>2, ClosedFields DEF Sound, Joined, SeatedOnce

-----------------------------------------------------------------------------
(* The operations on a room keep it sound.                                 *)

LEMMA JoiningIsSound ==
  ASSUME NEW room, Sound(room), NEW u \in Users, ~ IsMember(room, u), IsOpen(room)
  PROVE  Sound([room EXCEPT !.members = Append(@, u)])
<1> DEFINE next == [room EXCEPT !.members = Append(room.members, u)]
<1>1. Append(room.members, u) \in Seq(Users) /\ next.members = Append(room.members, u)
  BY DEF Sound, RoomRecord
<1>2. /\ Len(next.members) = Len(room.members) + 1
      /\ \A i \in 1 .. Len(room.members) : next.members[i] = room.members[i]
      /\ next.members[Len(room.members) + 1] = u
      /\ Len(room.members) \in Nat
  BY <1>1 DEF Sound, RoomRecord
<1>3. Joined(next)
  BY <1>2 DEF Sound, Joined, IsMember
<1>4. \A v : IsMember(room, v) => IsMember(next, v)
  BY <1>2 DEF IsMember
<1>5. \A s \in SeatedHumans(room) : IsMember(next, room.seats[s])
  BY <1>4 DEF Sound, SeatedOnce
<1>6. room.status # "NEW"
  BY DEF IsOpen
<1> QED
  BY <1>1, <1>3, <1>5, <1>6, RememberedIsSound

LEMMA TakingSeatIsSound ==
  ASSUME NEW room, Sound(room), NEW u \in Users, IsMember(room, u), SeatsOf(room, u) = {},
         NEW s \in Seats, room.seats[s] = Empty
  PROVE  Sound([room EXCEPT !.seats[s] = u, !.ready = @ \ {s}])
<1> DEFINE next == [room EXCEPT !.seats[s] = u, !.ready = room.ready \ {s}]
<1>1. /\ next \in RoomRecord /\ next.members = room.members /\ next.status = room.status
      /\ next.current = room.current /\ next.ready = room.ready \ {s}
      /\ \A t \in Seats : next.seats[t] = IF t = s THEN u ELSE room.seats[t]
  BY DEF Sound, RoomRecord
<1> HIDE DEF next
<1>2. SeatedHumans(next) = SeatedHumans(room) \union {s} /\ Seated(next) = Seated(room) \union {s}
  BY <1>1, RoomsAssumption DEF SeatedHumans, Seated
<1>3. SeatedOnce(next)
  <2> SUFFICES ASSUME NEW t \in SeatedHumans(next)
               PROVE  IsMember(next, next.seats[t]) /\ SeatsOf(next, next.seats[t]) = {t}
    BY DEF SeatedOnce
  <2>1. CASE t = s
    BY <1>1, <2>1 DEF IsMember, SeatsOf
  <2>2. CASE t # s
    <3>1. t \in SeatedHumans(room) /\ next.seats[t] = room.seats[t]
      BY <1>1, <1>2, <2>2 DEF SeatedHumans
    <3>2. IsMember(room, room.seats[t]) /\ SeatsOf(room, room.seats[t]) = {t} /\ room.seats[t] # u
      BY <3>1 DEF Sound, SeatedOnce, SeatsOf, SeatedHumans
    <3> QED
      BY <1>1, <2>2, <3>1, <3>2 DEF IsMember, SeatsOf
  <2> QED
    BY <2>1, <2>2
<1>4. Sound(next)
  BY <1>1, <1>2, <1>3 DEF Sound, Joined
<1> QED
  BY <1>4 DEF next

LEMMA BotIsSound ==
  ASSUME NEW room, Sound(room), NEW s \in Seats, room.seats[s] = Empty
  PROVE  Sound([room EXCEPT !.seats[s] = Bot, !.ready = @ \union {s}])
<1> DEFINE next == [room EXCEPT !.seats[s] = Bot, !.ready = room.ready \union {s}]
<1>1. /\ next \in RoomRecord /\ next.members = room.members /\ next.status = room.status
      /\ next.current = room.current /\ next.ready = room.ready \union {s}
      /\ \A t \in Seats : next.seats[t] = IF t = s THEN Bot ELSE room.seats[t]
  BY DEF Sound, RoomRecord
<1> HIDE DEF next
<1>2. SeatedHumans(next) = SeatedHumans(room)
  BY <1>1, RoomsAssumption DEF SeatedHumans
<1>3. Seated(next) = Seated(room) \union {s}
  BY <1>1 DEF Seated, Bot, Empty
<1>4. \A t \in SeatedHumans(next) : IsMember(next, next.seats[t])
  BY <1>1, <1>2, RoomsAssumption DEF Sound, SeatedOnce, IsMember, SeatedHumans
<1>5. Joined(next)
  BY <1>1 DEF Sound, Joined
<1>6. Sound(next)
  BY <1>1, <1>3, <1>4, <1>5, SoundByParts DEF Sound
<1> QED
  BY <1>6 DEF next

LEMMA MarkingIsSound ==
  ASSUME NEW room, Sound(room), NEW ready, ready \subseteq Seated(room)
  PROVE  Sound([room EXCEPT !.ready = ready])
<1> DEFINE next == [room EXCEPT !.ready = ready]
<1>1. /\ next \in RoomRecord /\ next.members = room.members /\ next.status = room.status
      /\ next.current = room.current /\ next.ready = ready /\ next.seats = room.seats
  BY DEF Sound, RoomRecord, Seated
<1> HIDE DEF next
<1>2. Sound(next)
  BY <1>1 DEF Sound, Joined, SeatedOnce, SeatedHumans, Seated, IsMember, SeatsOf
<1> QED
  BY <1>2 DEF next

LEMMA StartingIsSound ==
  ASSUME NEW room, Sound(room), NEW m \in 1 .. MaxMatches
  PROVE  Sound([room EXCEPT !.status = "ACTIVE", !.current = m])
<1> DEFINE next == [room EXCEPT !.status = "ACTIVE", !.current = m]
<1>1. /\ next \in RoomRecord /\ next.members = room.members /\ next.status = "ACTIVE"
      /\ next.current = m /\ next.ready = room.ready /\ next.seats = room.seats
  <2> DEFINE R == [room EXCEPT !.status = "ACTIVE"]
  <2>1. /\ R \in RoomRecord /\ R.members = room.members /\ R.status = "ACTIVE"
        /\ R.ready = room.ready /\ R.seats = room.seats
    BY DEF Sound, RoomRecord
  <2>2. m \in 0 .. MaxMatches
    BY RoomsAssumption
  <2>3. next = [R EXCEPT !.current = m]
    OBVIOUS
  <2> HIDE DEF R, next
  <2> QED
    BY <2>1, <2>2, <2>3 DEF RoomRecord
<1> HIDE DEF next
<1>2. m # NoMatch
  BY DEF NoMatch
<1>3. Sound(next)
  BY <1>1, <1>2 DEF Sound, Joined, SeatedOnce, SeatedHumans, Seated, IsMember, SeatsOf
<1> QED
  BY <1>3 DEF next

(* Who leaves may not sit.                                                 *)
LEMMA LeavingIsSound ==
  ASSUME NEW room, Sound(room), NEW u, IsMember(room, u), SeatsOf(room, u) = {}
  PROVE  LET left == [room EXCEPT !.members = Without(@, u)]
         IN  /\ Sound(left)
             /\ ~ IsMember(left, u)
             /\ \A v : v # u => (IsMember(left, v) <=> IsMember(room, v))
             /\ Len(room.members) <= 1 => left.members = <<>>
<1> DEFINE left == [room EXCEPT !.members = Without(room.members, u)]
<1>1. left.members = Without(room.members, u) /\ room.members \in Seq(Users) /\ Joined(room)
  BY DEF Sound, RoomRecord
<1> HIDE DEF left
<1>2. /\ left.members \in Seq(Users) /\ Joined(left) /\ ~ IsMember(left, u)
      /\ \A v : v # u => (IsMember(left, v) <=> IsMember(room, v))
      /\ Len(room.members) <= 1 => left.members = <<>>
  BY <1>1, LeavingMembers
<1>3. \A s \in SeatedHumans(room) : room.seats[s] # u
  BY DEF SeatsOf, SeatedHumans
<1>4. \A s \in SeatedHumans(room) : IsMember(left, room.seats[s])
  BY <1>2, <1>3 DEF Sound, SeatedOnce
<1>5. room.status # "NEW"
  BY DEF Sound, IsMember
<1>6. Sound(left)
  BY <1>1, <1>2, <1>4, <1>5, RememberedIsSound DEF left
<1> QED
  BY <1>2, <1>6 DEF left

LEMMA DeletingIsSound ==
  ASSUME NEW room, Sound(room)
  PROVE  Sound([Closed(room) EXCEPT !.members = <<>>])
<1> DEFINE C == Closed(room)
           next == [C EXCEPT !.members = <<>>]
<1>1. Sound(C) /\ (\A s \in Seats : C.seats[s] = Empty)
  BY ClosedIsSound, ClosedFields DEF Sound
<1>2. SeatedHumans(C) = {}
  BY <1>1, RoomsAssumption DEF SeatedHumans
<1> HIDE DEF C
<1>3. next.members = <<>> /\ <<>> \in Seq(Users)
  BY <1>1 DEF Sound, RoomRecord
<1>4. Joined(next)
  BY <1>3 DEF Joined
<1>5. Sound(next)
  BY <1>1, <1>2, <1>3, <1>4, RememberedIsSound
<1> QED
  BY <1>5 DEF C

(* A room left over by a match that has ended.                             *)
LEMMA StaleRoomIsSound ==
  ASSUME NEW u \in Users, NEW s \in Seats, NEW b \in Seats, s # b,
         NEW seats, seats = [NoSeats EXCEPT ![s] = u, ![b] = Bot]
  PROVE  Sound(StaleRoom(u, seats)) /\ seats \in [Seats -> Users \union {Bot, Empty}]
<1>1. /\ seats \in [Seats -> Users \union {Bot, Empty}]
      /\ \A t \in Seats : seats[t] = IF t = s THEN u ELSE IF t = b THEN Bot ELSE Empty
  BY DEF NoSeats
<1> DEFINE R == StaleRoom(u, seats)
<1>2. /\ R.status = "ACTIVE" /\ R.version = 1 /\ R.members = <<u>> /\ R.seats = seats
      /\ R.ready = Seated([seats |-> seats]) /\ R.current = 1
  BY DEF StaleRoom
<1>3. R.ready = Seated(R)
  BY <1>2 DEF Seated
<1>4. R \in RoomRecord
  <2>1. /\ R = [status |-> "ACTIVE", version |-> 1, members |-> <<u>>, seats |-> seats,
                ready |-> Seated(R), current |-> 1]
        /\ 1 \in 0 .. MaxMatches /\ <<u>> \in Seq(Users) /\ Seated(R) \in SUBSET Seats
    BY <1>2, <1>3, RoomsAssumption DEF StaleRoom, Seated
  <2> HIDE DEF R
  <2>2. [status |-> "ACTIVE", version |-> 1, members |-> <<u>>, seats |-> seats,
         ready |-> Seated(R), current |-> 1] \in RoomRecord
    BY <1>1, <2>1 DEF RoomRecord
  <2> QED
    BY <2>1, <2>2
<1> HIDE DEF R
<1>5. SeatedHumans(R) = {s}
  BY <1>1, <1>2, RoomsAssumption DEF SeatedHumans
<1>6. SeatedOnce(R)
  <2>1. IsMember(R, u) /\ R.seats[s] = u
    BY <1>1, <1>2 DEF IsMember
  <2>2. SeatsOf(R, u) = {s}
    BY <1>1, <1>2, RoomsAssumption DEF SeatsOf
  <2> QED
    BY <1>5, <2>1, <2>2 DEF SeatedOnce
<1>7. Joined(R)
  BY <1>2 DEF Joined
<1>8. Sound(R)
  BY <1>2, <1>3, <1>4, <1>6, <1>7 DEF Sound, NoMatch
<1> QED
  BY <1>1, <1>8 DEF R

-----------------------------------------------------------------------------
(* What createRoom writes over a room from a read of another time.         *)

LEMMA RewrittenIsSound ==
  ASSUME NEW room, Sound(room), NEW read, Sound(read), NEW u \in Users, IsMember(read, u),
         Rewritten(room, read, u) # room => SeatsAllowed(room, Rewritten(room, read, u))
  PROVE  /\ Sound(Rewritten(room, read, u))
         /\ Rewritten(room, read, u).members = room.members
         /\ Rewritten(room, read, u) # room => Rewritten(room, read, u).current = NoMatch
<1> DEFINE repaired == [Released(read) EXCEPT !.members = room.members]
           base == IF IsBusy(read) THEN repaired ELSE read
           next == Bump(Vacate(base, SeatsOf(base, u)))
           kept == IF Len(base.members) <= 1 THEN Closed(next) ELSE next
           W == Rewritten(room, read, u)
<1>0. W = IF base.status = "CLOSED" THEN room ELSE [kept EXCEPT !.members = room.members]
  BY DEF Rewritten
<1>a. CASE W = room
  BY <1>a
<1>b. CASE W # room
  <2>1. W = [kept EXCEPT !.members = room.members] /\ SeatsAllowed(room, W)
    BY <1>0, <1>b
  <2>2. /\ base \in RoomRecord /\ base.current = NoMatch /\ base.status \notin {"ACTIVE", "NEW"}
        /\ base.seats = read.seats /\ base.ready \subseteq Seated(base)
    <3>1. CASE IsBusy(read)
      <4>1. /\ Released(read) \in RoomRecord /\ Released(read).status = "WAITING"
            /\ Released(read).current = NoMatch /\ Released(read).ready = {}
            /\ Released(read).seats = read.seats
        BY ReleasedFields DEF Sound
      <4>2. /\ repaired \in RoomRecord /\ repaired.status = "WAITING"
            /\ repaired.current = NoMatch /\ repaired.ready = {}
            /\ repaired.seats = read.seats
        BY <4>1 DEF Sound, RoomRecord
      <4> QED
        BY <3>1, <4>2
    <3>2. CASE ~ IsBusy(read)
      BY <3>2 DEF Sound, IsBusy, IsMember
    <3> QED
      BY <3>1, <3>2
  <2> HIDE DEF base
  <2>3. /\ Vacate(base, SeatsOf(base, u)) \in RoomRecord
        /\ Vacate(base, SeatsOf(base, u)).status = base.status
        /\ Vacate(base, SeatsOf(base, u)).current = base.current
        /\ Vacate(base, SeatsOf(base, u)).ready = base.ready \ SeatsOf(base, u)
        /\ Vacate(base, SeatsOf(base, u)).seats =
             [s \in Seats |-> IF s \in SeatsOf(base, u) THEN Empty ELSE base.seats[s]]
    BY <2>2, VacateFields DEF SeatsOf
  <2>4. /\ next \in RoomRecord /\ next.current = NoMatch /\ next.status \notin {"ACTIVE", "NEW"}
        /\ next.ready = base.ready \ SeatsOf(base, u)
        /\ \A s \in Seats : next.seats[s] = IF s \in SeatsOf(base, u) THEN Empty ELSE base.seats[s]
    BY <2>2, <2>3, BumpFields
  <2>5. next.ready \subseteq Seated(next)
    BY <2>2, <2>4 DEF Seated
  <2> HIDE DEF next
  <2>6. /\ kept \in RoomRecord /\ kept.current = NoMatch /\ kept.status \notin {"ACTIVE", "NEW"}
        /\ kept.ready \subseteq Seated(kept)
        /\ \A s \in Seats : kept.seats[s] \in {read.seats[s], Empty}
    BY <2>2, <2>4, <2>5, ClosedFields
  <2> HIDE DEF kept
  <2>7. /\ W \in RoomRecord /\ W.members = room.members /\ W.current = NoMatch
        /\ W.status \notin {"ACTIVE", "NEW"} /\ W.seats = kept.seats /\ W.ready = kept.ready
    BY <2>1, <2>6 DEF Sound, RoomRecord
  <2> HIDE DEF W
  <2>8. Joined(W)
    BY <2>7 DEF Sound, Joined
  <2>9. \A s \in SeatedHumans(W) : IsMember(W, W.seats[s])
    BY <2>1, <2>7 DEF SeatsAllowed, IsMember
  <2>10. W.ready \subseteq Seated(W)
    BY <2>6, <2>7 DEF Seated
  <2>11. Sound(W)
    BY <2>6, <2>7, <2>8, <2>9, <2>10, SoundByParts
  <2> QED
    BY <2>7, <2>11 DEF W
<1> QED
  BY <1>a, <1>b

LEMMA RewrittenFromNow ==
  ASSUME NEW room, Sound(room), NEW u \in Users
  PROVE  LET next == Rewritten(room, room, u)
         IN  /\ room.status = "CLOSED" => next = room
             /\ room.status # "CLOSED" => next.version > room.version
             /\ room.status # "CLOSED" /\ next.status = "CLOSED" => Len(room.members) <= 1
<1> DEFINE repaired == [Released(room) EXCEPT !.members = room.members]
           base == IF IsBusy(room) THEN repaired ELSE room
           next == Bump(Vacate(base, SeatsOf(base, u)))
           kept == IF Len(base.members) <= 1 THEN Closed(next) ELSE next
           W == Rewritten(room, room, u)
<1>1. W = IF base.status = "CLOSED" THEN room ELSE [kept EXCEPT !.members = room.members]
  BY DEF Rewritten
<1>2. /\ base \in RoomRecord /\ base.members = room.members /\ base.version >= room.version
      /\ base.status = "CLOSED" <=> room.status = "CLOSED"
      /\ room.version \in Nat
  <2>1. room \in RoomRecord /\ room.version \in Nat
    BY DEF Sound, RoomRecord
  <2>2. CASE IsBusy(room)
    <3>1. /\ Released(room) \in RoomRecord /\ Released(room).status = "WAITING"
          /\ Released(room).version = room.version + 1
      BY <2>1, ReleasedFields
    <3>2. /\ repaired \in RoomRecord /\ repaired.status = "WAITING"
          /\ repaired.version = room.version + 1 /\ repaired.members = room.members
      BY <2>1, <3>1 DEF RoomRecord
    <3>3. room.status # "CLOSED"
      BY <2>2 DEF Sound, IsBusy
    <3> QED
      BY <2>1, <2>2, <3>2, <3>3
  <2>3. CASE ~ IsBusy(room)
    BY <2>1, <2>3
  <2> QED
    BY <2>2, <2>3
<1> HIDE DEF base
<1>3. /\ Vacate(base, SeatsOf(base, u)) \in RoomRecord
      /\ Vacate(base, SeatsOf(base, u)).version = base.version
      /\ Vacate(base, SeatsOf(base, u)).status = base.status
  BY <1>2, VacateFields DEF SeatsOf
<1>4. next \in RoomRecord /\ next.version = base.version + 1 /\ next.status = base.status
  BY <1>3, BumpFields
<1> HIDE DEF next
<1>5. /\ kept \in RoomRecord /\ kept.version = base.version + 1
      /\ kept.status = "CLOSED" /\ base.status # "CLOSED" => Len(base.members) <= 1
  BY <1>4, ClosedFields
<1> HIDE DEF kept
<1>6. ASSUME base.status # "CLOSED"
      PROVE  W.version = kept.version /\ W.status = kept.status
  BY <1>1, <1>5, <1>6 DEF RoomRecord
<1>7. base.version \in Nat
  BY <1>2 DEF RoomRecord
<1> HIDE DEF W
<1>8. /\ room.status = "CLOSED" => W = room
      /\ room.status # "CLOSED" => W.version > room.version
      /\ room.status # "CLOSED" /\ W.status = "CLOSED" => Len(room.members) <= 1
  BY <1>1, <1>2, <1>5, <1>6, <1>7
<1> QED
  BY <1>8 DEF W

-----------------------------------------------------------------------------
(* Steps of the system.                                                    *)

ReleasedByRight ==
  \A r \in Rooms :
    rooms[r].current # NoMatch /\ rooms'[r].current # rooms[r].current =>
      \/ matches'[rooms[r].current].status = "FINISHED"
      \/ creating' # creating

VersionRises ==
  \A r \in Rooms :
    rooms'[r] # rooms[r] /\ rooms[r].status # "NEW" /\ r \notin overwritten' =>
      rooms'[r].version > rooms[r].version

ClosedStays ==
  \A r \in Rooms \ overwritten' : rooms[r].status = "CLOSED" => rooms'[r] = rooms[r]

SafeStep == RoomsInv' /\ ReleasedByRight /\ VersionRises /\ ClosedStays

LEMMA MatchTyped ==
  ASSUME RoomsInv, NEW m \in 1 .. Len(matches)
  PROVE  /\ matches[m] \in MatchRecord
         /\ matches[m].room \in Rooms
<1>1. matches[m] \in MatchRecord
  BY ElementOfSeq DEF RoomsInv, MatchesTyped
<1> QED
  BY <1>1 DEF MatchRecord

(* Rooms keep or let go of their matches, and matches their rooms.         *)
LEMMA OwnStays ==
  ASSUME RoomsInv, \A q \in Rooms : rooms'[q].current \in {NoMatch, rooms[q].current},
         \A m \in 1 .. Len(matches) : matches'[m].room = matches[m].room
  PROVE  CurrentsOwn'
<1>1. \A q \in Rooms : rooms[q].current # NoMatch =>
        rooms[q].current \in 1 .. Len(matches) /\ matches[rooms[q].current].room = q
  BY DEF RoomsInv, MatchesTyped, CurrentsOwn, NoMatch
<1> QED
  BY <1>1 DEF CurrentsOwn

(* A match that has ended has ended, whoever still points to it.           *)
LEMMA EndedMatch ==
  ASSUME RoomsInv, NEW r \in Rooms, ~ IsActive(rooms[r].current), rooms[r].current # NoMatch
  PROVE  matches[rooms[r].current].status = "FINISHED"
<1>1. rooms[r].current \in 1 .. Len(matches)
  BY DEF RoomsInv, MatchesTyped, NoMatch
<1>2. matches[rooms[r].current] \in MatchRecord
  BY <1>1, ElementOfSeq DEF RoomsInv, MatchesTyped
<1> QED
  BY <1>1, <1>2 DEF IsActive, MatchRecord

(* An operation under the row lock of a room that is in no match.          *)
LEMMA SavingIsSafe ==
  ASSUME RoomsInv, NEW r \in Rooms, NEW next, Sound(next), Save(r, next), matches' = matches,
         ~ IsActive(rooms[r].current),
         next.current \in {NoMatch, rooms[r].current},
         next.version > rooms[r].version,
         rooms[r].status = "CLOSED" => r \in overwritten,
         next.status = "CLOSED" => r \in overwritten \/ next.members = <<>>,
         \A u \in Users : IsMember(next, u) => IsMember(rooms[r], u) \/ RoomOf(u) = {}
  PROVE  SafeStep
<1>1. /\ rooms'[r] = next
      /\ \A q \in Rooms : q # r => rooms'[q] = rooms[q]
      /\ creating' = creating /\ overwritten' = overwritten
  <2>1. rooms' = [rooms EXCEPT ![r] = next] /\ UNCHANGED <<creating, overwritten>>
    BY DEF Save
  <2>2. DOMAIN rooms = Rooms
    BY DEF RoomsInv, RoomsTyped
  <2> QED
    BY <2>1, <2>2
<1>2. RoomsSound'
  BY <1>1 DEF RoomsInv, RoomsSound
<1>3. MatchesTyped'
  BY <1>1 DEF RoomsInv, MatchesTyped, NoMatch
<1>4. OneRoomEach'
  <2> SUFFICES ASSUME NEW u \in Users, NEW p \in Rooms, NEW q \in Rooms,
                      IsMember(rooms'[p], u), IsMember(rooms'[q], u)
               PROVE  p = q
    BY DEF OneRoomEach, RoomOf
  <2>1. IsMember(rooms[p], u) /\ IsMember(rooms[q], u) => p = q
    BY DEF RoomsInv, OneRoomEach, RoomOf
  <2>2. \A x \in Rooms : RoomOf(u) = {} => ~ IsMember(rooms[x], u)
    BY DEF RoomOf
  <2> QED
    BY <1>1, <2>1, <2>2
<1>5. MatchKeepsItsRoom'
  <2> SUFFICES ASSUME NEW m \in 1 .. Len(matches), IsActive(m), matches[m].room \notin overwritten
               PROVE  /\ rooms'[matches[m].room].current = m
                      /\ rooms'[matches[m].room].seats = matches[m].lineup
    BY <1>1 DEF MatchKeepsItsRoom, IsActive
  <2>1. /\ rooms[matches[m].room].current = m
        /\ rooms[matches[m].room].seats = matches[m].lineup
    BY DEF RoomsInv, MatchKeepsItsRoom
  <2>2. matches[m].room \in Rooms
    BY MatchTyped
  <2>3. matches[m].room # r
    BY <2>1
  <2> QED
    BY <1>1, <2>1, <2>2, <2>3
<1>6. ClosedAndEmpty'
  BY <1>1 DEF RoomsInv, ClosedAndEmpty
<1>7. ReadsSound'
  BY <1>1 DEF RoomsInv, ReadsSound
<1>8. ReleasedByRight
  BY <1>1, EndedMatch DEF ReleasedByRight
<1>9. VersionRises /\ ClosedStays
  BY <1>1 DEF VersionRises, ClosedStays
<1>10. RoomsTyped'
  BY DEF Save, RoomsInv, RoomsTyped
<1>11. CurrentsOwn'
  BY <1>1, OwnStays
<1> QED
  BY <1>2, <1>3, <1>4, <1>5, <1>6, <1>7, <1>8, <1>9, <1>10, <1>11 DEF SafeStep, RoomsInv

(* What the actions under the row lock need to know of their room.         *)
LEMMA OpenRoom ==
  ASSUME RoomsInv, NEW r \in Rooms
  PROVE  /\ Sound(rooms[r]) /\ rooms[r] \in RoomRecord
         /\ IsOpen(rooms[r]) \/ ~ IsBusy(rooms[r]) =>
              ~ IsActive(rooms[r].current) /\ rooms[r].current = NoMatch
         /\ IsOpen(rooms[r]) => rooms[r].status # "CLOSED"
BY DEF RoomsInv, RoomsSound, Sound, IsOpen, IsBusy, IsActive, NoMatch

(* A room that is bumped once more than it was.                            *)
LEMMA BumpedNext ==
  ASSUME NEW room, NEW next, Sound(next), next.version = room.version, Sound(room)
  PROVE  /\ Sound(Bump(next))
         /\ Bump(next).version > room.version
         /\ Bump(next).status = next.status
         /\ Bump(next).current = next.current
         /\ Bump(next).members = next.members
<1>1. next \in RoomRecord /\ room.version \in Nat
  BY DEF Sound, RoomRecord
<1> QED
  BY <1>1, BumpFields, BumpedIsSound

LEMMA JoinRoomIsSafe ==
  ASSUME RoomsInv, NEW u \in Users, NEW r \in Rooms, JoinRoom(u, r)
  PROVE  SafeStep
<1> DEFINE next == [rooms[r] EXCEPT !.members = Append(@, u)]
<1>1. ~ IsMember(rooms[r], u) /\ RoomOf(u) = {} /\ IsOpen(rooms[r])
  BY DEF JoinRoom, RoomOf
<1>2. Sound(next)
  BY <1>1, OpenRoom, JoiningIsSound
<1>3. /\ next.version = rooms[r].version /\ next.status = rooms[r].status
      /\ next.current = rooms[r].current /\ next.members = Append(rooms[r].members, u)
  BY OpenRoom DEF RoomRecord
<1>4. Save(r, Bump(next)) /\ matches' = matches
  BY DEF JoinRoom
<1>5. \A v \in Users : IsMember(next, v) => IsMember(rooms[r], v) \/ RoomOf(v) = {}
  <2>1. rooms[r].members \in Seq(Users)
    BY OpenRoom DEF RoomRecord
  <2>2. \A i \in 1 .. Len(next.members) :
          next.members[i] = u \/ (i \in 1 .. Len(rooms[r].members)
                                  /\ next.members[i] = rooms[r].members[i])
    BY <1>3, <2>1
  <2> QED
    BY <1>1, <2>2 DEF IsMember
<1> HIDE DEF next
<1>6. \A v \in Users : IsMember(Bump(next), v) => IsMember(rooms[r], v) \/ RoomOf(v) = {}
  <2>1. Bump(next).members = next.members
    BY <1>2, <1>3, OpenRoom, BumpedNext
  <2> QED
    BY <1>5, <2>1 DEF IsMember
<1> QED
  BY <1>1, <1>2, <1>3, <1>4, <1>6, OpenRoom, BumpedNext, SavingIsSafe

(* The operations that change seats and marks only.                        *)
LEMMA SeatingIsSafe ==
  ASSUME RoomsInv, NEW r \in Rooms, NEW next, Sound(next), IsOpen(rooms[r]),
         next.version = rooms[r].version, next.status = rooms[r].status,
         next.current = rooms[r].current, next.members = rooms[r].members,
         Save(r, Bump(next)), matches' = matches
  PROVE  SafeStep
<1>1. \A v \in Users : IsMember(Bump(next), v) => IsMember(rooms[r], v)
  BY OpenRoom, BumpedNext DEF IsMember
<1> QED
  BY <1>1, OpenRoom, BumpedNext, SavingIsSafe

LEMMA TakeSeatIsSafe ==
  ASSUME RoomsInv, NEW u \in Users, NEW r \in Rooms, NEW s \in Seats, TakeSeat(u, r, s)
  PROVE  SafeStep
<1> DEFINE next == [rooms[r] EXCEPT !.seats[s] = u, !.ready = @ \ {s}]
<1>1. Sound(next)
  BY OpenRoom, TakingSeatIsSound DEF TakeSeat
<1>2. /\ next.version = rooms[r].version /\ next.status = rooms[r].status
      /\ next.current = rooms[r].current /\ next.members = rooms[r].members
  BY OpenRoom DEF RoomRecord
<1>3. Save(r, Bump(next)) /\ matches' = matches /\ IsOpen(rooms[r])
  BY DEF TakeSeat
<1> HIDE DEF next
<1> QED
  BY <1>1, <1>2, <1>3, SeatingIsSafe

LEMMA AddBotIsSafe ==
  ASSUME RoomsInv, NEW u \in Users, NEW r \in Rooms, NEW s \in Seats, AddBot(u, r, s)
  PROVE  SafeStep
<1> DEFINE next == [rooms[r] EXCEPT !.seats[s] = Bot, !.ready = @ \union {s}]
<1>1. Sound(next)
  BY OpenRoom, BotIsSound DEF AddBot
<1>2. /\ next.version = rooms[r].version /\ next.status = rooms[r].status
      /\ next.current = rooms[r].current /\ next.members = rooms[r].members
  BY OpenRoom DEF RoomRecord
<1>3. Save(r, Bump(next)) /\ matches' = matches /\ IsOpen(rooms[r])
  BY DEF AddBot
<1> HIDE DEF next
<1> QED
  BY <1>1, <1>2, <1>3, SeatingIsSafe

LEMMA SetReadyIsSafe ==
  ASSUME RoomsInv, NEW u \in Users, NEW r \in Rooms, NEW ready \in BOOLEAN, SetReady(u, r, ready)
  PROVE  SafeStep
<1> PICK s \in SeatsOf(rooms[r], u) :
      Save(r, Bump([rooms[r] EXCEPT !.ready = IF ready THEN @ \union {s} ELSE @ \ {s}]))
  BY DEF SetReady
<1> DEFINE next == [rooms[r] EXCEPT !.ready = IF ready THEN @ \union {s} ELSE @ \ {s}]
<1>1. s \in Seated(rooms[r])
  BY RoomsAssumption DEF SeatsOf, Seated
<1>2. Sound(next)
  BY <1>1, OpenRoom, MarkingIsSound DEF Sound
<1>3. /\ next.version = rooms[r].version /\ next.status = rooms[r].status
      /\ next.current = rooms[r].current /\ next.members = rooms[r].members
  BY OpenRoom DEF RoomRecord
<1>4. Save(r, Bump(next)) /\ matches' = matches /\ IsOpen(rooms[r])
  BY DEF SetReady
<1> HIDE DEF next
<1> QED
  BY <1>2, <1>3, <1>4, SeatingIsSafe

LEMMA VacatingIsSafe ==
  ASSUME RoomsInv, NEW r \in Rooms, NEW seats \in SUBSET Seats, IsOpen(rooms[r]),
         Save(r, Bump(Vacate(rooms[r], seats))), matches' = matches
  PROVE  SafeStep
<1> DEFINE next == Vacate(rooms[r], seats)
<1>1. Sound(next)
  BY OpenRoom, VacatedIsSound
<1>2. /\ next.version = rooms[r].version /\ next.status = rooms[r].status
      /\ next.current = rooms[r].current /\ next.members = rooms[r].members
  BY OpenRoom, VacateFields
<1> HIDE DEF next
<1> QED
  BY <1>1, <1>2, SeatingIsSafe DEF next

LEMMA LeaveSeatIsSafe ==
  ASSUME RoomsInv, NEW u \in Users, NEW r \in Rooms, LeaveSeat(u, r)
  PROVE  SafeStep
BY VacatingIsSafe DEF LeaveSeat, SeatsOf

LEMMA RemoveBotIsSafe ==
  ASSUME RoomsInv, NEW u \in Users, NEW r \in Rooms, NEW s \in Seats, RemoveBot(u, r, s)
  PROVE  SafeStep
BY VacatingIsSafe DEF RemoveBot

LEMMA LeaveRoomIsSafe ==
  ASSUME RoomsInv, NEW u \in Users, NEW r \in Rooms, LeaveRoom(u, r)
  PROVE  SafeStep
<1> DEFINE V == Vacate(rooms[r], SeatsOf(rooms[r], u))
           next == [V EXCEPT !.members = Without(@, u)]
<1>1. /\ IsMember(rooms[r], u) /\ ~ IsBusy(rooms[r])
      /\ Save(r, Bump(next)) /\ matches' = matches
  BY DEF LeaveRoom
<1>2. /\ Sound(V) /\ V.version = rooms[r].version /\ V.status = rooms[r].status
      /\ V.current = rooms[r].current /\ V.members = rooms[r].members
      /\ V.seats = [s \in Seats |-> IF s \in SeatsOf(rooms[r], u) THEN Empty ELSE rooms[r].seats[s]]
  BY OpenRoom, VacatedIsSound, VacateFields DEF SeatsOf
<1>3. SeatsOf(V, u) = {} /\ IsMember(V, u)
  BY <1>1, <1>2, RoomsAssumption DEF SeatsOf, IsMember
<1> HIDE DEF V
<1>4. /\ Sound(next) /\ \A v : IsMember(next, v) => IsMember(V, v)
  BY <1>2, <1>3, LeavingIsSound
<1>5. /\ next.version = rooms[r].version /\ next.status = rooms[r].status
      /\ next.current = rooms[r].current
  BY <1>2 DEF Sound, RoomRecord
<1> HIDE DEF next
<1>6. /\ Sound(Bump(next)) /\ Bump(next).version > rooms[r].version
      /\ Bump(next).status = rooms[r].status /\ Bump(next).current = rooms[r].current
      /\ Bump(next).members = next.members
  BY <1>4, <1>5, OpenRoom, BumpedNext
<1>7. \A v \in Users : IsMember(Bump(next), v) => IsMember(rooms[r], v)
  BY <1>2, <1>4, <1>6 DEF IsMember
<1>8. rooms[r].status = "CLOSED" => r \in overwritten
  BY <1>1 DEF RoomsInv, ClosedAndEmpty, IsMember
<1> QED
  BY <1>1, <1>6, <1>7, <1>8, OpenRoom, SavingIsSafe

LEMMA DeleteRoomIsSafe ==
  ASSUME RoomsInv, NEW u \in Users, NEW r \in Rooms, DeleteRoom(u, r)
  PROVE  SafeStep
<1> DEFINE repaired == IF IsBusy(rooms[r]) THEN Released(rooms[r]) ELSE rooms[r]
           next == [Closed(repaired) EXCEPT !.members = <<>>]
<1>1. /\ rooms[r].status # "CLOSED" /\ ~ IsActive(rooms[r].current)
      /\ Save(r, Bump(next)) /\ matches' = matches
  BY DEF DeleteRoom
<1>2. Sound(repaired) /\ repaired.version >= rooms[r].version /\ repaired.version \in Nat
      /\ rooms[r].version \in Nat
  BY OpenRoom, ReleasedIsSound, ReleasedFields DEF RoomRecord
<1> HIDE DEF repaired
<1>3. /\ Closed(repaired) \in RoomRecord /\ Closed(repaired).version = repaired.version
      /\ Closed(repaired).current = NoMatch
  BY <1>2, ClosedFields DEF Sound
<1>4. Sound(next)
  BY <1>2, DeletingIsSound
<1>5. next.version = repaired.version /\ next.current = NoMatch /\ next.members = <<>>
  BY <1>3 DEF RoomRecord
<1> HIDE DEF next
<1>6. /\ Sound(Bump(next)) /\ Bump(next).version = repaired.version + 1
      /\ Bump(next).current = NoMatch /\ Bump(next).members = <<>>
  BY <1>4, <1>5, BumpFields, BumpedIsSound DEF Sound
<1>7. \A v : ~ IsMember(Bump(next), v)
  BY <1>6 DEF IsMember
<1> QED
  BY <1>1, <1>2, <1>6, <1>7, SavingIsSafe

LEMMA StartMatchIsSafe ==
  ASSUME RoomsInv, NEW u \in Users, NEW r \in Rooms, StartMatch(u, r)
  PROVE  SafeStep
<1> DEFINE id == Len(matches) + 1
           match == [room |-> r, status |-> "ACTIVE", lineup |-> rooms[r].seats]
           next == [rooms[r] EXCEPT !.status = "ACTIVE", !.current = id]
<1>1. /\ matches \in Seq(MatchRecord) /\ id \in 1 .. MaxMatches /\ Len(matches) \in Nat
      /\ matches' = Append(matches, match) /\ Len(matches') = id
  <2>1. matches \in Seq(MatchRecord) /\ Len(matches) \in Nat /\ Len(matches) < MaxMatches
    BY DEF StartMatch, RoomsInv, MatchesTyped
  <2>2. matches' = Append(matches, match)
    BY DEF StartMatch
  <2>3. id \in 1 .. MaxMatches
    BY <2>1, RoomsAssumption
  <2>4. Len(Append(matches, match)) = id
    BY <2>1
  <2> QED
    BY <2>1, <2>2, <2>3, <2>4
<1>2. match \in MatchRecord
  BY OpenRoom DEF MatchRecord, RoomRecord
<1>3. /\ matches' \in Seq(MatchRecord)
      /\ \A m \in 1 .. Len(matches) : matches'[m] = matches[m]
      /\ matches'[id] = match
  BY <1>1, <1>2
<1>4. Sound(next)
  BY <1>1, OpenRoom, StartingIsSound
<1>5. /\ next.version = rooms[r].version /\ next.status = "ACTIVE"
      /\ next.current = id /\ next.members = rooms[r].members /\ next.seats = rooms[r].seats
  BY OpenRoom DEF RoomRecord
<1>6. rooms' = [rooms EXCEPT ![r] = Bump(next)] /\ UNCHANGED <<creating, overwritten>>
  BY <1>1 DEF StartMatch, Save
<1>7. IsOpen(rooms[r])
  BY DEF StartMatch, CanStart
<1> HIDE DEF next
<1>8. /\ Sound(Bump(next)) /\ Bump(next).version > rooms[r].version
      /\ Bump(next).status = "ACTIVE" /\ Bump(next).current = id
      /\ Bump(next).members = rooms[r].members /\ Bump(next).seats = rooms[r].seats
  BY <1>4, <1>5, OpenRoom, BumpedNext, BumpFields DEF Sound
<1>9. /\ rooms'[r] = Bump(next) /\ \A q \in Rooms : q # r => rooms'[q] = rooms[q]
      /\ RoomsTyped'
  BY <1>6 DEF RoomsInv, RoomsTyped
<1>10. RoomsSound'
  BY <1>8, <1>9 DEF RoomsInv, RoomsSound
<1>11. MatchesTyped'
  BY <1>1, <1>3, <1>8, <1>9 DEF RoomsInv, MatchesTyped
<1>12. OneRoomEach'
  <2>1. \A v \in Users, q \in Rooms : IsMember(rooms'[q], v) <=> IsMember(rooms[q], v)
    BY <1>8, <1>9 DEF IsMember
  <2> QED
    BY <2>1 DEF RoomsInv, OneRoomEach, RoomOf
<1>13. MatchKeepsItsRoom'
  <2> SUFFICES ASSUME NEW m \in 1 .. id, matches'[m].status = "ACTIVE",
                      matches'[m].room \notin overwritten
               PROVE  /\ rooms'[matches'[m].room].current = m
                      /\ rooms'[matches'[m].room].seats = matches'[m].lineup
    BY <1>1, <1>6 DEF MatchKeepsItsRoom, IsActive
  <2>1. CASE m = id
    BY <1>3, <1>8, <1>9, <2>1
  <2>2. CASE m # id
    <3>1. m \in 1 .. Len(matches) /\ matches'[m] = matches[m]
      BY <1>1, <1>3, <2>2
    <3>2. /\ rooms[matches[m].room].current = m /\ rooms[matches[m].room].seats = matches[m].lineup
          /\ matches[m].room \in Rooms
      BY <3>1, MatchTyped DEF RoomsInv, MatchKeepsItsRoom, IsActive
    <3>3. matches[m].room # r
      BY <1>7, <3>1, <3>2 DEF IsOpen, NoMatch
    <3> QED
      BY <1>9, <3>1, <3>2, <3>3
  <2> QED
    BY <2>1, <2>2
<1>14. ClosedAndEmpty' /\ ReadsSound'
  BY <1>6, <1>8, <1>9 DEF RoomsInv, ClosedAndEmpty, ReadsSound
<1>15. ReleasedByRight /\ VersionRises /\ ClosedStays
  BY <1>7, <1>8, <1>9 DEF ReleasedByRight, VersionRises, ClosedStays, IsOpen
<1>16. CurrentsOwn'
  <2>1. \A q \in Rooms : q # r /\ rooms[q].current # NoMatch =>
          rooms[q].current \in 1 .. Len(matches) /\ matches[rooms[q].current].room = q
    BY DEF RoomsInv, MatchesTyped, CurrentsOwn, NoMatch
  <2> QED
    BY <1>3, <1>8, <1>9, <2>1 DEF CurrentsOwn
<1> QED
  BY <1>9, <1>10, <1>11, <1>12, <1>13, <1>14, <1>15, <1>16 DEF SafeStep, RoomsInv

LEMMA FinishMatchIsSafe ==
  ASSUME RoomsInv, NEW m \in 1 .. Len(matches), FinishMatch(m)
  PROVE  SafeStep
<1> DEFINE r == matches[m].room
<1>1. /\ IsActive(m) /\ matches' = [matches EXCEPT ![m].status = "FINISHED"]
      /\ creating' = creating /\ overwritten' = overwritten
      /\ rooms' = IF rooms[r].current = m THEN [rooms EXCEPT ![r] = Released(rooms[r])] ELSE rooms
  BY DEF FinishMatch, ReleaseRoom
<1>2. r \in Rooms /\ matches[m] \in MatchRecord /\ matches \in Seq(MatchRecord) /\ m # NoMatch
  BY MatchTyped DEF RoomsInv, MatchesTyped, NoMatch
<1>3. /\ matches' \in Seq(MatchRecord) /\ Len(matches') = Len(matches)
      /\ \A k \in 1 .. Len(matches) : k # m => matches'[k] = matches[k]
      /\ matches'[m].status = "FINISHED" /\ matches'[m].room = r
  <2>1. [matches[m] EXCEPT !.status = "FINISHED"] \in MatchRecord
    BY <1>2 DEF MatchRecord
  <2>2. matches' = [matches EXCEPT ![m] = [matches[m] EXCEPT !.status = "FINISHED"]]
    BY <1>1
  <2>3. /\ [matches[m] EXCEPT !.status = "FINISHED"].status = "FINISHED"
        /\ [matches[m] EXCEPT !.status = "FINISHED"].room = r
    BY <1>2 DEF MatchRecord
  <2> QED
    BY <1>2, <2>1, <2>2, <2>3, ExceptSeq
<1> DEFINE next == Released(rooms[r])
<1>4. /\ Sound(next) /\ next.version > rooms[r].version /\ next.status = "WAITING"
      /\ next.current = NoMatch /\ next.members = rooms[r].members
  BY <1>2, OpenRoom, ReleasedIsSound, ReleasedFields DEF RoomRecord
<1> HIDE DEF next
<1>5. /\ RoomsTyped'
      /\ \A q \in Rooms : \/ rooms'[q] = rooms[q]
                          \/ /\ q = r /\ rooms'[q] = next /\ rooms[q].current = m
  BY <1>1, <1>2 DEF RoomsInv, RoomsTyped, next
<1>6. RoomsSound'
  BY <1>4, <1>5 DEF RoomsInv, RoomsSound
<1>7. MatchesTyped'
  BY <1>3, <1>4, <1>5 DEF RoomsInv, MatchesTyped, NoMatch
<1>8. OneRoomEach'
  <2>1. \A v \in Users, q \in Rooms : IsMember(rooms'[q], v) <=> IsMember(rooms[q], v)
    BY <1>4, <1>5 DEF IsMember
  <2> QED
    BY <2>1 DEF RoomsInv, OneRoomEach, RoomOf
<1>9. MatchKeepsItsRoom'
  <2> SUFFICES ASSUME NEW k \in 1 .. Len(matches), matches'[k].status = "ACTIVE",
                      matches'[k].room \notin overwritten
               PROVE  /\ rooms'[matches'[k].room].current = k
                      /\ rooms'[matches'[k].room].seats = matches'[k].lineup
    BY <1>1, <1>3 DEF MatchKeepsItsRoom, IsActive
  <2>1. k # m /\ matches'[k] = matches[k]
    BY <1>3
  <2>2. /\ rooms[matches[k].room].current = k /\ rooms[matches[k].room].seats = matches[k].lineup
        /\ matches[k].room \in Rooms
    BY <2>1, MatchTyped DEF RoomsInv, MatchKeepsItsRoom, IsActive
  <2> QED
    BY <1>5, <2>1, <2>2
<1>10. ClosedAndEmpty' /\ ReadsSound'
  BY <1>1, <1>4, <1>5 DEF RoomsInv, ClosedAndEmpty, ReadsSound
<1>11. ReleasedByRight
  BY <1>3, <1>5 DEF ReleasedByRight
<1>12. ClosedStays
  <2>1. \A q \in Rooms : rooms[q].status = "CLOSED" => rooms[q].current # m
    BY <1>2 DEF RoomsInv, RoomsSound, Sound
  <2> QED
    BY <1>5, <2>1 DEF ClosedStays
<1>13. VersionRises
  BY <1>4, <1>5 DEF VersionRises
<1>14. CurrentsOwn'
  BY <1>3, <1>4, <1>5, OwnStays
<1> QED
  BY <1>5, <1>6, <1>7, <1>8, <1>9, <1>10, <1>11, <1>12, <1>13, <1>14 DEF SafeStep, RoomsInv

-----------------------------------------------------------------------------
(* createRoom.                                                             *)

(* Steps that touch nothing but the executions of createRoom.              *)
LEMMA ReadingIsSafe ==
  ASSUME RoomsInv, UNCHANGED <<rooms, matches, overwritten>>, ReadsSound'
  PROVE  SafeStep
<1>1. /\ RoomsTyped' /\ RoomsSound' /\ MatchesTyped' /\ CurrentsOwn' /\ OneRoomEach'
      /\ MatchKeepsItsRoom' /\ ClosedAndEmpty'
  BY DEF RoomsInv, RoomsTyped, RoomsSound, MatchesTyped, CurrentsOwn, OneRoomEach, RoomOf,
         MatchKeepsItsRoom, IsActive, ClosedAndEmpty
<1>2. ReleasedByRight /\ VersionRises /\ ClosedStays
  BY DEF ReleasedByRight, VersionRises, ClosedStays
<1> QED
  BY <1>1, <1>2 DEF SafeStep, RoomsInv

(* An execution that starts or ends with something sound.                  *)
LEMMA CreatingTyped ==
  ASSUME RoomsInv, NEW c \in Creations, NEW e, creating' = [creating EXCEPT ![c] = e],
         overwritten' \in SUBSET Rooms, Sound(e.read),
         e \in [user : Users \union {Empty}, room : Rooms \union {NoRoom}, read : RoomRecord],
         e.room # NoRoom => IsMember(e.read, e.user)
  PROVE  ReadsSound'
<1>1. creating \in [Creations -> [user : Users \union {Empty}, room : Rooms \union {NoRoom},
                                  read : RoomRecord]]
  BY DEF RoomsInv, ReadsSound
<1>2. \A d \in Creations : creating'[d] = IF d = c THEN e ELSE creating[d]
  BY <1>1
<1>3. creating' \in [Creations -> [user : Users \union {Empty}, room : Rooms \union {NoRoom},
                                   read : RoomRecord]]
  BY <1>1
<1> QED
  BY <1>2, <1>3 DEF RoomsInv, ReadsSound

LEMMA IdleIsSound ==
  /\ Idle \in [user : Users \union {Empty}, room : Rooms \union {NoRoom}, read : RoomRecord]
  /\ Sound(Idle.read)
  /\ Idle.room = NoRoom
BY EmptyRoomsAreSound DEF Idle, Sound

LEMMA CreateReadIsSafe ==
  ASSUME RoomsInv, NEW c \in Creations, NEW u \in Users, CreateRead(c, u)
  PROVE  SafeStep
<1>1. UNCHANGED <<rooms, matches, overwritten>> /\ overwritten' \in SUBSET Rooms
  BY DEF CreateRead, RoomsInv, ReadsSound
<1>2. CASE creating' = [creating EXCEPT ![c] = [user |-> u, room |-> NoRoom, read |-> NewRoom]]
  <2>1. Sound(NewRoom) /\ NewRoom \in RoomRecord
    BY EmptyRoomsAreSound DEF Sound
  <2> DEFINE e == [user |-> u, room |-> NoRoom, read |-> NewRoom]
  <2>2. /\ e \in [user : Users \union {Empty}, room : Rooms \union {NoRoom}, read : RoomRecord]
        /\ Sound(e.read) /\ e.room = NoRoom
    BY <2>1
  <2> HIDE DEF e
  <2>3. ReadsSound'
    BY <1>1, <1>2, <2>2, CreatingTyped DEF e
  <2> QED
    BY <1>1, <2>3, ReadingIsSafe
<1>3. ASSUME NEW r \in RoomOf(u),
             creating' = [creating EXCEPT ![c] = [user |-> u, room |-> r, read |-> rooms[r]]]
      PROVE  SafeStep
  <2>1. r \in Rooms /\ IsMember(rooms[r], u) /\ Sound(rooms[r]) /\ rooms[r] \in RoomRecord
    BY OpenRoom DEF RoomOf
  <2> DEFINE e == [user |-> u, room |-> r, read |-> rooms[r]]
  <2>2. /\ e \in [user : Users \union {Empty}, room : Rooms \union {NoRoom}, read : RoomRecord]
        /\ Sound(e.read) /\ IsMember(e.read, e.user)
    BY <2>1
  <2> HIDE DEF e
  <2>3. ReadsSound'
    BY <1>1, <1>3, <2>2, CreatingTyped DEF e
  <2> QED
    BY <1>1, <2>3, ReadingIsSafe
<1> QED
  BY <1>2, <1>3 DEF CreateRead

LEMMA CreateAbortsIsSafe ==
  ASSUME RoomsInv, NEW c \in Creations, CreateAborts(c)
  PROVE  SafeStep
<1>1. UNCHANGED <<rooms, matches, overwritten>> /\ creating' = [creating EXCEPT ![c] = Idle]
  BY DEF CreateAborts
<1>2. overwritten' \in SUBSET Rooms
  BY <1>1 DEF RoomsInv, ReadsSound
<1>3. ReadsSound'
  BY <1>1, <1>2, IdleIsSound, CreatingTyped
<1> QED
  BY <1>1, <1>3, ReadingIsSafe

(* A user who was in no room creates one.                                  *)
LEMMA FirstRoomIsSafe ==
  ASSUME RoomsInv, NEW u \in Users, NEW fresh \in Fresh, RoomOf(u) = {},
         rooms' = [rooms EXCEPT ![fresh] =
                     [NewRoom EXCEPT !.status = "WAITING", !.members = <<u>>]],
         UNCHANGED <<matches, overwritten>>, creating' # creating, ReadsSound'
  PROVE  SafeStep
<1> DEFINE created == [NewRoom EXCEPT !.status = "WAITING", !.members = <<u>>]
<1>1. /\ Sound(created) /\ created.members = <<u>> /\ created.status = "WAITING"
      /\ created.current = NoMatch
  BY EmptyRoomsAreSound DEF NewRoom
<1> HIDE DEF created
<1>2. /\ RoomsTyped' /\ fresh \in Rooms /\ rooms[fresh].status = "NEW"
      /\ rooms'[fresh] = created
      /\ \A q \in Rooms : q # fresh => rooms'[q] = rooms[q]
  BY DEF RoomsInv, RoomsTyped, Fresh, created
<1>3. RoomsSound' /\ MatchesTyped' /\ CurrentsOwn' /\ ClosedAndEmpty'
  <2>1. RoomsSound'
    BY <1>1, <1>2 DEF RoomsInv, RoomsSound
  <2>2. \A q \in Rooms : rooms'[q].current \in {NoMatch, rooms[q].current}
    BY <1>1, <1>2
  <2>3. MatchesTyped'
    BY <2>2 DEF RoomsInv, MatchesTyped, NoMatch
  <2>4. ClosedAndEmpty'
    BY <1>1, <1>2 DEF RoomsInv, ClosedAndEmpty
  <2>5. CurrentsOwn'
    BY <2>2, OwnStays
  <2> QED
    BY <2>1, <2>3, <2>4, <2>5
<1>4. OneRoomEach'
  <2>1. \A q \in Rooms : ~ IsMember(rooms[q], u)
    BY DEF RoomOf
  <2>2. ASSUME NEW v \in Users, NEW q \in Rooms, IsMember(rooms'[q], v)
        PROVE  IF v = u THEN q = fresh ELSE IsMember(rooms[q], v)
    <3>1. IsMember(created, v) => v = u
      BY <1>1 DEF IsMember
    <3> QED
      BY <1>2, <2>1, <2>2, <3>1
  <2> QED
    BY <2>2 DEF RoomsInv, OneRoomEach, RoomOf
<1>5. MatchKeepsItsRoom'
  <2>1. rooms[fresh].current = NoMatch
    BY <1>2 DEF RoomsInv, RoomsSound, Sound
  <2> SUFFICES ASSUME NEW m \in 1 .. Len(matches), IsActive(m), matches[m].room \notin overwritten
               PROVE  /\ rooms'[matches[m].room].current = m
                      /\ rooms'[matches[m].room].seats = matches[m].lineup
    BY DEF MatchKeepsItsRoom, IsActive
  <2>2. /\ rooms[matches[m].room].current = m /\ rooms[matches[m].room].seats = matches[m].lineup
        /\ matches[m].room \in Rooms
    BY MatchTyped DEF RoomsInv, MatchKeepsItsRoom
  <2>3. m # NoMatch
    BY DEF NoMatch
  <2> QED
    BY <1>2, <2>1, <2>2, <2>3
<1>6. ReleasedByRight /\ VersionRises /\ ClosedStays
  BY <1>2 DEF ReleasedByRight, VersionRises, ClosedStays
<1> QED
  BY <1>2, <1>3, <1>4, <1>5, <1>6 DEF SafeStep, RoomsInv

(* A user who was in a room overwrites the room it has read, leaves the    *)
(* room it is in by now, and creates one.                                  *)
Overwriting(u, fresh, r, old, read, next, saved) ==
  /\ next = Rewritten(rooms[r], read, u)
  /\ next # rooms[r] => SeatsAllowed(rooms[r], next)
  /\ saved = [rooms EXCEPT ![r] = next]
  /\ SeatsOf(saved[old], u) = {}
  /\ rooms' = [saved EXCEPT ![old].members = Without(@, u),
                            ![fresh] = [NewRoom EXCEPT !.status = "WAITING",
                                                       !.members = <<u>>]]
  /\ overwritten' = overwritten
       \union (IF rooms[r] # read \/ IsActive(rooms[r].current) THEN {r} ELSE {})
       \union (IF old # r THEN {old} ELSE {})

LEMMA OverwritingIsSafe ==
  ASSUME RoomsInv, NEW u \in Users, NEW fresh \in Fresh, NEW r \in Rooms, NEW old \in RoomOf(u),
         NEW read, Sound(read), IsMember(read, u), NEW next, NEW saved,
         Overwriting(u, fresh, r, old, read, next, saved),
         matches' = matches, creating' # creating, ReadsSound'
  PROVE  SafeStep
<1>0. /\ next = Rewritten(rooms[r], read, u)
      /\ next # rooms[r] => SeatsAllowed(rooms[r], next)
      /\ saved = [rooms EXCEPT ![r] = next]
      /\ SeatsOf(saved[old], u) = {}
      /\ rooms' = [saved EXCEPT ![old].members = Without(@, u),
                                ![fresh] = [NewRoom EXCEPT !.status = "WAITING",
                                                           !.members = <<u>>]]
      /\ overwritten' = overwritten
           \union (IF rooms[r] # read \/ IsActive(rooms[r].current) THEN {r} ELSE {})
           \union (IF old # r THEN {old} ELSE {})
  BY DEF Overwriting
<1> USE <1>0
<1> DEFINE created == [NewRoom EXCEPT !.status = "WAITING", !.members = <<u>>]
           left == [saved[old] EXCEPT !.members = Without(@, u)]
<1>1. /\ Sound(created) /\ created.members = <<u>> /\ created.status = "WAITING"
      /\ created.current = NoMatch
  BY EmptyRoomsAreSound DEF NewRoom
<1> HIDE DEF created
<1>2. /\ old \in Rooms /\ IsMember(rooms[old], u) /\ Sound(rooms[r]) /\ Sound(rooms[old])
      /\ DOMAIN rooms = Rooms
      /\ \A q \in Rooms : IsMember(rooms[q], u) => q = old
  BY DEF RoomsInv, RoomsTyped, RoomsSound, OneRoomEach, RoomOf
<1>3. /\ Sound(next) /\ next.members = rooms[r].members
      /\ next.current \in {NoMatch, rooms[r].current}
  BY <1>2, RewrittenIsSound
<1>4. /\ saved[r] = next /\ saved = [q \in Rooms |-> saved[q]]
      /\ \A q \in Rooms : q # r => saved[q] = rooms[q]
  BY <1>2
<1>5. \A q \in Rooms : /\ saved[q].current \in {NoMatch, rooms[q].current}
                       /\ saved[q].members = rooms[q].members
                       /\ Sound(rooms[q]) => Sound(saved[q])
  BY <1>3, <1>4
<1>6. /\ Sound(left) /\ ~ IsMember(left, u)
      /\ \A v : v # u => (IsMember(left, v) <=> IsMember(rooms[old], v))
      /\ Len(rooms[old].members) <= 1 => left.members = <<>>
  <2>1. Sound(saved[old]) /\ saved[old].members = rooms[old].members
    BY <1>2, <1>5
  <2>2. \A v : IsMember(saved[old], v) <=> IsMember(rooms[old], v)
    BY <2>1 DEF IsMember
  <2> QED
    BY <1>2, <2>1, <2>2, LeavingIsSound
<1>7. /\ left.current = saved[old].current /\ left.version = saved[old].version
      /\ left.status = saved[old].status
  BY <1>2, <1>5 DEF Sound, RoomRecord
<1>8. fresh \in Rooms /\ rooms[fresh].status = "NEW"
  BY DEF Fresh
<1>9. /\ RoomsTyped' /\ rooms'[fresh] = created
      /\ old # fresh => rooms'[old] = left
      /\ \A q \in Rooms : q # fresh /\ q # old => rooms'[q] = saved[q]
  BY <1>2, <1>4, <1>8 DEF RoomsTyped, created
<1> HIDE DEF left
<1>10. \A q \in Rooms : rooms'[q].current \in {NoMatch, rooms[q].current}
  <2>1. rooms'[fresh].current = NoMatch
    BY <1>1, <1>9
  <2>2. old # fresh => rooms'[old].current = saved[old].current
    BY <1>7, <1>9
  <2>3. \A q \in Rooms : q # fresh /\ q # old => rooms'[q].current = saved[q].current
    BY <1>9
  <2> QED
    BY <1>5, <2>1, <2>2, <2>3
<1>11. RoomsSound'
  BY <1>1, <1>5, <1>6, <1>8, <1>9 DEF RoomsInv, RoomsSound
<1>12. MatchesTyped'
  <2>1. /\ matches \in Seq(MatchRecord) /\ Len(matches) \in 0 .. MaxMatches
        /\ \A q \in Rooms : rooms[q].current \in 0 .. Len(matches)
    BY DEF RoomsInv, MatchesTyped
  <2>2. NoMatch \in 0 .. Len(matches)
    BY <2>1, RoomsAssumption DEF NoMatch
  <2>3. \A q \in Rooms : rooms'[q].current \in 0 .. Len(matches)
    BY <1>10, <2>1, <2>2
  <2> QED
    BY <2>1, <2>3 DEF MatchesTyped
<1>13. OneRoomEach'
  <2>1. ASSUME NEW v \in Users, NEW q \in Rooms, IsMember(rooms'[q], v)
        PROVE  IF v = u THEN q = fresh ELSE IsMember(rooms[q], v)
    <3>1. CASE q = fresh
      BY <1>1, <1>9, <2>1, <3>1 DEF IsMember
    <3>2. CASE q # fresh /\ q = old
      BY <1>6, <1>9, <2>1, <3>2
    <3>3. CASE q # fresh /\ q # old
      <4>1. rooms'[q].members = rooms[q].members
        BY <1>5, <1>9, <3>3
      <4>2. IsMember(rooms[q], v)
        BY <2>1, <4>1 DEF IsMember
      <4> QED
        BY <1>2, <3>3, <4>2
    <3> QED
      BY <3>1, <3>2, <3>3
  <2> QED
    BY <2>1 DEF RoomsInv, OneRoomEach, RoomOf
<1>14. \A q \in Rooms : q \notin overwritten' =>
         /\ q \notin overwritten
         /\ q = r => rooms[r] = read /\ ~ IsActive(rooms[r].current) /\ r = old
         /\ q = old => q = r
  <2>1. rooms[r] = read => r = old
    BY <1>2
  <2> QED
    BY <2>1
<1>15. MatchKeepsItsRoom'
  <2> SUFFICES ASSUME NEW m \in 1 .. Len(matches), IsActive(m), matches[m].room \notin overwritten'
               PROVE  /\ rooms'[matches[m].room].current = m
                      /\ rooms'[matches[m].room].seats = matches[m].lineup
    BY DEF MatchKeepsItsRoom, IsActive
  <2> DEFINE q == matches[m].room
  <2>1. q \in Rooms
    BY MatchTyped
  <2>2. rooms[q].current = m /\ rooms[q].seats = matches[m].lineup
    BY <1>14, <2>1 DEF RoomsInv, MatchKeepsItsRoom
  <2>3. q # fresh
    <3>1. rooms[fresh].current = NoMatch
      BY <1>8 DEF RoomsInv, RoomsSound, Sound
    <3> QED
      BY <2>2, <3>1 DEF NoMatch
  <2>4. q # r /\ q # old
    BY <1>14, <2>1, <2>2
  <2> QED
    BY <1>4, <1>9, <2>1, <2>2, <2>3, <2>4
<1>16. ASSUME NEW q \in Rooms, q \notin overwritten', q \in {r, old}
       PROVE  /\ q = r /\ q = old
              /\ rooms[q].status # "CLOSED"
              /\ saved[q].version > rooms[q].version
              /\ saved[q].status = "CLOSED" => Len(rooms[q].members) <= 1
  <2>1. q = r /\ q = old /\ rooms[r] = read /\ r \notin overwritten
    BY <1>14, <1>16
  <2>2. rooms[r].status # "CLOSED"
    BY <1>2, <2>1 DEF RoomsInv, ClosedAndEmpty, IsMember
  <2> QED
    BY <1>2, <1>4, <2>1, <2>2, RewrittenFromNow
<1>17. ClosedAndEmpty'
  <2> SUFFICES ASSUME NEW q \in Rooms \ overwritten', rooms'[q].status = "CLOSED"
               PROVE  rooms'[q].members = <<>>
    BY DEF ClosedAndEmpty
  <2>1. q # fresh
    BY <1>1, <1>9
  <2>2. CASE q = old
    <3>1. rooms'[q] = left /\ left.status = saved[q].status
      BY <1>7, <1>9, <2>1, <2>2
    <3> QED
      BY <1>6, <1>16, <2>2, <3>1
  <2>3. CASE q # old
    <3>1. q # r /\ rooms'[q] = rooms[q]
      BY <1>4, <1>9, <1>14, <2>1, <2>3
    <3>2. q \notin overwritten
      BY <1>14
    <3> QED
      BY <3>1, <3>2 DEF RoomsInv, ClosedAndEmpty
  <2> QED
    BY <2>2, <2>3
<1>18. ReleasedByRight /\ CurrentsOwn'
  BY <1>10, OwnStays DEF ReleasedByRight
<1>19. VersionRises /\ ClosedStays
  BY <1>4, <1>7, <1>8, <1>9, <1>16 DEF VersionRises, ClosedStays
<1> QED
  BY <1>9, <1>11, <1>12, <1>13, <1>15, <1>17, <1>18, <1>19 DEF SafeStep, RoomsInv

LEMMA CreateWriteIsSafe ==
  ASSUME RoomsInv, NEW c \in Creations, CreateWrite(c)
  PROVE  SafeStep
<1> DEFINE u == creating[c].user
           r == creating[c].room
           read == creating[c].read
           next == Rewritten(rooms[r], read, u)
           saved == [rooms EXCEPT ![r] = next]
<1>1. /\ u \in Users /\ r \in Rooms \union {NoRoom} /\ Sound(read)
      /\ r # NoRoom => IsMember(read, u)
      /\ creating' = [creating EXCEPT ![c] = Idle] /\ matches' = matches
  BY DEF CreateWrite, RoomsInv, ReadsSound
<1>2. creating' # creating
  <2>1. creating'[c] = Idle
    BY <1>1 DEF RoomsInv, ReadsSound
  <2> QED
    BY <1>1, <2>1, RoomsAssumption DEF Idle
<1> PICK fresh \in Fresh :
      LET created == [NewRoom EXCEPT !.status = "WAITING", !.members = <<u>>]
      IN  \/ /\ r = NoRoom /\ RoomOf(u) = {}
             /\ rooms' = [rooms EXCEPT ![fresh] = created]
             /\ UNCHANGED overwritten
          \/ \E old \in RoomOf(u) :
               /\ r # NoRoom
               /\ next # rooms[r] => SeatsAllowed(rooms[r], next)
               /\ SeatsOf(saved[old], u) = {}
               /\ rooms' = [saved EXCEPT ![old].members = Without(@, u), ![fresh] = created]
               /\ overwritten' = overwritten
                    \union (IF rooms[r] # read \/ IsActive(rooms[r].current) THEN {r} ELSE {})
                    \union (IF old # r THEN {old} ELSE {})
  BY DEF CreateWrite
<1>3. overwritten' \in SUBSET Rooms
  BY <1>1 DEF RoomsInv, ReadsSound, RoomOf
<1>4. ReadsSound'
  BY <1>1, <1>3, IdleIsSound, CreatingTyped
<1>5. CASE r = NoRoom
  BY <1>1, <1>2, <1>4, <1>5, FirstRoomIsSafe
<1>6. CASE r # NoRoom
  <2>1. PICK old \in RoomOf(u) : Overwriting(u, fresh, r, old, read, next, saved)
    BY <1>6 DEF Overwriting
  <2>2. r \in Rooms /\ IsMember(read, u) /\ Sound(read) /\ u \in Users
    BY <1>1, <1>6
  <2>3. matches' = matches
    BY <1>1
  <2> HIDE DEF next, saved, u, r, read
  <2> QED
    BY <1>2, <1>4, <2>1, <2>2, <2>3, OverwritingIsSafe
<1> QED
  BY <1>5, <1>6

-----------------------------------------------------------------------------
(* The theorems.                                                           *)

LEMMA InitEstablishes ==
  ASSUME Init
  PROVE  RoomsInv
<1>1. /\ overwritten = {} /\ creating = [c \in Creations |-> Idle]
  BY DEF Init
<1>2. ReadsSound
  BY <1>1, IdleIsSound DEF ReadsSound
<1>3. CASE rooms = [r \in Rooms |-> NewRoom] /\ matches = <<>>
  <2>1. \A r \in Rooms : rooms[r] = NewRoom
    BY <1>3
  <2>2. NewRoom.members = <<>> /\ NewRoom.current = NoMatch /\ NewRoom.status = "NEW"
    BY DEF NewRoom
  <2>3. RoomsTyped /\ RoomsSound
    BY <1>3, EmptyRoomsAreSound DEF RoomsTyped, RoomsSound
  <2>4. MatchesTyped /\ CurrentsOwn /\ MatchKeepsItsRoom
    BY <1>3, <2>1, <2>2, RoomsAssumption
       DEF MatchesTyped, CurrentsOwn, MatchKeepsItsRoom, NoMatch
  <2>5. OneRoomEach /\ ClosedAndEmpty
    BY <2>1, <2>2 DEF OneRoomEach, RoomOf, IsMember, ClosedAndEmpty
  <2> QED
    BY <1>2, <2>3, <2>4, <2>5 DEF RoomsInv
<1>4. ASSUME NEW r \in Rooms, NEW u \in Users, NEW s \in Seats, NEW b \in Seats, s # b,
             NEW lineup, lineup = [NoSeats EXCEPT ![s] = u, ![b] = Bot],
             rooms = [[q \in Rooms |-> NewRoom] EXCEPT ![r] = StaleRoom(u, lineup)],
             matches = <<[room |-> r, status |-> "FINISHED", lineup |-> lineup]>>
      PROVE  RoomsInv
  <2> DEFINE stale == StaleRoom(u, lineup)
  <2>1. Sound(stale) /\ lineup \in [Seats -> Users \union {Bot, Empty}]
    BY <1>4, StaleRoomIsSound
  <2>2. stale.members = <<u>> /\ stale.current = 1 /\ stale.status = "ACTIVE"
    BY DEF StaleRoom
  <2>3. NewRoom.members = <<>> /\ NewRoom.current = NoMatch /\ NewRoom.status = "NEW"
    BY DEF NewRoom
  <2>4. rooms[r] = stale /\ \A q \in Rooms : q # r => rooms[q] = NewRoom
    BY <1>4
  <2>5. RoomsTyped
    BY <1>4 DEF RoomsTyped
  <2> HIDE DEF stale
  <2>6. RoomsSound
    BY <2>1, <2>4, EmptyRoomsAreSound DEF RoomsSound
  <2>7. [room |-> r, status |-> "FINISHED", lineup |-> lineup] \in MatchRecord
    BY <2>1 DEF MatchRecord
  <2>8. /\ matches \in Seq(MatchRecord) /\ Len(matches) = 1
        /\ matches[1].status = "FINISHED" /\ matches[1].room = r
    BY <1>4, <2>7
  <2>9. MatchesTyped
    <3>1. \A q \in Rooms : rooms[q].current \in 0 .. 1
      BY <2>2, <2>3, <2>4 DEF NoMatch
    <3> QED
      BY <2>8, <3>1, RoomsAssumption DEF MatchesTyped
  <2>10. MatchKeepsItsRoom
    BY <2>8 DEF MatchKeepsItsRoom, IsActive
  <2>11. \A q \in Rooms, v \in Users : IsMember(rooms[q], v) => q = r
    BY <2>3, <2>4 DEF IsMember
  <2>12. OneRoomEach
    BY <2>11 DEF OneRoomEach, RoomOf
  <2>13. ClosedAndEmpty
    BY <2>2, <2>3, <2>4 DEF ClosedAndEmpty
  <2>14. CurrentsOwn
    BY <2>2, <2>3, <2>4, <2>8 DEF CurrentsOwn
  <2> QED
    BY <1>2, <2>5, <2>6, <2>9, <2>10, <2>12, <2>13, <2>14 DEF RoomsInv
<1> QED
  BY <1>3, <1>4 DEF Init

LEMMA NextIsSafe ==
  ASSUME RoomsInv, [Next]_vars
  PROVE  SafeStep
<1>1. CASE UNCHANGED vars
  <2>1. ReadsSound'
    BY <1>1 DEF vars, RoomsInv, ReadsSound
  <2> QED
    BY <1>1, <2>1, ReadingIsSafe DEF vars
<1>2. ASSUME NEW u \in Users, NEW r \in Rooms,
             \/ JoinRoom(u, r) \/ LeaveRoom(u, r) \/ DeleteRoom(u, r)
             \/ LeaveSeat(u, r) \/ StartMatch(u, r)
      PROVE  SafeStep
  BY <1>2, JoinRoomIsSafe, LeaveRoomIsSafe, DeleteRoomIsSafe, LeaveSeatIsSafe, StartMatchIsSafe
<1>3. ASSUME NEW u \in Users, NEW r \in Rooms, NEW ready \in BOOLEAN, SetReady(u, r, ready)
      PROVE  SafeStep
  BY <1>3, SetReadyIsSafe
<1>4. ASSUME NEW u \in Users, NEW r \in Rooms, NEW s \in Seats,
             TakeSeat(u, r, s) \/ AddBot(u, r, s) \/ RemoveBot(u, r, s)
      PROVE  SafeStep
  BY <1>4, TakeSeatIsSafe, AddBotIsSafe, RemoveBotIsSafe
<1>5. ASSUME NEW m \in 1 .. Len(matches), FinishMatch(m)
      PROVE  SafeStep
  BY <1>5, FinishMatchIsSafe
<1>6. ASSUME NEW c \in Creations,
             CreateWrite(c) \/ CreateAborts(c) \/ \E u \in Users : CreateRead(c, u)
      PROVE  SafeStep
  BY <1>6, CreateWriteIsSafe, CreateAbortsIsSafe, CreateReadIsSafe
<1> QED
  BY <1>1, <1>2, <1>3, <1>4, <1>5, <1>6 DEF Next

(* The inductive invariant: everything below follows from it.              *)
THEOREM RoomsSafe == Spec => []RoomsInv
<1>1. Init => RoomsInv
  BY InitEstablishes
<1>2. RoomsInv /\ [Next]_vars => RoomsInv'
  BY NextIsSafe DEF SafeStep
<1> QED
  BY <1>1, <1>2, PTL DEF Spec

(* Types, and the check constraint of the database on rooms in a match.    *)
THEOREM TypeCorrect == Spec => []TypeOK
<1>1. RoomsInv => TypeOK
  <2> SUFFICES ASSUME RoomsInv PROVE TypeOK
    OBVIOUS
  <2>1. rooms \in [Rooms -> RoomRecord]
    BY DEF RoomsInv, RoomsTyped, RoomsSound, Sound
  <2> QED
    BY <2>1 DEF RoomsInv, MatchesTyped, ReadsSound, RoomsSound, Sound, TypeOK
<1> QED
  BY <1>1, RoomsSafe, PTL

(* Whatever createRoom writes from a stale read, who sits is a member of   *)
(* that room, sits once, and belongs to one room.                          *)
THEOREM SeatsAreMembersHolds == Spec => []SeatsAreMembers
<1>1. RoomsInv => SeatsAreMembers
  BY DEF RoomsInv, RoomsSound, Sound, SeatedOnce, OneRoomEach, SeatsAreMembers
<1> QED
  BY <1>1, RoomsSafe, PTL

(* A READY mark never outlives its participant.                            *)
THEOREM ReadyMeansSeatedHolds == Spec => []ReadyMeansSeated
<1>1. RoomsInv => ReadyMeansSeated
  BY DEF RoomsInv, RoomsSound, Sound, ReadyMeansSeated
<1> QED
  BY <1>1, RoomsSafe, PTL

(* An active match keeps its room and its players their seats, until       *)
(* createRoom overwrites the room.                                         *)
THEOREM MatchKeepsItsRoomHolds == Spec => []MatchKeepsItsRoom
<1>1. RoomsInv => MatchKeepsItsRoom
  BY DEF RoomsInv
<1> QED
  BY <1>1, RoomsSafe, PTL

(* A late match never takes a newer one of the same room with it.          *)
THEOREM NoForeignReleaseHolds == Spec => NoForeignRelease
<1>1. RoomsInv /\ [Next]_vars => ReleasedByRight
  BY NextIsSafe DEF SafeStep
<1> QED
  BY <1>1, RoomsSafe, PTL DEF Spec, NoForeignRelease, ReleasedByRight

(* Whatever changes in a room raises its version, until createRoom         *)
(* overwrites it.                                                          *)
THEOREM VersionTellsChangesHolds == Spec => VersionTellsChanges
<1>1. RoomsInv /\ [Next]_vars => VersionRises
  BY NextIsSafe DEF SafeStep
<1> QED
  BY <1>1, RoomsSafe, PTL DEF Spec, VersionTellsChanges, VersionRises

(* A closed room stays closed and empty, until createRoom overwrites it.   *)
THEOREM ClosedForGoodHolds == Spec => ClosedForGood
<1>1. RoomsInv /\ [Next]_vars => ClosedStays
  BY NextIsSafe DEF SafeStep
<1> QED
  BY <1>1, RoomsSafe, PTL DEF Spec, ClosedForGood, ClosedStays


-----------------------------------------------------------------------------
(* What a user is told of a room, and what the service says to him.        *)

(* Requests differ by their parts.                                         *)
LEMMA RequestParts ==
  /\ \A op : Plain(op).op = op /\ Plain(op).seat = {}
  /\ \A op, s : Seat(op, s).op = op /\ Seat(op, s).seat = {s}
  /\ \A ready : Ready(ready).op = "setReady" /\ Ready(ready).ready = ready
BY DEF Plain, Seat, Ready, Request

LEMMA RequestCases ==
  ASSUME NEW q \in AllRequests
  PROVE  \/ \E op \in SeatOps, s \in Seats : q = Seat(op, s)
         \/ \E ready \in BOOLEAN : q = Ready(ready)
         \/ \E op \in {"get", "reconnect", "join", "leaveSeat", "leaveRoom", "deleteRoom",
                       "start", "invite", "chat"} : q = Plain(op)
BY DEF AllRequests, Reads, Commands, OtherOps, SeatOps

LEMMA RequestsThere ==
  /\ \A op \in SeatOps, s \in Seats : Seat(op, s) \in AllRequests
  /\ \A ready \in BOOLEAN : Ready(ready) \in AllRequests
  /\ \A op \in {"get", "reconnect", "join", "leaveSeat", "leaveRoom", "deleteRoom",
                "start", "invite", "chat"} : Plain(op) \in AllRequests
BY DEF AllRequests, Reads, Commands, OtherOps, SeatOps

LEMMA ViewFields ==
  ASSUME NEW r, NEW room, NEW u, NEW connected, NEW solo,
         NEW view, view = RoomState(r, room, u, connected, solo)
  PROVE  /\ DOMAIN view = RoomStateFields
         /\ view.id = r /\ view.status = room.status /\ view.version = room.version
         /\ view.currentMatchId = room.current /\ view.members = room.members
         /\ DOMAIN view.seats = Seats
         /\ \A s \in Seats : /\ view.seats[s].participant = room.seats[s]
                             /\ view.seats[s].kind = Kind(room.seats[s])
                             /\ view.seats[s].ready = (s \in room.ready)
         /\ view.counts = Counts(room)
         /\ view.currentUser = CurrentUser(room, u, connected, solo)
BY DEF RoomState, RoomStateFields

LEMMA UserFields ==
  ASSUME NEW room, NEW u, NEW connected, NEW solo,
         NEW me, me = CurrentUser(room, u, connected, solo)
  PROVE  /\ me.isMember <=> IsMember(room, u)
         /\ me.seatIndex = SeatsOf(room, u)
         /\ me.canLeave <=> IsMember(room, u) /\ ~IsBusy(room)
         /\ me.canStart <=> /\ IsMember(room, u) /\ SeatsOf(room, u) # {} /\ IsOpen(room)
                            /\ MayStart(room, u, connected, solo)
         /\ me.canManageBots <=> IsOpen(room) /\ IsHost(room, u)
         /\ me.startBlockedReason = StartBlockedReason(room, u, connected, solo)
BY DEF CurrentUser

(* The routes that read take out again what loadView put in.               *)
LEMMA ResponseIsState ==
  ASSUME NEW r, NEW room, NEW u, NEW connected, NEW solo
  PROVE  ToRoomStateResponse(LoadView(r, room, u, connected, solo))
           = RoomState(r, room, u, connected, solo)
<1> DEFINE state == RoomState(r, room, u, connected, solo)
           full  == LoadView(r, room, u, connected, solo)
<1>1. /\ DOMAIN state = RoomStateFields
      /\ state = [f \in RoomStateFields |-> state[f]]
  BY DEF RoomState, RoomStateFields
<1>2. "presence" \notin RoomStateFields
  BY DEF RoomStateFields
<1>3. full = [f \in DOMAIN state \cup {"presence"} |->
                IF f = "presence"
                THEN [i \in 1 .. Len(room.members) |-> room.members[i] \in connected]
                ELSE state[f]]
  BY DEF LoadView
<1> HIDE DEF state, full
<1>4. /\ DOMAIN full \ {"presence"} = RoomStateFields
      /\ \A f \in RoomStateFields : full[f] = state[f]
  BY <1>1, <1>2, <1>3
<1>5. ToRoomStateResponse(full) = [f \in RoomStateFields |-> state[f]]
  BY <1>4 DEF ToRoomStateResponse
<1> QED
  BY <1>1, <1>5 DEF state, full

(* Four seats at most.                                                     *)
LEMMA FewSeats ==
  ASSUME NEW S \in SUBSET Seats
  PROVE  IsFiniteSet(S) /\ Cardinality(S) \in 0 .. 4
<1>1. IsFiniteSet(0 .. 3) /\ Cardinality(0 .. 3) = 4
  <2>1. ASSUME NEW n \in Nat
        PROVE  IsFiniteSet(0 .. n) /\ Cardinality(0 .. n) = n + 1
    BY FS_Interval
  <2>2. 3 \in Nat
    OBVIOUS
  <2>3. IsFiniteSet(0 .. 3) /\ Cardinality(0 .. 3) = 3 + 1
    BY <2>1, <2>2, Zenon
  <2> QED
    BY <2>3
<1>2. S \in SUBSET (0 .. 3)
  BY SeatsAssumption
<1>3. IsFiniteSet(S) /\ Cardinality(S) <= 4
  BY <1>1, <1>2, FS_Subset
<1> QED
  BY <1>3, FS_CardinalityType

(* What the page can read of a room that exists.                           *)
LEMMA StateFits ==
  ASSUME NEW r, NEW room, Sound(room), room.status # "NEW", NEW u, NEW connected, NEW solo
  PROVE  FitsRoomState(RoomState(r, room, u, connected, solo))
<1> DEFINE view == RoomState(r, room, u, connected, solo)
<1>1. /\ DOMAIN view = RoomStateFields /\ view.status = room.status
      /\ view.version = room.version /\ DOMAIN view.seats = Seats
      /\ view.counts = Counts(room)
      /\ view.currentUser = CurrentUser(room, u, connected, solo)
  BY ViewFields
<1>2. /\ view.counts.memberCount = Len(room.members)
      /\ view.counts.seatedCount = Cardinality(Seated(room))
      /\ view.counts.readyCount = Cardinality(Seated(room) \cap room.ready)
  BY <1>1 DEF Counts
<1>3. CurrentUser(room, u, connected, solo).seatIndex = SeatsOf(room, u)
  BY UserFields
<1>4. room.status \in {"WAITING", "ACTIVE", "CLOSED"} /\ room.version \in Nat
      /\ Len(room.members) \in Nat
  BY DEF Sound, RoomRecord
<1>5. Seated(room) \in SUBSET Seats /\ SeatsOf(room, u) \in SUBSET Seats
  BY DEF Seated, SeatsOf
<1>6. /\ Cardinality(Seated(room)) \in 0 .. 4
      /\ Cardinality(Seated(room) \cap room.ready) \in 0 .. 4
  BY <1>5, FewSeats
<1> HIDE DEF view
<1>7. FitsRoomState(view)
  BY <1>1, <1>2, <1>3, <1>4, <1>5, <1>6 DEF FitsRoomState
<1> QED
  BY <1>7 DEF view

-----------------------------------------------------------------------------
(* What the service refuses.                                               *)

LEMMA ChecksOf ==
  ASSUME NEW room, NEW u, NEW q, NEW version, NEW connected, NEW solo, NEW elsewhere
  PROVE  LET checks == Checks(room, u, q, version, connected, solo, elsewhere)
         IN  /\ q.op \in {"get", "reconnect"} =>
                  checks = Check(room.status # "CLOSED", "ROOM_NOT_FOUND")
             /\ q.op = "join" => checks = JoinChecks(room, u, elsewhere)
             /\ q.op = "takeSeat" => checks = TakeSeatChecks(room, u, q, version)
             /\ q.op = "leaveSeat" => checks = LeaveSeatChecks(room, u, version)
             /\ q.op = "setReady" => checks = SetReadyChecks(room, u, version)
             /\ q.op = "leaveRoom" => checks = LeaveRoomChecks(room, u, version)
             /\ q.op = "deleteRoom" => checks = DeleteRoomChecks(room, u, version)
             /\ q.op \in {"addBot", "removeBot"} => checks = BotChecks(room, u, q, version)
             /\ q.op = "start" => checks = StartChecks(room, u, version, connected, solo)
             /\ q.op = "invite" => checks = InviteChecks(room, u)
             /\ q.op = "chat" => checks = MemberChecks(room, u)
BY DEF Checks, Reads

LEMMA RequestOps ==
  ASSUME NEW q \in AllRequests
  PROVE  q.op \in {"get", "reconnect", "join", "takeSeat", "leaveSeat", "setReady", "leaveRoom",
                   "deleteRoom", "addBot", "removeBot", "start", "invite", "chat"}
<1>1. CASE \E op \in SeatOps, s \in Seats : q = Seat(op, s)
  BY <1>1, RequestParts DEF SeatOps
<1>2. CASE \E ready \in BOOLEAN : q = Ready(ready)
  BY <1>2, RequestParts
<1>3. CASE \E op \in {"get", "reconnect", "join", "leaveSeat", "leaveRoom", "deleteRoom",
                      "start", "invite", "chat"} : q = Plain(op)
  BY <1>3, RequestParts
<1> QED
  BY <1>1, <1>2, <1>3, RequestCases

(* A code the page knows.                                                  *)
Known(code) == code \in RoomErrorCodes \cup {None}

LEMMA KnownChecks ==
  /\ \A a, b : Known(a) /\ Known(b) => Known(a ?? b)
  /\ \A holds : \A code \in RoomErrorCodes : Known(Check(holds, code))
BY DEF Known, Check, ??

LEMMA KnownCodes ==
  {"ROOM_NOT_FOUND", "ROOM_ALREADY_ACTIVE", "ROOM_NOT_READY", "ROOM_FULL", "ROOM_CLOSED",
   "SEAT_TAKEN", "SEAT_NOT_OWNED", "SEATED_PARTICIPANT_DISCONNECTED", "STALE_ROOM_VERSION",
   "NOT_ALLOWED", "NOT_ROOM_MEMBER", "USER_ALREADY_IN_ANOTHER_ROOM"} = RoomErrorCodes
BY DEF RoomErrorCodes

LEMMA RefusalsKnown ==
  ASSUME NEW room, NEW u, NEW q \in AllRequests, NEW version, NEW connected, NEW solo,
         NEW elsewhere
  PROVE  Known(RefusalIn(room, u, q, version, connected, solo, elsewhere))
<1>1. /\ Known(None) /\ Known("ROOM_NOT_FOUND") /\ Known(OpenChecks(room))
      /\ Known(MemberChecks(room, u)) /\ Known(HostChecks(room, u))
      /\ Known(VersionChecks(room, version))
  BY KnownChecks, KnownCodes DEF OpenChecks, MemberChecks, HostChecks, VersionChecks, Known
<1>2. Known(JoinChecks(room, u, elsewhere))
  BY <1>1, KnownChecks, KnownCodes DEF JoinChecks
<1>3. Known(TakeSeatChecks(room, u, q, version))
  BY <1>1, KnownChecks, KnownCodes DEF TakeSeatChecks
<1>4. Known(LeaveSeatChecks(room, u, version)) /\ Known(SetReadyChecks(room, u, version))
  BY <1>1, KnownChecks, KnownCodes DEF LeaveSeatChecks, SetReadyChecks
<1>5. Known(LeaveRoomChecks(room, u, version)) /\ Known(DeleteRoomChecks(room, u, version))
  BY <1>1, KnownChecks, KnownCodes DEF LeaveRoomChecks, DeleteRoomChecks
<1>6. Known(BotChecks(room, u, q, version)) /\ Known(InviteChecks(room, u))
  BY <1>1, KnownChecks, KnownCodes DEF BotChecks, InviteChecks
<1>7. Known(StartChecks(room, u, version, connected, solo))
  BY <1>1, KnownChecks, KnownCodes DEF StartChecks
<1>8. Known(Checks(room, u, q, version, connected, solo, elsewhere))
  <2>1. Known(Check(room.status # "CLOSED", "ROOM_NOT_FOUND"))
    BY KnownChecks, KnownCodes
  <2> QED
    BY <1>1, <1>2, <1>3, <1>4, <1>5, <1>6, <1>7, <2>1, ChecksOf, RequestOps
<1> QED
  BY <1>1, <1>8 DEF RefusalIn

(* A request that comes from another version.                              *)
LEMMA LateRequests ==
  ASSUME NEW room, room.version \in Nat, NEW u, NEW q \in AllRequests, NEW elsewhere,
         RefusalIn(room, u, q, room.version + 1, {}, FALSE, elsewhere) = None
  PROVE  NoChange(room, u, q) \/ q.op = "join"
<1> DEFINE version == room.version + 1
           checks == Checks(room, u, q, version, {}, FALSE, elsewhere)
<1>1. checks = None \/ q.op = "chat"
  BY DEF RefusalIn, None
<1>2. VersionChecks(room, version) # None
  BY DEF VersionChecks, Check, None
<1>3. /\ q.op = "takeSeat" => checks = TakeSeatChecks(room, u, q, version)
      /\ q.op = "leaveSeat" => checks = LeaveSeatChecks(room, u, version)
      /\ q.op = "setReady" => checks = SetReadyChecks(room, u, version)
      /\ q.op = "leaveRoom" => checks = LeaveRoomChecks(room, u, version)
      /\ q.op = "deleteRoom" => checks = DeleteRoomChecks(room, u, version)
      /\ q.op \in {"addBot", "removeBot"} => checks = BotChecks(room, u, q, version)
      /\ q.op = "start" => checks = StartChecks(room, u, version, {}, FALSE)
  BY DEF Checks, Reads
<1> HIDE DEF version, checks
<1>4. CASE q.op \in {"get", "reconnect", "invite", "chat"}
  BY <1>4 DEF NoChange, Reads, OtherOps
<1>5. CASE q.op = "takeSeat"
  <2>1. TakeSeatChecks(room, u, q, version) = None
    BY <1>1, <1>3, <1>5
  <2>2. q.seat \subseteq SeatsOf(room, u)
    BY <1>2, <2>1 DEF TakeSeatChecks, ??
  <2> QED
    BY <1>5, <2>2 DEF NoChange
<1>6. CASE q.op \in {"leaveSeat", "setReady", "leaveRoom", "deleteRoom", "addBot", "removeBot",
                     "start"}
  <2>1. /\ LeaveSeatChecks(room, u, version) # None
        /\ SetReadyChecks(room, u, version) # None
        /\ LeaveRoomChecks(room, u, version) # None
        /\ DeleteRoomChecks(room, u, version) # None
        /\ BotChecks(room, u, q, version) # None
        /\ StartChecks(room, u, version, {}, FALSE) # None
    BY <1>2 DEF LeaveSeatChecks, SetReadyChecks, LeaveRoomChecks, DeleteRoomChecks,
                BotChecks, StartChecks, ??
  <2> QED
    BY <1>1, <1>3, <1>6, <2>1
<1> QED
  BY <1>4, <1>5, <1>6, RequestOps

(* Refused or not, the page reads what the service says, but for presence. *)
LEMMA AnswersRead ==
  ASSUME NEW q, NEW view, NEW code
  PROVE  /\ Known(code) /\ code # None => PageReads(q, Answer(q, code, view)) = code
         /\ q.op \in Reads /\ FitsRoomState(ToRoomStateResponse(view)) =>
              PageReads(q, Answer(q, None, view)) = OK
         /\ q.op \in Commands /\ "presence" \in DOMAIN view =>
              PageReads(q, Answer(q, None, view)) = Invalid
         /\ q.op \in OtherOps => PageReads(q, Answer(q, None, view)) = OK
<1>1. ASSUME Known(code), code # None
      PROVE  PageReads(q, Answer(q, code, view)) = code
  <2> DEFINE answer == Answer(q, code, view)
  <2>1. answer = [status |-> RoomStatus(code), code |-> code, view |-> << >>]
    BY <1>1 DEF Answer
  <2>2. RoomStatus(code) # 200
    BY DEF RoomStatus
  <2>3. code \in RoomErrorCodes
    BY <1>1 DEF Known
  <2> HIDE DEF answer
  <2>4. answer.status # 200 /\ answer.code = code
    BY <2>1, <2>2
  <2>5. PageReads(q, answer) = code
    BY <2>3, <2>4 DEF PageReads
  <2> QED
    BY <2>5 DEF answer
<1>2. ASSUME q.op \in Reads, FitsRoomState(ToRoomStateResponse(view))
      PROVE  PageReads(q, Answer(q, None, view)) = OK
  <2> DEFINE answer == Answer(q, None, view)
  <2>1. answer = [status |-> 200, code |-> None, view |-> ToRoomStateResponse(view)]
    BY <1>2 DEF Answer
  <2> HIDE DEF answer
  <2>2. answer.status = 200 /\ answer.view = ToRoomStateResponse(view)
    BY <2>1
  <2>3. PageReads(q, answer) = OK
    BY <1>2, <2>2 DEF PageReads
  <2> QED
    BY <2>3 DEF answer
<1>3. ASSUME q.op \in Commands, "presence" \in DOMAIN view
      PROVE  PageReads(q, Answer(q, None, view)) = Invalid
  <2> DEFINE answer == Answer(q, None, view)
  <2>1. q.op \notin Reads \cup OtherOps
    BY <1>3 DEF Commands, SeatOps, Reads, OtherOps
  <2>2. answer = [status |-> 200, code |-> None, view |-> view]
    BY <2>1 DEF Answer
  <2>3. ~FitsRoomState(view)
    BY <1>3 DEF FitsRoomState, RoomStateFields
  <2> HIDE DEF answer
  <2>4. answer.status = 200 /\ answer.view = view
    BY <2>2
  <2>5. PageReads(q, answer) = Invalid
    BY <2>1, <2>3, <2>4 DEF PageReads
  <2> QED
    BY <2>5 DEF answer
<1>4. ASSUME q.op \in OtherOps
      PROVE  PageReads(q, Answer(q, None, view)) = OK
  <2> DEFINE answer == Answer(q, None, view)
  <2>1. answer = [status |-> 200, code |-> None,
                  view |-> IF q.op \in Reads THEN ToRoomStateResponse(view) ELSE view]
    BY DEF Answer
  <2> HIDE DEF answer
  <2>2. answer.status = 200
    BY <2>1
  <2>3. PageReads(q, answer) = OK
    BY <1>4, <2>2 DEF PageReads
  <2> QED
    BY <2>3 DEF answer
<1> QED
  BY <1>1, <1>2, <1>3, <1>4

LEMMA LateHolds ==
  ASSUME RoomsInv, NEW u \in Users, NEW r \in Rooms
  PROVE  LateIsHarmless(u, r)
<1> SUFFICES ASSUME NEW q \in AllRequests,
                    Refusal(u, r, q, rooms[r].version + 1, {}, FALSE) = None
             PROVE  NoChange(rooms[r], u, q) \/ q.op = "join"
  BY DEF LateIsHarmless
<1> DEFINE elsewhere == RoomOf(u) \ {r} # {}
<1>1. RefusalIn(rooms[r], u, q, rooms[r].version + 1, {}, FALSE, elsewhere) = None
  BY DEF Refusal
<1>2. rooms[r].version \in Nat
  BY OpenRoom DEF RoomRecord
<1> HIDE DEF elsewhere
<1> QED
  BY <1>1, <1>2, LateRequests

(* Whatever the service reads it can say, whatever it refuses it names, and *)
(* of what it carries out it says too much.                                *)
LEMMA UnderstoodHolds ==
  ASSUME RoomsInv, NEW u \in Users, NEW r \in Rooms, rooms[r].status # "NEW"
  PROVE  PageUnderstands(u, r)
<1> DEFINE full == LoadView(r, rooms[r], u, {}, FALSE)
           Code(q) == Refusal(u, r, q, rooms[r].version, {}, FALSE)
<1> SUFFICES ASSUME NEW q \in AllRequests
             PROVE  PageReads(q, Answer(q, Code(q), full)) =
                      IF Code(q) # None THEN Code(q)
                      ELSE IF q.op \in Commands THEN Invalid ELSE OK
  BY DEF PageUnderstands
<1>1. Known(Code(q))
  <2> DEFINE elsewhere == RoomOf(u) \ {r} # {}
             solo == FALSE
  <2>1. Code(q) = RefusalIn(rooms[r], u, q, rooms[r].version, {}, solo, elsewhere)
    BY DEF Refusal
  <2> HIDE DEF elsewhere, solo, Code
  <2> QED
    BY <2>1, RefusalsKnown
<1>2. FitsRoomState(ToRoomStateResponse(full))
  <2>1. Sound(rooms[r])
    BY OpenRoom
  <2> DEFINE solo == FALSE
  <2> HIDE DEF solo
  <2>2. FitsRoomState(ToRoomStateResponse(LoadView(r, rooms[r], u, {}, solo)))
    BY <2>1, StateFits, ResponseIsState
  <2> QED
    BY <2>2 DEF solo
<1>3. "presence" \in DOMAIN full
  BY DEF LoadView
<1>4. q.op \in Commands \/ (q.op \in Reads \cup OtherOps /\ q.op \notin Commands)
  BY RequestOps DEF Commands, SeatOps, Reads, OtherOps
<1> HIDE DEF Code, full
<1> QED
  BY <1>1, <1>2, <1>3, <1>4, AnswersRead

(* A member's room is in the list, and createRoom knows its match.         *)
LEMMA ListHolds ==
  ASSUME RoomsInv, NEW u \in Users, NEW r \in Rooms
  PROVE  ListAgrees(u, r)
<1> SUFFICES ASSUME r \in RoomOf(u), r \notin overwritten
             PROVE  LET answer == CreateRoomAnswer(r, u)
                    IN  /\ RoomSummary(r) \in ListRooms
                        /\ Refusal(u, r, Plain("get"), 0, {}, FALSE) = None
                        /\ IF IsActive(rooms[r].current)
                           THEN /\ answer.kind = "ACTIVE_MATCH_EXISTS"
                                /\ matches[answer.matchId].room = r
                           ELSE ~IsBusy(rooms[r]) => FitsRoomState(answer.room)
  BY DEF ListAgrees, MembershipRoom
<1>1. Sound(rooms[r]) /\ IsMember(rooms[r], u)
  BY OpenRoom DEF RoomOf
<1>2. rooms[r].status \in {"WAITING", "ACTIVE"}
  <2>1. rooms[r].members # <<>>
    BY <1>1 DEF IsMember
  <2> QED
    BY <1>1, <2>1 DEF Sound, RoomRecord, RoomsInv, ClosedAndEmpty
<1>3. RoomSummary(r) \in ListRooms
  BY <1>2 DEF ListRooms
<1>4. Refusal(u, r, Plain("get"), 0, {}, FALSE) = None
  BY <1>2, RequestParts DEF Refusal, RefusalIn, Checks, Reads, Check
<1> DEFINE answer == CreateRoomAnswer(r, u)
<1>5. ASSUME IsActive(rooms[r].current)
      PROVE  answer.kind = "ACTIVE_MATCH_EXISTS" /\ matches[answer.matchId].room = r
  <2>1. rooms[r].current # NoMatch
    BY <1>5 DEF IsActive, NoMatch
  <2>2. answer = [ok |-> FALSE, kind |-> "ACTIVE_MATCH_EXISTS", roomId |-> r,
                  matchId |-> rooms[r].current]
    BY <2>1 DEF CreateRoomAnswer, IsBusy
  <2>3. answer.kind = "ACTIVE_MATCH_EXISTS" /\ answer.matchId = rooms[r].current
    BY <2>2
  <2> QED
    BY <2>1, <2>3 DEF RoomsInv, CurrentsOwn
<1>6. ASSUME ~IsBusy(rooms[r])
      PROVE  FitsRoomState(answer.room)
  <2> DEFINE solo == FALSE
  <2>1. answer.room = RoomState(r, rooms[r], u, {}, solo)
    BY <1>6 DEF CreateRoomAnswer
  <2> HIDE DEF answer, solo
  <2>2. FitsRoomState(RoomState(r, rooms[r], u, {}, solo))
    BY <1>1, <1>2, StateFits
  <2> QED
    BY <2>1, <2>2
<1> QED
  BY <1>3, <1>4, <1>5, <1>6

-----------------------------------------------------------------------------
(* Whether a match can start: the rules of domain.ts and those of the      *)
(* service come to the same.                                               *)

LEMMA ReadyAlike ==
  ASSUME NEW room, Sound(room), NEW u \in Users, NEW connected, NEW solo \in BOOLEAN
  PROVE  LET two   == Cardinality(Seated(room)) >= 2
             ready == SeatedHumans(room) \subseteq room.ready
             there == \A s \in SeatedHumans(room) : room.seats[s] \in connected
         IN  /\ Cardinality(Seated(room)) <= 4
             /\ AllReady(room) <=> two /\ ready
             /\ AllConnected(room, connected) <=> two /\ there
             /\ SeatsOf(room, u) # {} => /\ SeatedHumans(room) # {}
                                         /\ SoloReady(room, u, connected, solo) <=>
                                              solo /\ Alone(room, u) /\ ready /\ there
<1>1. /\ Cardinality(Seated(room)) \in 0 .. 4
      /\ Seated(room) \in SUBSET Seats
  BY FewSeats DEF Seated
<1>2. \A s \in Seats : room.seats[s] \in Users \union {Bot, Empty}
  BY DEF Sound, RoomRecord
<1>3. SeatedHumans(room) = {s \in Seated(room) : room.seats[s] # Bot}
  BY <1>2, RoomsAssumption DEF SeatedHumans, Seated
<1>4. EnoughPlayers(room) <=> Cardinality(Seated(room)) >= 2
  BY <1>1 DEF EnoughPlayers
<1>5. AllReady(room) <=>
        Cardinality(Seated(room)) >= 2 /\ SeatedHumans(room) \subseteq room.ready
  BY <1>3, <1>4 DEF AllReady
<1>6. AllConnected(room, connected) <=>
        /\ Cardinality(Seated(room)) >= 2
        /\ \A s \in SeatedHumans(room) : room.seats[s] \in connected
  BY <1>4 DEF AllConnected
<1>7. ASSUME SeatsOf(room, u) # {}
      PROVE  /\ SeatedHumans(room) # {}
             /\ SoloReady(room, u, connected, solo) <=>
                  /\ solo /\ Alone(room, u) /\ SeatedHumans(room) \subseteq room.ready
                  /\ \A s \in SeatedHumans(room) : room.seats[s] \in connected
  <2>1. SeatsOf(room, u) \subseteq SeatedHumans(room)
    BY DEF SeatsOf, SeatedHumans
  <2>2. Alone(room, u) => /\ SeatedHumans(room) = Seated(room)
                          /\ \A s \in SeatedHumans(room) : room.seats[s] = u
    BY <1>3, RoomsAssumption DEF Alone
  <2> QED
    BY <1>7, <2>1, <2>2 DEF SoloReady
<1> QED
  BY <1>1, <1>5, <1>6, <1>7

LEMMA StartAgrees ==
  ASSUME NEW room, Sound(room), room.status # "NEW", NEW u \in Users, NEW connected,
         NEW solo \in BOOLEAN,
         NEW start, start = StartChecks(room, u, room.version, connected, solo)
  PROVE  /\ start = None <=>
              /\ IsMember(room, u) /\ SeatsOf(room, u) # {} /\ IsOpen(room)
              /\ MayStart(room, u, connected, solo)
         /\ ~(solo /\ Alone(room, u)) => StartBlockedReason(room, u, connected, solo) = start
<1> DEFINE two   == Cardinality(Seated(room)) >= 2
           ready == SeatedHumans(room) \subseteq room.ready
           there == \A s \in SeatedHumans(room) : room.seats[s] \in connected
<1>1. /\ Cardinality(Seated(room)) <= 4
      /\ AllReady(room) <=> two /\ ready
      /\ AllConnected(room, connected) <=> two /\ there
      /\ SeatsOf(room, u) # {} => /\ SeatedHumans(room) # {}
                                  /\ SoloReady(room, u, connected, solo) <=>
                                       solo /\ Alone(room, u) /\ ready /\ there
  BY ReadyAlike
<1>2. start = (IF ~IsMember(room, u) THEN "NOT_ROOM_MEMBER"
               ELSE IF room.status = "CLOSED" THEN "ROOM_CLOSED"
               ELSE IF ~IsOpen(room) THEN "ROOM_ALREADY_ACTIVE"
               ELSE IF SeatsOf(room, u) = {} THEN "SEAT_NOT_OWNED"
               ELSE IF ~(two \/ (solo /\ Alone(room, u))) THEN "ROOM_NOT_READY"
               ELSE IF ~ready THEN "ROOM_NOT_READY"
               ELSE IF ~there THEN "SEATED_PARTICIPANT_DISCONNECTED"
               ELSE None)
  BY <1>1 DEF StartChecks, MemberChecks, OpenChecks, VersionChecks, Check, ??, None
<1>3. StartBlockedReason(room, u, connected, solo) =
        (IF ~IsMember(room, u) THEN "NOT_ROOM_MEMBER"
         ELSE IF room.status = "CLOSED" THEN "ROOM_CLOSED"
         ELSE IF ~IsOpen(room) THEN "ROOM_ALREADY_ACTIVE"
         ELSE IF SeatsOf(room, u) = {} THEN "SEAT_NOT_OWNED"
         ELSE IF ~(AllReady(room) \/ SoloReady(room, u, connected, solo)) THEN "ROOM_NOT_READY"
         ELSE IF ~(AllConnected(room, connected) \/ SoloReady(room, u, connected, solo))
         THEN "SEATED_PARTICIPANT_DISCONNECTED"
         ELSE None)
  BY DEF StartBlockedReason, Check, ??, None
<1>4. IsOpen(room) => room.status # "CLOSED"
  BY DEF IsOpen
<1> HIDE DEF two, ready, there
<1>5. start = None <=>
        /\ IsMember(room, u) /\ SeatsOf(room, u) # {} /\ IsOpen(room)
        /\ MayStart(room, u, connected, solo)
  BY <1>1, <1>2, <1>4 DEF None, MayStart
<1>6. ~(solo /\ Alone(room, u)) => StartBlockedReason(room, u, connected, solo) = start
  BY <1>1, <1>2, <1>3
<1> QED
  BY <1>5, <1>6

-----------------------------------------------------------------------------
(* The lobby of an open room.                                              *)

(* What the service accepts there, but for the start of the match.         *)
Accepts(room, u, q, elsewhere) ==
  \/ q.op \in {"get", "reconnect"}
  \/ q.op = "join" /\ (IsMember(room, u) \/ (Len(room.members) < Capacity /\ ~elsewhere))
  \/ /\ q.op = "takeSeat" /\ IsMember(room, u)
     /\ \/ q.seat \subseteq SeatsOf(room, u)
        \/ SeatsOf(room, u) = {} /\ q.seat \cap Seated(room) = {}
  \/ q.op = "setReady" /\ IsMember(room, u) /\ SeatsOf(room, u) # {}
  \/ q.op \in {"leaveSeat", "leaveRoom", "invite", "chat"} /\ IsMember(room, u)
  \/ q.op = "deleteRoom" /\ IsHost(room, u)
  \/ q.op = "addBot" /\ IsHost(room, u) /\ q.seat \cap Seated(room) = {}
  \/ q.op = "removeBot" /\ IsHost(room, u) /\ \A s \in q.seat : room.seats[s] = Bot

LEMMA OpenRoomFields ==
  ASSUME NEW room, Sound(room), IsOpen(room), NEW u \in Users
  PROVE  /\ room.status = "WAITING" /\ room.current = NoMatch /\ ~IsBusy(room)
         /\ OpenChecks(room) = None /\ VersionChecks(room, room.version) = None
         /\ IsHost(room, u) => IsMember(room, u)
         /\ SeatsOf(room, u) # {} => IsMember(room, u)
<1>1. room.members \in Seq(Users)
  BY DEF Sound, RoomRecord
<1>2. IsHost(room, u) => IsMember(room, u)
  BY <1>1 DEF IsHost, IsMember
<1>3. SeatsOf(room, u) # {} => IsMember(room, u)
  BY DEF SeatsOf, Sound, SeatedOnce, SeatedHumans
<1> QED
  BY <1>2, <1>3 DEF IsOpen, IsBusy, OpenChecks, VersionChecks, Check, ??, None

LEMMA AcceptedWhen ==
  ASSUME NEW room, Sound(room), IsOpen(room), NEW u \in Users, NEW q \in AllRequests,
         q.op # "start", NEW connected, NEW solo, NEW elsewhere
  PROVE  RefusalIn(room, u, q, room.version, connected, solo, elsewhere) = None
           <=> Accepts(room, u, q, elsewhere)
<1> DEFINE checks == Checks(room, u, q, room.version, connected, solo, elsewhere)
<1>1. /\ room.status = "WAITING" /\ room.current = NoMatch /\ ~IsBusy(room)
      /\ OpenChecks(room) = None /\ VersionChecks(room, room.version) = None
      /\ IsHost(room, u) => IsMember(room, u)
  BY OpenRoomFields
<1>2. RefusalIn(room, u, q, room.version, connected, solo, elsewhere) = checks
  BY <1>1 DEF RefusalIn
<1>3. /\ MemberChecks(room, u) = None <=> IsMember(room, u)
      /\ HostChecks(room, u) = None <=> IsHost(room, u)
  BY <1>1 DEF HostChecks, MemberChecks, Check, ??, None
<1>4. CASE q.op \in {"get", "reconnect"}
  <2>1. checks = Check(room.status # "CLOSED", "ROOM_NOT_FOUND")
    BY <1>4, ChecksOf
  <2> HIDE DEF checks
  <2> QED
    BY <1>1, <1>2, <1>4, <2>1 DEF Check, None, Accepts
<1>5. CASE q.op = "join"
  <2>1. checks = JoinChecks(room, u, elsewhere)
    BY <1>5, ChecksOf
  <2>2. JoinChecks(room, u, elsewhere) = None
          <=> IsMember(room, u) \/ (Len(room.members) < Capacity /\ ~elsewhere)
    BY <1>1 DEF JoinChecks, Check, ??, None
  <2> HIDE DEF checks
  <2> QED
    BY <1>2, <1>5, <2>1, <2>2 DEF Accepts
<1>6. CASE q.op = "takeSeat"
  <2>1. checks = TakeSeatChecks(room, u, q, room.version)
    BY <1>6, ChecksOf
  <2>2. TakeSeatChecks(room, u, q, room.version) = None
          <=> /\ IsMember(room, u)
              /\ \/ q.seat \subseteq SeatsOf(room, u)
                 \/ SeatsOf(room, u) = {} /\ q.seat \cap Seated(room) = {}
    BY <1>1, <1>3 DEF TakeSeatChecks, Check, ??, None
  <2> HIDE DEF checks
  <2> QED
    BY <1>2, <1>6, <2>1, <2>2 DEF Accepts
<1>7. CASE q.op \in {"leaveSeat", "setReady", "leaveRoom"}
  <2>1. /\ q.op = "leaveSeat" => checks = LeaveSeatChecks(room, u, room.version)
        /\ q.op = "setReady" => checks = SetReadyChecks(room, u, room.version)
        /\ q.op = "leaveRoom" => checks = LeaveRoomChecks(room, u, room.version)
    BY ChecksOf
  <2>2. /\ LeaveSeatChecks(room, u, room.version) = None <=> IsMember(room, u)
        /\ SetReadyChecks(room, u, room.version) = None
             <=> IsMember(room, u) /\ SeatsOf(room, u) # {}
        /\ LeaveRoomChecks(room, u, room.version) = None <=> IsMember(room, u)
    BY <1>1, <1>3 DEF LeaveSeatChecks, SetReadyChecks, LeaveRoomChecks, Check, ??, None
  <2> HIDE DEF checks
  <2> QED
    BY <1>2, <1>7, <2>1, <2>2 DEF Accepts
<1>8. CASE q.op = "deleteRoom"
  <2>1. checks = DeleteRoomChecks(room, u, room.version)
    BY <1>8, ChecksOf
  <2>2. DeleteRoomChecks(room, u, room.version) = None <=> IsHost(room, u)
    BY <1>1, <1>3 DEF DeleteRoomChecks, Check, ??, None
  <2> HIDE DEF checks
  <2> QED
    BY <1>2, <1>8, <2>1, <2>2 DEF Accepts
<1>9. CASE q.op \in {"addBot", "removeBot"}
  <2>1. checks = BotChecks(room, u, q, room.version)
    BY <1>9, ChecksOf
  <2>2. BotChecks(room, u, q, room.version) = None
          <=> /\ IsHost(room, u)
              /\ IF q.op = "addBot" THEN q.seat \cap Seated(room) = {}
                 ELSE \A s \in q.seat : room.seats[s] = Bot
    BY <1>1, <1>3 DEF BotChecks, Check, ??, None
  <2> HIDE DEF checks
  <2> QED
    BY <1>2, <1>9, <2>1, <2>2 DEF Accepts
<1>10. CASE q.op \in {"invite", "chat"}
  <2>1. /\ q.op = "invite" => checks = InviteChecks(room, u)
        /\ q.op = "chat" => checks = MemberChecks(room, u)
    BY ChecksOf
  <2>2. InviteChecks(room, u) = None <=> IsMember(room, u)
    BY <1>1, <1>3 DEF InviteChecks, ??
  <2> HIDE DEF checks
  <2> QED
    BY <1>2, <1>3, <1>10, <2>1, <2>2 DEF Accepts
<1> QED
  BY <1>4, <1>5, <1>6, <1>7, <1>8, <1>9, <1>10, RequestOps

LEMMA Kinds ==
  ASSUME NEW room, Sound(room), NEW s \in Seats
  PROVE  /\ room.seats[s] \in Users \union {Bot, Empty}
         /\ room.seats[s] = Empty => Kind(room.seats[s]) = None
         /\ room.seats[s] = Bot => Kind(room.seats[s]) = "BOT"
         /\ room.seats[s] \in Users => Kind(room.seats[s]) = "HUMAN"
<1>1. room.seats[s] \in Users \union {Bot, Empty}
  BY DEF Sound, RoomRecord
<1>2. Bot # Empty
  BY DEF Bot, Empty
<1> QED
  BY <1>1, <1>2, RoomsAssumption DEF Kind

(* A user looks at the lobby of an open room, and what he could ask for    *)
(* there with success.                                                     *)
InLobby(u, r, view, can, connected, solo) ==
  /\ IsOpen(rooms[r])
  /\ view = RoomState(r, rooms[r], u, connected, solo)
  /\ \A q : q \in can <=> /\ q \in AllRequests
                          /\ IF q.op = "start" THEN view.currentUser.canStart
                             ELSE Accepts(rooms[r], u, q, RoomOf(u) \ {r} # {})

LEMMA LobbyParts ==
  ASSUME RoomsInv, NEW u \in Users, NEW r \in Rooms, NEW view, NEW can,
         NEW connected, NEW solo, InLobby(u, r, view, can, connected, solo)
  PROVE  /\ view.currentUser.isMember <=> IsMember(rooms[r], u)
         /\ view.currentUser.seatIndex = SeatsOf(rooms[r], u)
         /\ view.currentUser.canStart <=>
              /\ IsMember(rooms[r], u) /\ SeatsOf(rooms[r], u) # {} /\ IsOpen(rooms[r])
              /\ MayStart(rooms[r], u, connected, solo)
         /\ view.currentUser.canManageBots <=> IsHost(rooms[r], u)
         /\ Conflict(view, u) = IF IsMember(rooms[r], u) THEN {} ELSE RoomOf(u) \ {r}
         /\ AvailableSeats(view) = {s \in Seats : rooms[r].seats[s] = Empty}
         /\ CanDelete(view) <=> IsHost(rooms[r], u)
         /\ \A s \in Seats : view.seats[s].ready = (s \in rooms[r].ready)
<1>1. /\ view.id = r /\ view.status = "WAITING" /\ view.currentMatchId = NoMatch
      /\ view.currentUser = CurrentUser(rooms[r], u, connected, solo)
      /\ \A s \in Seats : /\ view.seats[s].participant = rooms[r].seats[s]
                          /\ view.seats[s].ready = (s \in rooms[r].ready)
  BY ViewFields DEF InLobby, IsOpen
<1> DEFINE me == CurrentUser(rooms[r], u, connected, solo)
<1>2. /\ me.isMember <=> IsMember(rooms[r], u)
      /\ me.seatIndex = SeatsOf(rooms[r], u)
      /\ me.canStart <=>
           /\ IsMember(rooms[r], u) /\ SeatsOf(rooms[r], u) # {} /\ IsOpen(rooms[r])
           /\ MayStart(rooms[r], u, connected, solo)
      /\ me.canManageBots <=> IsOpen(rooms[r]) /\ IsHost(rooms[r], u)
  BY UserFields
<1>3. me.canManageBots <=> IsHost(rooms[r], u)
  BY <1>2 DEF InLobby
<1> HIDE DEF me
<1>4. CanDelete(view) <=> IsHost(rooms[r], u)
  BY <1>1, <1>3 DEF CanDelete, ShowsLobby, me
<1>5. AvailableSeats(view) = {s \in Seats : rooms[r].seats[s] = Empty}
  BY <1>1 DEF AvailableSeats
<1>6. Conflict(view, u) = IF IsMember(rooms[r], u) THEN {} ELSE RoomOf(u) \ {r}
  BY <1>1, <1>2 DEF Conflict, MembershipRoom, me
<1> QED
  BY <1>1, <1>2, <1>3, <1>4, <1>5, <1>6 DEF me

(* The bots' buttons of the host: a free seat takes one, and a bot goes.   *)
LEMMA BotOffers ==
  ASSUME RoomsInv, NEW u \in Users, NEW r \in Rooms, NEW view, NEW can,
         NEW connected, NEW solo, InLobby(u, r, view, can, connected, solo),
         NEW s \in Seats, NEW q
  PROVE  q \in BotButtons(view, s) <=>
           /\ IsHost(rooms[r], u)
           /\ \/ rooms[r].seats[s] = Bot /\ q = Seat("removeBot", s)
              \/ rooms[r].seats[s] = Empty /\ q = Seat("addBot", s)
<1>1. view.status # "ACTIVE" /\ view.seats[s].kind = Kind(rooms[r].seats[s])
  BY ViewFields DEF InLobby, IsOpen
<1>2. view.currentUser.canManageBots <=> IsHost(rooms[r], u)
  BY LobbyParts
<1>3. /\ rooms[r].seats[s] \in Users \union {Bot, Empty}
      /\ rooms[r].seats[s] = Empty => Kind(rooms[r].seats[s]) = None
      /\ rooms[r].seats[s] = Bot => Kind(rooms[r].seats[s]) = "BOT"
      /\ rooms[r].seats[s] \in Users => Kind(rooms[r].seats[s]) = "HUMAN"
  BY OpenRoom, Kinds
<1>4. Bot # Empty /\ Bot \notin Users /\ Empty \notin Users
  BY RoomsAssumption DEF Bot, Empty
<1> QED
  BY <1>1, <1>2, <1>3, <1>4 DEF BotButtons, When, None

(* The buttons both lobbies have.                                          *)
CommonOffer(view, u, q) ==
  \/ q = Plain("join") /\ ~view.currentUser.isMember /\ Conflict(view, u) = {}
  \/ q = Plain("start") /\ view.currentUser.canStart
  \/ \E s \in view.currentUser.seatIndex : q \in {Ready(~view.seats[s].ready), Plain("leaveSeat")}
  \/ q = Plain("deleteRoom") /\ CanDelete(view)
  \/ q = Plain("leaveRoom") /\ view.currentUser.isMember

LEMMA CompactOffers ==
  ASSUME NEW view, NEW u, NEW q
  PROVE  q \in OfferedCompact(view, u) <=>
           \/ CommonOffer(view, u, q)
           \/ /\ view.currentUser.isMember /\ view.currentUser.seatIndex = {}
              /\ \E s \in AvailableSeats(view) : q = Seat("takeSeat", s)
           \/ view.currentUser.isMember /\ q = Plain("invite")
           \/ q = Plain("leaveRoom") /\ \A p \in Conflict(view, u) : IsBusy(rooms[p])
           \/ \E s \in Seats : q \in BotButtons(view, s)
BY DEF OfferedCompact, CommonOffer, Join, OwnSeat, When

LEMMA WideOffers ==
  ASSUME NEW view, NEW u, NEW q
  PROVE  q \in OfferedWide(view, u) <=>
           \/ CommonOffer(view, u, q)
           \/ /\ view.currentUser.isMember /\ view.currentUser.seatIndex = {}
              /\ \E s \in Seats :
                   /\ q = Seat("takeSeat", s)
                   /\ ~\E i \in 1 .. Len(view.members) : view.members[i] = view.seats[s].participant
BY DEF OfferedWide, CommonOffer, Join, OwnSeat, When

LEMMA CommonAnswers ==
  ASSUME RoomsInv, NEW u \in Users, NEW r \in Rooms, NEW view, NEW can,
         NEW connected, NEW solo, InLobby(u, r, view, can, connected, solo),
         NEW q, CommonOffer(view, u, q)
  PROVE  /\ q.op \in {"join", "start", "setReady", "leaveSeat", "deleteRoom", "leaveRoom"}
         /\ q \in can <=> ~(q = Plain("join") /\ Len(rooms[r].members) >= Capacity)
         /\ q = Plain("leaveRoom") => IsMember(rooms[r], u)
<1> DEFINE room == rooms[r]
           me   == view.currentUser
           elsewhere == RoomOf(u) \ {r} # {}
<1>1. /\ me.isMember <=> IsMember(room, u)
      /\ me.seatIndex = SeatsOf(room, u)
      /\ Conflict(view, u) = IF IsMember(room, u) THEN {} ELSE RoomOf(u) \ {r}
      /\ CanDelete(view) <=> IsHost(room, u)
  BY LobbyParts
<1>2. /\ SeatsOf(room, u) # {} => IsMember(room, u)
      /\ IsHost(room, u) => IsMember(room, u)
  BY OpenRoom, OpenRoomFields DEF InLobby
<1>3. q \in can <=> /\ q \in AllRequests
                    /\ IF q.op = "start" THEN me.canStart ELSE Accepts(room, u, q, elsewhere)
  BY DEF InLobby
<1>4. Len(room.members) \in Nat /\ Capacity \in Nat
  BY OpenRoom, RoomsAssumption DEF RoomRecord
<1> HIDE DEF room, me, elsewhere
<1>5. CASE q = Plain("join") /\ ~me.isMember /\ Conflict(view, u) = {}
  <2>1. q.op = "join" /\ q \in AllRequests
    BY <1>5, RequestParts, RequestsThere
  <2>2. Accepts(room, u, q, elsewhere) <=> Len(room.members) < Capacity
    BY <1>1, <1>5, <2>1 DEF Accepts, elsewhere
  <2>3. q # Plain("leaveRoom")
    BY <2>1, RequestParts
  <2> QED
    BY <1>3, <1>4, <1>5, <2>1, <2>2, <2>3 DEF room
<1>6. CASE q = Plain("start") /\ me.canStart
  <2>1. q.op = "start" /\ q \in AllRequests
    BY <1>6, RequestParts, RequestsThere
  <2>2. q # Plain("join") /\ q # Plain("leaveRoom")
    BY <2>1, RequestParts
  <2> QED
    BY <1>3, <1>6, <2>1, <2>2
<1>7. ASSUME NEW s \in me.seatIndex, q \in {Ready(~view.seats[s].ready), Plain("leaveSeat")}
      PROVE  /\ q.op \in {"setReady", "leaveSeat"} /\ q \in can
             /\ q # Plain("join") /\ q # Plain("leaveRoom")
  <2>1. IsMember(room, u) /\ SeatsOf(room, u) # {}
    BY <1>1, <1>2, <1>7
  <2>2. q.op \in {"setReady", "leaveSeat"} /\ q \in AllRequests
    BY <1>7, RequestParts, RequestsThere
  <2>3. Accepts(room, u, q, elsewhere)
    BY <2>1, <2>2 DEF Accepts
  <2>4. q # Plain("join") /\ q # Plain("leaveRoom")
    BY <2>2, RequestParts
  <2> QED
    BY <1>3, <2>2, <2>3, <2>4
<1>8. CASE q = Plain("deleteRoom") /\ CanDelete(view)
  <2>1. q.op = "deleteRoom" /\ q \in AllRequests
    BY <1>8, RequestParts, RequestsThere
  <2>2. q # Plain("join") /\ q # Plain("leaveRoom")
    BY <2>1, RequestParts
  <2>3. Accepts(room, u, q, elsewhere)
    BY <1>1, <1>8, <2>1 DEF Accepts
  <2> QED
    BY <1>3, <2>1, <2>2, <2>3
<1>9. CASE q = Plain("leaveRoom") /\ me.isMember
  <2>1. q.op = "leaveRoom" /\ q \in AllRequests
    BY <1>9, RequestParts, RequestsThere
  <2>2. q # Plain("join")
    BY <2>1, RequestParts
  <2>3. Accepts(room, u, q, elsewhere)
    BY <1>1, <1>9, <2>1 DEF Accepts
  <2> QED
    BY <1>1, <1>3, <1>9, <2>1, <2>2, <2>3 DEF room
<1> QED
  BY <1>5, <1>6, <1>7, <1>8, <1>9 DEF CommonOffer, me

(* The other buttons: seats, bots, invites and leaving.                    *)
LEMMA OtherAnswers ==
  ASSUME RoomsInv, NEW u \in Users, NEW r \in Rooms, NEW view, NEW can,
         NEW connected, NEW solo, InLobby(u, r, view, can, connected, solo)
  PROVE  /\ IsMember(rooms[r], u) /\ SeatsOf(rooms[r], u) = {} =>
              \A s \in Seats : Seat("takeSeat", s) \in can <=> rooms[r].seats[s] = Empty
         /\ \A s \in Seats : \A q : q \in BotButtons(view, s) => q \in can /\ q.op \in SeatOps
         /\ Plain("invite") \in can <=> IsMember(rooms[r], u)
         /\ Plain("leaveRoom") \in can <=> IsMember(rooms[r], u)
<1> DEFINE elsewhere == RoomOf(u) \ {r} # {}
<1>1. \A q : q \in can <=> /\ q \in AllRequests
                           /\ IF q.op = "start" THEN view.currentUser.canStart
                              ELSE Accepts(rooms[r], u, q, elsewhere)
  BY DEF InLobby
<1> HIDE DEF elsewhere
<1>2. ASSUME IsMember(rooms[r], u), SeatsOf(rooms[r], u) = {}, NEW s \in Seats
      PROVE  Seat("takeSeat", s) \in can <=> rooms[r].seats[s] = Empty
  <2> DEFINE q == Seat("takeSeat", s)
  <2>1. q \in AllRequests /\ q.op = "takeSeat" /\ q.seat = {s}
    BY RequestParts, RequestsThere DEF SeatOps
  <2>2. q.seat \cap Seated(rooms[r]) = {} <=> rooms[r].seats[s] = Empty
    BY <2>1 DEF Seated
  <2> HIDE DEF q
  <2>3. Accepts(rooms[r], u, q, elsewhere) <=> rooms[r].seats[s] = Empty
    BY <1>2, <2>1, <2>2 DEF Accepts
  <2>4. q \in can <=> rooms[r].seats[s] = Empty
    BY <1>1, <2>1, <2>3
  <2> QED
    BY <2>4 DEF q
<1>3. ASSUME NEW s \in Seats, NEW q, q \in BotButtons(view, s)
      PROVE  q \in can /\ q.op \in SeatOps
  <2>1. /\ IsHost(rooms[r], u)
        /\ \/ rooms[r].seats[s] = Bot /\ q = Seat("removeBot", s)
           \/ rooms[r].seats[s] = Empty /\ q = Seat("addBot", s)
    BY <1>3, BotOffers
  <2>2. CASE rooms[r].seats[s] = Bot /\ q = Seat("removeBot", s)
    <3>1. q \in AllRequests /\ q.op = "removeBot" /\ q.seat = {s}
      BY <2>2, RequestParts, RequestsThere DEF SeatOps
    <3>2. Accepts(rooms[r], u, q, elsewhere)
      BY <2>1, <2>2, <3>1 DEF Accepts
    <3> QED
      BY <1>1, <3>1, <3>2 DEF SeatOps
  <2>3. CASE rooms[r].seats[s] = Empty /\ q = Seat("addBot", s)
    <3>1. q \in AllRequests /\ q.op = "addBot" /\ q.seat = {s}
      BY <2>3, RequestParts, RequestsThere DEF SeatOps
    <3>2. Accepts(rooms[r], u, q, elsewhere)
      BY <2>1, <2>3, <3>1 DEF Accepts, Seated
    <3> QED
      BY <1>1, <3>1, <3>2 DEF SeatOps
  <2> QED
    BY <2>1, <2>2, <2>3
<1>4. ASSUME NEW op \in {"invite", "leaveRoom"}
      PROVE  Plain(op) \in can <=> IsMember(rooms[r], u)
  <2> DEFINE q == Plain(op)
  <2>1. q \in AllRequests /\ q.op = op
    BY RequestParts, RequestsThere
  <2> HIDE DEF q
  <2>2. Accepts(rooms[r], u, q, elsewhere) <=> IsMember(rooms[r], u)
    BY <2>1 DEF Accepts
  <2>3. q \in can <=> IsMember(rooms[r], u)
    BY <1>1, <2>1, <2>2
  <2> QED
    BY <2>3 DEF q
<1> QED
  BY <1>2, <1>3, <1>4

(* On the small screen the service refuses nothing but the buttons named.  *)
LEMMA CompactAgrees ==
  ASSUME RoomsInv, NEW u \in Users, NEW r \in Rooms, NEW view, NEW can,
         NEW connected, NEW solo, InLobby(u, r, view, can, connected, solo)
  PROVE  OfferedCompact(view, u) \ can = OfferedCompact(view, u) \cap RefusedCompact(view)
<1> SUFFICES ASSUME NEW q, q \in OfferedCompact(view, u)
             PROVE  q \notin can <=> q \in RefusedCompact(view)
  OBVIOUS
<1>1. /\ view.currentUser.isMember <=> IsMember(rooms[r], u)
      /\ view.currentUser.seatIndex = SeatsOf(rooms[r], u)
      /\ AvailableSeats(view) = {s \in Seats : rooms[r].seats[s] = Empty}
  BY LobbyParts
<1>2. view.members = rooms[r].members
  BY ViewFields DEF InLobby
<1>3. q \in RefusedCompact(view) <=>
        \/ Len(rooms[r].members) >= Capacity /\ q = Plain("join")
        \/ ~IsMember(rooms[r], u) /\ q = Plain("leaveRoom")
  BY <1>1, <1>2 DEF RefusedCompact, When
<1>4. /\ IsMember(rooms[r], u) /\ SeatsOf(rooms[r], u) = {} =>
           \A s \in Seats : Seat("takeSeat", s) \in can <=> rooms[r].seats[s] = Empty
      /\ \A s \in Seats : \A p : p \in BotButtons(view, s) => p \in can /\ p.op \in SeatOps
      /\ Plain("invite") \in can <=> IsMember(rooms[r], u)
      /\ Plain("leaveRoom") \in can <=> IsMember(rooms[r], u)
  BY OtherAnswers
<1>5. \A p : p.op \in SeatOps \cup {"invite"} => p # Plain("join") /\ p # Plain("leaveRoom")
  BY RequestParts DEF SeatOps
<1>6. CASE CommonOffer(view, u, q)
  BY <1>3, <1>6, CommonAnswers
<1>7. CASE /\ view.currentUser.isMember /\ view.currentUser.seatIndex = {}
           /\ \E s \in AvailableSeats(view) : q = Seat("takeSeat", s)
  <2>1. q \in can
    BY <1>1, <1>4, <1>7
  <2>2. q.op \in SeatOps
    BY <1>7, RequestParts DEF SeatOps
  <2> QED
    BY <1>3, <1>5, <2>1, <2>2
<1>8. CASE view.currentUser.isMember /\ q = Plain("invite")
  <2>1. q \in can /\ q.op = "invite"
    BY <1>1, <1>4, <1>8, RequestParts
  <2> QED
    BY <1>3, <1>5, <2>1
<1>9. CASE q = Plain("leaveRoom")
  <2>1. q # Plain("join")
    BY <1>9, RequestParts
  <2> QED
    BY <1>3, <1>4, <1>9, <2>1
<1>10. CASE \E s \in Seats : q \in BotButtons(view, s)
  BY <1>3, <1>4, <1>5, <1>10
<1> QED
  BY <1>6, <1>7, <1>8, <1>9, <1>10, CompactOffers

(* On the wide screen the seats of the bots look free.                     *)
LEMMA WideAgrees ==
  ASSUME RoomsInv, NEW u \in Users, NEW r \in Rooms, NEW view, NEW can,
         NEW connected, NEW solo, InLobby(u, r, view, can, connected, solo)
  PROVE  OfferedWide(view, u) \ can = OfferedWide(view, u) \cap RefusedWide(view)
<1> SUFFICES ASSUME NEW q, q \in OfferedWide(view, u)
             PROVE  q \notin can <=> q \in RefusedWide(view)
  OBVIOUS
<1>1. /\ view.currentUser.isMember <=> IsMember(rooms[r], u)
      /\ view.currentUser.seatIndex = SeatsOf(rooms[r], u)
  BY LobbyParts
<1>2. /\ view.members = rooms[r].members
      /\ \A s \in Seats : /\ view.seats[s].participant = rooms[r].seats[s]
                          /\ view.seats[s].kind = Kind(rooms[r].seats[s])
  BY ViewFields DEF InLobby
<1>3. Sound(rooms[r])
  BY OpenRoom
<1>4. \A s \in Seats : view.seats[s].kind = "BOT" <=> rooms[r].seats[s] = Bot
  BY <1>2, <1>3, Kinds, RoomsAssumption DEF None
<1>5. q \in RefusedWide(view) <=>
        \/ Len(rooms[r].members) >= Capacity /\ q = Plain("join")
        \/ \E s \in Seats : rooms[r].seats[s] = Bot /\ q = Seat("takeSeat", s)
  BY <1>2, <1>4 DEF RefusedWide, When
<1>6. CASE CommonOffer(view, u, q)
  <2>1. \A s : q # Seat("takeSeat", s)
    BY <1>6, CommonAnswers, RequestParts
  <2> QED
    BY <1>5, <1>6, <2>1, CommonAnswers
<1>7. ASSUME view.currentUser.isMember, view.currentUser.seatIndex = {},
             NEW s \in Seats, q = Seat("takeSeat", s),
             ~\E i \in 1 .. Len(view.members) : view.members[i] = view.seats[s].participant
      PROVE  q \notin can <=> q \in RefusedWide(view)
  <2>1. q \in can <=> rooms[r].seats[s] = Empty
    <3>1. IsMember(rooms[r], u) /\ SeatsOf(rooms[r], u) = {} =>
            \A t \in Seats : Seat("takeSeat", t) \in can <=> rooms[r].seats[t] = Empty
      BY OtherAnswers
    <3> QED
      BY <1>1, <1>7, <3>1
  <2>2. rooms[r].seats[s] \in {Empty, Bot}
    <3>1. ~IsMember(rooms[r], rooms[r].seats[s])
      BY <1>2, <1>7 DEF IsMember
    <3>2. s \notin SeatedHumans(rooms[r])
      BY <1>3, <3>1 DEF Sound, SeatedOnce
    <3> QED
      BY <1>3, <3>2, Kinds DEF SeatedHumans
  <2>3. q # Plain("join") /\ \A t : q = Seat("takeSeat", t) <=> t = s
    <3>1. q.op = "takeSeat" /\ q.seat = {s}
      BY <1>7, RequestParts
    <3>2. \A t : q = Seat("takeSeat", t) => {t} = {s}
      BY <3>1, RequestParts
    <3> QED
      BY <1>7, <3>1, <3>2, RequestParts
  <2>4. q \in RefusedWide(view) <=> rooms[r].seats[s] = Bot
    BY <1>5, <1>7, <2>3
  <2> QED
    BY <2>1, <2>2, <2>4 DEF Bot, Empty
<1> QED
  BY <1>6, <1>7, WideOffers

(* Whatever would change the room there is a button for.                   *)
LEMMA EverythingOffered ==
  ASSUME RoomsInv, NEW u \in Users, NEW r \in Rooms, NEW view, NEW can,
         NEW connected, NEW solo, InLobby(u, r, view, can, connected, solo),
         NEW q \in can, ~NoChange(rooms[r], u, q) \/ q.op = "invite"
  PROVE  q \in OfferedCompact(view, u)
<1> DEFINE elsewhere == RoomOf(u) \ {r} # {}
<1>1. /\ q \in AllRequests
      /\ IF q.op = "start" THEN view.currentUser.canStart
         ELSE Accepts(rooms[r], u, q, elsewhere)
  BY DEF InLobby
<1>2. /\ view.currentUser.isMember <=> IsMember(rooms[r], u)
      /\ view.currentUser.seatIndex = SeatsOf(rooms[r], u)
      /\ AvailableSeats(view) = {s \in Seats : rooms[r].seats[s] = Empty}
      /\ CanDelete(view) <=> IsHost(rooms[r], u)
  BY LobbyParts
<1>3. Conflict(view, u) = IF IsMember(rooms[r], u) THEN {} ELSE RoomOf(u) \ {r}
  BY LobbyParts
<1>4. \A s \in Seats : view.seats[s].ready = (s \in rooms[r].ready)
  BY LobbyParts
<1>5. CASE \E op \in SeatOps, s \in Seats : q = Seat(op, s)
  <2> PICK op \in SeatOps, s \in Seats : q = Seat(op, s)
    BY <1>5
  <2>1. q.op = op /\ q.seat = {s} /\ op \in {"takeSeat", "addBot", "removeBot"}
    BY RequestParts DEF SeatOps
  <2>2. CASE op = "takeSeat"
    <3>1. ~(q.seat \subseteq SeatsOf(rooms[r], u))
      BY <2>1, <2>2 DEF NoChange
    <3>2. /\ IsMember(rooms[r], u) /\ SeatsOf(rooms[r], u) = {}
          /\ q.seat \cap Seated(rooms[r]) = {}
      BY <1>1, <2>1, <2>2, <3>1 DEF Accepts
    <3>3. rooms[r].seats[s] = Empty
      BY <2>1, <3>2 DEF Seated
    <3> QED
      BY <1>2, <2>2, <3>2, <3>3, CompactOffers
  <2>3. CASE op = "addBot"
    <3>1. IsHost(rooms[r], u) /\ q.seat \cap Seated(rooms[r]) = {}
      BY <1>1, <2>1, <2>3 DEF Accepts
    <3>2. rooms[r].seats[s] = Empty
      BY <2>1, <3>1 DEF Seated
    <3>3. q \in BotButtons(view, s)
      BY <2>3, <3>1, <3>2, BotOffers
    <3> QED
      BY <3>3, CompactOffers
  <2>4. CASE op = "removeBot"
    <3>1. IsHost(rooms[r], u) /\ rooms[r].seats[s] = Bot
      BY <1>1, <2>1, <2>4 DEF Accepts
    <3>2. q \in BotButtons(view, s)
      BY <2>4, <3>1, BotOffers
    <3> QED
      BY <3>2, CompactOffers
  <2> QED
    BY <2>1, <2>2, <2>3, <2>4
<1>6. CASE \E ready \in BOOLEAN : q = Ready(ready)
  <2> PICK ready \in BOOLEAN : q = Ready(ready)
    BY <1>6
  <2>1. q.op = "setReady" /\ q.ready = ready
    BY RequestParts
  <2>2. PICK s \in SeatsOf(rooms[r], u) : (s \in rooms[r].ready) # ready
    BY <2>1 DEF NoChange
  <2>3. ready = ~(s \in rooms[r].ready)
    BY <2>2
  <2>4. s \in Seats
    BY <2>2 DEF SeatsOf
  <2>5. q = Ready(~view.seats[s].ready)
    BY <1>4, <2>3, <2>4, Zenon
  <2> QED
    BY <1>2, <2>5, CompactOffers DEF CommonOffer
<1>7. CASE \E op \in {"get", "reconnect", "join", "leaveSeat", "leaveRoom", "deleteRoom",
                      "start", "invite", "chat"} : q = Plain(op)
  <2> PICK op \in {"get", "reconnect", "join", "leaveSeat", "leaveRoom", "deleteRoom",
                   "start", "invite", "chat"} : q = Plain(op)
    BY <1>7
  <2>1. q.op = op
    BY RequestParts
  <2>2. op \notin {"get", "reconnect", "chat"}
    BY <2>1 DEF NoChange, Reads, OtherOps
  <2>3. CASE op = "join"
    <3>1. ~IsMember(rooms[r], u)
      BY <2>1, <2>3 DEF NoChange
    <3>2. ~elsewhere
      BY <1>1, <2>1, <2>3, <3>1 DEF Accepts
    <3> QED
      BY <1>2, <1>3, <2>3, <3>1, <3>2, CompactOffers DEF CommonOffer
  <2>4. CASE op = "leaveSeat"
    <3>1. SeatsOf(rooms[r], u) # {}
      BY <2>1, <2>4 DEF NoChange
    <3> QED
      BY <1>2, <2>4, <3>1, CompactOffers DEF CommonOffer
  <2>5. CASE op = "start"
    BY <1>1, <2>1, <2>5, CompactOffers DEF CommonOffer
  <2>6. CASE op = "deleteRoom"
    <3>1. IsHost(rooms[r], u)
      BY <1>1, <2>1, <2>6 DEF Accepts
    <3> QED
      BY <1>2, <2>6, <3>1, CompactOffers DEF CommonOffer
  <2>7. CASE op \in {"leaveRoom", "invite"}
    <3>1. IsMember(rooms[r], u)
      BY <1>1, <2>1, <2>7 DEF Accepts
    <3> QED
      BY <1>2, <2>7, <3>1, CompactOffers DEF CommonOffer
  <2> QED
    BY <2>2, <2>3, <2>4, <2>5, <2>6, <2>7
<1> QED
  BY <1>1, <1>5, <1>6, <1>7, RequestCases

(* Leaving the other room and joining this one: all that can be in the way *)
(* is that this one is full.                                               *)
LEMMA SwitchAgrees ==
  ASSUME RoomsInv, NEW u \in Users, NEW r \in Rooms, NEW view, NEW can,
         NEW connected, NEW solo, InLobby(u, r, view, can, connected, solo),
         OffersSwitch(view, u), MembershipRoom(u) \cap overwritten = {}
  PROVE  SwitchRefusal(view, u) \in {None, "ROOM_FULL"}
<1> DEFINE q     == CHOOSE q \in Conflict(view, u) : TRUE
           get   == Refusal(u, q, Plain("get"), 0, {}, FALSE)
           leave == Refusal(u, q, Plain("leaveRoom"), rooms[q].version, {}, FALSE)
           join  == RefusalIn(rooms[view.id], u, Plain("join"), 0, {}, FALSE, FALSE)
<1>1. Conflict(view, u) = IF IsMember(rooms[r], u) THEN {} ELSE RoomOf(u) \ {r}
  BY LobbyParts
<1>2. PICK p \in Conflict(view, u) : ~IsBusy(rooms[p])
  BY DEF OffersSwitch
<1>3. q \in Conflict(view, u)
  BY <1>2
<1> HIDE DEF q
<1>4. q = p /\ q \in RoomOf(u) /\ ~IsMember(rooms[r], u)
  BY <1>1, <1>2, <1>3 DEF RoomsInv, OneRoomEach
<1>5. /\ q \in Rooms /\ IsMember(rooms[q], u) /\ ~IsBusy(rooms[q]) /\ q \notin overwritten
  BY <1>2, <1>4 DEF RoomOf, MembershipRoom
<1>6. rooms[q].status \notin {"NEW", "CLOSED"}
  <2>1. rooms[q].members # <<>>
    BY <1>5 DEF IsMember
  <2> QED
    BY <1>5, <2>1, OpenRoom DEF Sound, RoomsInv, ClosedAndEmpty
<1>7. get = None
  BY <1>6, RequestParts DEF Refusal, RefusalIn, Checks, Reads, Check
<1>8. leave = None
  <2>1. LeaveRoomChecks(rooms[q], u, rooms[q].version) = None
    BY <1>5 DEF LeaveRoomChecks, MemberChecks, VersionChecks, Check, ??, None
  <2>2. Plain("leaveRoom").op = "leaveRoom"
    BY RequestParts
  <2> QED
    BY <1>6, <2>1, <2>2 DEF Refusal, RefusalIn, Checks, Reads
<1>9. join \in {None, "ROOM_FULL"}
  <2>1. view.id = r /\ IsOpen(rooms[r])
    BY ViewFields DEF InLobby
  <2>2. JoinChecks(rooms[r], u, FALSE) \in {None, "ROOM_FULL"}
    BY <2>1 DEF JoinChecks, OpenChecks, IsOpen, Check, ??, None
  <2>3. Plain("join").op = "join"
    BY RequestParts
  <2> QED
    BY <2>1, <2>2, <2>3 DEF RefusalIn, Checks, Reads, IsOpen
<1>10. SwitchRefusal(view, u) = (get ?? leave ?? join)
  BY DEF SwitchRefusal, q
<1> HIDE DEF get, leave, join
<1> QED
  BY <1>7, <1>8, <1>9, <1>10 DEF ??

LEMMA LobbyHolds ==
  ASSUME RoomsInv, NEW u \in Users, NEW r \in Rooms, NEW view, NEW can,
         NEW connected, NEW solo, InLobby(u, r, view, can, connected, solo)
  PROVE  LobbyAgrees(u, view, can)
<1>1. view.id = r /\ view.currentUser = CurrentUser(rooms[r], u, connected, solo)
  BY ViewFields DEF InLobby
<1>2. view.currentUser.canLeave <=> Plain("leaveRoom") \in can
  <2>1. view.currentUser.canLeave <=> IsMember(rooms[r], u) /\ ~IsBusy(rooms[r])
    BY <1>1, UserFields
  <2>2. ~IsBusy(rooms[r])
    BY OpenRoom, OpenRoomFields DEF InLobby
  <2>3. Plain("leaveRoom") \in can <=> IsMember(rooms[r], u)
    BY OtherAnswers
  <2> QED
    BY <2>1, <2>2, <2>3
<1>3. {q \in can : ~NoChange(rooms[view.id], u, q) \/ q.op = "invite"}
        \subseteq OfferedCompact(view, u)
  BY <1>1, EverythingOffered
<1>4. OfferedCompact(view, u) \ can = OfferedCompact(view, u) \cap RefusedCompact(view)
  BY CompactAgrees
<1>5. OfferedWide(view, u) \ can = OfferedWide(view, u) \cap RefusedWide(view)
  BY WideAgrees
<1>6. OffersSwitch(view, u) /\ MembershipRoom(u) \cap overwritten = {} =>
        SwitchRefusal(view, u) \in {None, "ROOM_FULL"}
  BY SwitchAgrees
<1> QED
  BY <1>2, <1>3, <1>4, <1>5, <1>6 DEF LobbyAgrees

(* What the service accepts whoever is connected.                          *)
Quiet(u, r) == {q \in AllRequests \ {Plain("start")} :
                  Refusal(u, r, q, rooms[r].version, {}, FALSE) = None}

LEMMA ViewHolds ==
  ASSUME RoomsInv, NEW u \in Users, NEW r \in Rooms, rooms[r].status \notin {"NEW", "CLOSED"},
         NEW connected, NEW solo \in BOOLEAN
  PROVE  ViewAgrees(u, r, Quiet(u, r), connected, solo)
<1> DEFINE room  == rooms[r]
           view  == ToRoomStateResponse(LoadView(r, room, u, connected, solo))
           start == Refusal(u, r, Plain("start"), room.version, connected, solo)
           can   == Quiet(u, r) \cup When(start = None, {Plain("start")})
           elsewhere == RoomOf(u) \ {r} # {}
<1>1. Sound(room)
  BY OpenRoom
<1>2. view = RoomState(r, room, u, connected, solo)
  BY ResponseIsState
<1>3. FitsRoomState(view)
  BY <1>1, <1>2, StateFits
<1>4. /\ view.status = room.status /\ view.currentMatchId = room.current
      /\ view.currentUser = CurrentUser(room, u, connected, solo)
  BY <1>2, ViewFields
<1>5. /\ view.currentUser.isMember <=> IsMember(room, u)
      /\ view.currentUser.canStart <=>
           /\ IsMember(room, u) /\ SeatsOf(room, u) # {} /\ IsOpen(room)
           /\ MayStart(room, u, connected, solo)
      /\ view.currentUser.startBlockedReason = StartBlockedReason(room, u, connected, solo)
  BY <1>4, UserFields
<1>6. start = StartChecks(room, u, room.version, connected, solo)
  BY RequestParts DEF Refusal, RefusalIn, Checks, Reads
<1> HIDE DEF view
<1>7. /\ view.currentUser.canStart <=> start = None
      /\ ~(solo /\ Alone(room, u)) => view.currentUser.startBlockedReason = start
  <2>1. /\ start = None <=>
             /\ IsMember(room, u) /\ SeatsOf(room, u) # {} /\ IsOpen(room)
             /\ MayStart(room, u, connected, solo)
        /\ ~(solo /\ Alone(room, u)) => StartBlockedReason(room, u, connected, solo) = start
    BY <1>1, <1>6, StartAgrees
  <2> HIDE DEF start, room
  <2> QED
    BY <1>5, <2>1
<1> HIDE DEF start
<1>8. \A q \in AllRequests : q.op = "start" <=> q = Plain("start")
  BY RequestCases, RequestParts DEF SeatOps
<1>9. \A q : q \in can <=> /\ q \in AllRequests
                           /\ IF q.op = "start" THEN start = None
                              ELSE Refusal(u, r, q, room.version, {}, FALSE) = None
  <2>1. Plain("start") \in AllRequests
    BY RequestsThere
  <2> QED
    BY <1>8, <2>1 DEF Quiet, When
<1> HIDE DEF can
<1>10. OfferedChat(view) = can \cap {Plain("chat")}
  <2>1. Plain("chat") \in AllRequests /\ Plain("chat").op = "chat"
    BY RequestParts, RequestsThere
  <2>2. Refusal(u, r, Plain("chat"), room.version, {}, FALSE) = MemberChecks(room, u)
    BY <2>1 DEF Refusal, RefusalIn, Checks, Reads
  <2>3. Plain("chat") \in can <=> IsMember(room, u)
    BY <1>9, <2>1, <2>2 DEF MemberChecks, Check, None
  <2> QED
    BY <1>5, <2>3 DEF OfferedChat, When
<1>11. ASSUME ShowsLobby(view)
       PROVE  LobbyAgrees(u, view, can)
  <2>1. IsOpen(room)
    BY <1>1, <1>4, <1>11 DEF ShowsLobby, IsOpen, Sound, RoomRecord
  <2>2. ASSUME NEW q \in AllRequests, q.op # "start"
        PROVE  Refusal(u, r, q, room.version, {}, FALSE) = None
                 <=> Accepts(room, u, q, elsewhere)
    <3> DEFINE no == FALSE
    <3>1. Refusal(u, r, q, room.version, {}, FALSE)
            = RefusalIn(room, u, q, room.version, {}, no, elsewhere)
      BY DEF Refusal
    <3> HIDE DEF no, elsewhere
    <3> QED
      BY <1>1, <2>1, <2>2, <3>1, AcceptedWhen
  <2>3. \A q : q \in can <=> /\ q \in AllRequests
                             /\ IF q.op = "start" THEN view.currentUser.canStart
                                ELSE Accepts(room, u, q, elsewhere)
    BY <1>7, <1>9, <2>2
  <2>4. InLobby(u, r, view, can, connected, solo)
    BY <1>2, <2>1, <2>3 DEF InLobby
  <2> QED
    BY <2>4, LobbyHolds
<1> QED
  BY <1>3, <1>7, <1>10, <1>11 DEF ViewAgrees, view, start, can

(* Whoever is connected, lobby and service agree on every room there is.   *)
LEMMA TruthTold ==
  ASSUME RoomsInv
  PROVE  LobbyTellsTheTruth
<1> SUFFICES ASSUME NEW r \in Rooms, rooms[r].status # "NEW", NEW u \in Users
             PROVE  /\ LateIsHarmless(u, r) /\ PageUnderstands(u, r) /\ ListAgrees(u, r)
                    /\ rooms[r].status # "CLOSED" =>
                         \A connected \in SUBSET {rooms[r].seats[s] : s \in SeatedHumans(rooms[r])},
                            solo \in BOOLEAN : ViewAgrees(u, r, Quiet(u, r), connected, solo)
  BY DEF LobbyTellsTheTruth, Quiet
<1> QED
  BY LateHolds, UnderstoodHolds, ListHolds, ViewHolds

(* Whoever is connected, the lobby and the service agree on every room:    *)
(* what is offered is accepted but for the buttons the property names, and *)
(* what is accepted and changes the room is offered; a match can start     *)
(* when the view says so, and otherwise for the reason the view gives;     *)
(* refusals are understood, late requests change nothing but for joining.  *)
THEOREM LobbyTellsTheTruthHolds == Spec => []LobbyTellsTheTruth
<1>1. RoomsInv => LobbyTellsTheTruth
  BY TruthTold
<1> QED
  BY <1>1, RoomsSafe, PTL
=============================================================================
