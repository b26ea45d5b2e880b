------------------------------ MODULE MCRooms -------------------------------
(***************************************************************************)
(* Rooms for TLC.  Rooms and users are interchangeable.  Versions only     *)
(* ever grow and are compared only with the version createRoom has read,   *)
(* so the view keeps whether the two agree and leaves the numbers out.     *)
(***************************************************************************)
EXTENDS RoomViews, TLC

RoomSymmetry == Permutations(Users) \union Permutations(Rooms)

Unversioned(room) == [room EXCEPT !.version = 0]

(* The lineup of a finished match is read by nobody. *)
Current == [m \in 1 .. Len(matches) |->
              IF IsActive(m) THEN matches[m] ELSE [matches[m] EXCEPT !.lineup = NoSeats]]

RoomView ==
  <<[r \in Rooms |-> Unversioned(rooms[r])], Current, overwritten,
    [c \in Creations |-> [creating[c] EXCEPT !.read = Unversioned(@)]],
    [c \in Creations |-> creating[c].room \in Rooms
                         /\ rooms[creating[c].room].version = creating[c].read.version]>>
=============================================================================
