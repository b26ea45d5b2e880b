----------------------------- MODULE MCRoomPage ------------------------------
(* Two rooms, and the page of one user.  The rooms are alike, so the user   *)
(* is a member of the first, if of any, at the beginning.                   *)
EXTENDS RoomPage

CONSTANTS r1, r2

TwoRooms == {r1, r2}

InitOfOne == Init /\ home # r2

SpecOfOne == InitOfOne /\ [][Next]_vars /\ Fairness
=============================================================================
