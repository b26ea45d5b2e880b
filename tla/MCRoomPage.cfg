SPECIFICATION SpecOfOne
CONSTANTS
  r1 = r1
  r2 = r2
  Rooms <- TwoRooms
  MaxEvents = 1
  MaxMatches = 1
INVARIANT RoomIsSelected
INVARIANT MatchShownOfRoom
INVARIANT PendingHasRequest
PROPERTY MatchReached
