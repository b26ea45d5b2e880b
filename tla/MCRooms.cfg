SPECIFICATION Spec
CONSTANTS
  Users = {u1, u2}
  Rooms = {r1, r2}
  Seats = {1, 2}
  Capacity = 2
  Creations = {c1}
  MaxMatches = 2
SYMMETRY RoomSymmetry
VIEW RoomView
INVARIANTS SeatsAreMembers MatchKeepsItsRoom LobbyTellsTheTruth
PROPERTIES NoForeignRelease VersionTellsChanges
\* Every room within the bound may have been closed.
CHECK_DEADLOCK FALSE
