SPECIFICATION AnimationSpec
CONSTANTS
  NumPlayers = 3
  PawnsPerPlayer = 2
  Side = 1
  MaxDie = 3
  Humans = {0, 1, 2}
VIEW MCView
INVARIANT ActionAvailable
INVARIANT ScreenFitsTheTurn
PROPERTY FollowsTurnProtocol
PROPERTY TransitionParses
PROPERTY ResultRecorded
PROPERTY AnimationEndsAtSnapshot
PROPERTY PawnsStayInSight
\* A finished match accepts no command.
CHECK_DEADLOCK FALSE
