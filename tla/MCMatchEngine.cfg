SPECIFICATION SkipSpec
CONSTANTS
  NumPlayers = 2
  PawnsPerPlayer = 2
  Side = 2
  MaxDie = 3
  Skips = {h1}
  MaxCommands = 8
VIEW MCView
INVARIANT UniqueOccupancy
INVARIANT FinishedExactlyWhenWon
PROPERTY SentBackForACause
PROPERTY SkipsOneTurn
\* A finished match accepts no command.
CHECK_DEADLOCK FALSE
