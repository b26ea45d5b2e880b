SPECIFICATION FairConnectionSpec
CONSTANTS
  MaxTransitions = 3
  MaxFaults = 3
INVARIANT NothingMissed
PROPERTY HearsAgain
PROPERTY RunEnds
