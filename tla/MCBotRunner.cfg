SPECIFICATION FairSpec
CONSTANTS
  Servers = {s1, s2}
  MaxActions = 2
  MaxAttempts = 0
  MaxVersion = 3
  MaxEvents = 1
INVARIANT BotTurnNotForgotten
PROPERTY LeaseReleasedByOwner
PROPERTY BotTurnIsPlayed
\* The match is over, and nobody has anything left to do.
CHECK_DEADLOCK FALSE
