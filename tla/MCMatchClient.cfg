SPECIFICATION Spec
CONSTANTS
  Events = 2
  MaxVersion = 3
  MaxUpdates = 2
  MaxPauses = 1
  StartupRetries = 1
  OpponentRolls = {1}
INVARIANTS BoardFollowsMatch AnswersKeepWhatIsShown
PROPERTY ImplementsView
\* The bounds may leave nothing to receive and nothing to send.
CHECK_DEADLOCK FALSE
