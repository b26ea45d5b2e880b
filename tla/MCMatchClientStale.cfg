SPECIFICATION Spec
CONSTANTS
  Events = 2
  MaxVersion = 2
  MaxUpdates = 2
  MaxPauses = 1
  StartupRetries = 0
  OpponentRolls = {1}
PROPERTY AnswersTakeNothingBack
CHECK_DEADLOCK FALSE
