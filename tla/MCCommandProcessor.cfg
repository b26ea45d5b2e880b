SPECIFICATION FairSpec
CONSTANTS
  Handlers = {h1, h2}
  ActionIds = {id1, id2}
  Commands = {c1, c2, other}
  Foreign = {other}
  MaxEvents = 2
  MaxRequests = 2
  Ranked = TRUE
INVARIANTS AckAgreesWithBroadcast JournalTiled
PROPERTIES ImplementsCommandLog HandlersSettle
