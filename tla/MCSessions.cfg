SPECIFICATION FairSpec
CONSTANTS
  Tabs = {t1, t2}
  Users = {u1}
  MaxEvents = 2
INVARIANT OneSuccessor
INVARIANT AnswersCarryLiveSessions
PROPERTY SpinnerEnds
\* Every tab shows an outcome and its user does nothing more.
CHECK_DEADLOCK FALSE
