SPECIFICATION FairSpec
CONSTANTS
  Tabs = {t1, t2}
  Users = {u1}
  MaxEvents = 1
PROPERTY LoginRecovers
CHECK_DEADLOCK FALSE
