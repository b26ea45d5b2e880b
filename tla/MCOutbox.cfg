CONSTANTS
  Servers = {s1, s2}
  Tokens <- TwoPids
  Matches = {m1}
  MaxRows = 2
  MaxFaults = 2
SPECIFICATION FairSpec
INVARIANTS PublishedWasBroadcast RepeatsAreFaults
PROPERTY EveryRowPublished
