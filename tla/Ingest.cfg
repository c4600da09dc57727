SPECIFICATION FairSpec
CONSTANTS
  LastOffset = 4
  Poison = {3}
  Empty = {2}
  BatchSize = 2
  MaxAttempts = 2
  MaxFlips = 2
  MaxRestarts = 1
INVARIANTS TypeOK ReadIsAccountedFor
PROPERTY NeverWedges
CHECK_DEADLOCK FALSE
