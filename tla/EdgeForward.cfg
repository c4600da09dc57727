SPECIFICATION FairSpec
CONSTANTS
  FirstOffset = 0
  LastOffset = 2
  BatchMax = 2
  ChannelMax = 1
  HintEvery = 2
  CompactMin = 2
  Partial <- WholeOrPartial
  MaxDiskFaults = 1
  MaxRestarts = 1
INVARIANTS TypeOK OnlyHintsLose ForwardedInOrder
PROPERTY SpoolDrains
CHECK_DEADLOCK FALSE
