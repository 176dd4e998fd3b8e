SPECIFICATION FairSpec
CONSTANTS
  d1 = d1
  d2 = d2
  NoDev = NoDev
  Devs <- MCDevs
  MaxSlots = 2
  MaxAbandoned = 2
  SlowInstall = FALSE
  WedgedCalls = FALSE
INVARIANTS Consistent SaysTrue
PROPERTIES TeardownEnds
