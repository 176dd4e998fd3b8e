SPECIFICATION FairSpec
CONSTANTS
  d1 = d1  d2 = d2  i1 = i1
  None = None
  Devs <- MCDevs
  Itfs <- MCItfs
  MaxSlots = 2
  NumXfer = 2
  MinXfer = 1
INVARIANTS Consistent
PROPERTIES StopIsSafe LockComesBack
