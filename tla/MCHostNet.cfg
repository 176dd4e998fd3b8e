SPECIFICATION FairSpec
CONSTANTS
  d1 = d1  d2 = d2  r1 = r1  t1 = t1  t2 = t2
  None = None
  Devs <- MCDevs
  Rx <- MCRx
  Tx <- MCTx
INVARIANTS Consistent
PROPERTIES NothingFreedInUse CallReturns
