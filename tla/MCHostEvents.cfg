SPECIFICATION Spec
CONSTANTS
  d1 = d1
  d2 = d2
  NoDev = NoDev
  Devs <- MCDevs
  MaxSlots = 2
  Capacity = 3
  MaxDropped = 1
INVARIANTS Consistent SnapshotIsTrue
PROPERTIES KeepsQueue ReportedOnce
