SPECIFICATION FairSpec
CONSTANTS
  t1 = t1
  interp = interp
  Interp = interp
  Tasks <- MCOneTask
  Size = 3
  Frames <- MCFrames
  Lens <- MCLens
  MaxOpens = 2
  SinkGenMax = 2
\* A slot whose device went away for good stays closed.
CHECK_DEADLOCK FALSE
INVARIANTS InsideIsHeld NoOverrun
PROPERTIES KeepsContract CloseReturns
