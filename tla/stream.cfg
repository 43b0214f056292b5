CONSTANTS
  MaxSize = 6
  MaxChunk = 2
  Connecting = 1
  Stall = 2
  Draining = 3
SPECIFICATION FairSpec
INVARIANT StreamTypeOK
INVARIANT CompleteMeansExact
 
PROPERTY NeverCutsMoving
PROPERTY UploadReturns
PROPERTY PumpEnds
CHECK_DEADLOCK FALSE
