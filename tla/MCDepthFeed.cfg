SPECIFICATION FairSpec
CONSTANTS
  a = a
  b = b
  None = None
  Reconnected = Reconnected
  Levels <- MCLevels
  Touched <- MCTouched
  Streams <- MCStreams
  MaxLag = 3
  MaxBuffer = 3
  MaxFaults = 2
INVARIANTS
  DepthTypeOK
  SyncedIsContiguous
  RebuiltBookIsExact
  TwoFetches
PROPERTIES
  RefetchEnds
  TicksGetThrough
CHECK_DEADLOCK FALSE
