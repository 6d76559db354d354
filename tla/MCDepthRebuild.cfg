SPECIFICATION Spec
CONSTANTS
  a = a
  b = b
  None = None
  Reconnected = Reconnected
  Levels <- MCLevels
  Touched <- MCTouched
  Streams <- MCStreams
  MaxLag = 3
  MaxBuffer = 3
  MaxFaults = 0
INVARIANT
  CoreMatches
CHECK_DEADLOCK FALSE
