SPECIFICATION Spec
CONSTANTS
  Leftover <- MCLeftover
  DeltaSeqs <- MCDeltaSeqs
  FlushEvery = 2
  SmokeN = 4
  MaxEvents = 4
  MaxConnects = 2
  Broken = Broken
  None = None
INVARIANT
  NoBarLost
CHECK_DEADLOCK FALSE
