SPECIFICATION Spec
CONSTANTS
  None = None
  c1 = c1
  c2 = c2
  c3 = c3
  c4 = c4
  sse = sse
  Coids <- MCCoids
  Instruments <- MCInstruments
  Tickets <- MCTickets
  MarketEvents <- MCMarketEvents
  Expiry <- MCNoExpiry
  Underlying <- MCNoExpiry
  Board <- MCBoard
  AShares <- MCInstruments
  DayLength = 3
  ShanghaiShift = 1
  Killed = FALSE
  MaintenanceMargin = FALSE
  TimerDelays <- MCTimerDelays
  MaxEvents = 2
  MaxGap = 2
  MaxCommands = 4
  MaxPerCall = 2
  MaxTimers = 0
  SubmitLatency = 1
  CancelLatency = 1
  SlipNum = 0
  SlipDen = 1
  ImpactNum = 0
  ImpactDen = 1
  PartNum = 1
  PartDen = 2
  QueueNum = 0
  QueueDen = 1
  MinNotional = None
  MaxOrderNotional = None
  MaxPositionQty = None
  MaxGrossExposure = None
  Leveraged = FALSE
INVARIANT
  TPlusOne
SYMMETRY Symmetry
