SPECIFICATION FairSpec
CONSTANTS
  None = None
  c1 = c1
  c2 = c2
  btc = btc
  opt = opt
  Coids <- MCCoids
  Instruments <- MCInstruments
  Tickets <- MCTickets
  MarketEvents <- MCMarketEvents
  Expiry <- MCExpiry
  Underlying <- MCUnderlying
  Board <- MCNoBoard
  AShares = {}
  DayLength = 10
  ShanghaiShift = 3
  Killed = FALSE
  MaintenanceMargin = TRUE
  TimerDelays <- MCTimerDelays
  MaxEvents = 2
  MaxGap = 1
  MaxCommands = 2
  MaxPerCall = 1
  MaxTimers = 1
  SubmitLatency = 2
  CancelLatency = 2
  SlipNum = 0
  SlipDen = 1
  ImpactNum = 0
  ImpactDen = 1
  PartNum = 1
  PartDen = 2
  QueueNum = 0
  QueueDen = 1
  MinNotional = 3
  MaxOrderNotional = None
  MaxPositionQty = 2
  MaxGrossExposure = None
  Leveraged = TRUE
INVARIANTS
  DeadContractsHaveNoOrders
  LotsAccounted
  PositionsFollowOrders
PROPERTIES
  Acknowledged
  RunEnds
