SPECIFICATION Spec
CONSTANTS
  None = None
  c1 = c1
  c2 = c2
  btc = btc
  Coids <- MCCoids
  Instruments <- MCInstruments
  Tickets <- MCTickets
  MarketEvents <- MCMarketEvents
  Expiry <- MCNoExpiry
  Underlying <- MCNoExpiry
  Board <- MCNoBoard
  AShares = {}
  DayLength = 10
  ShanghaiShift = 3
  Killed = FALSE
  MaintenanceMargin = FALSE
  TimerDelays <- MCTimerDelays
  MaxEvents = 3
  MaxGap = 1
  MaxCommands = 3
  MaxPerCall = 2
  MaxTimers = 0
  SubmitLatency = 1
  CancelLatency = 2
  SlipNum = 0
  SlipDen = 1
  ImpactNum = 0
  ImpactDen = 1
  PartNum = 1
  PartDen = 2
  QueueNum = 0
  QueueDen = 1
  MinNotional = None
  MaxOrderNotional = None
  MaxPositionQty = None
  MaxGrossExposure = None
  Leveraged = FALSE
INVARIANTS
  TypeOK
  AcceptedFirst
  OrderFlow
  LotsAccounted
  PositionsFollowOrders
PROPERTY
  FillLostOnlyToCancel
  OrdersLiveOnce
SYMMETRY Symmetry
