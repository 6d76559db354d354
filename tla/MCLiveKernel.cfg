SPECIFICATION FairSpec
CONSTANTS
  None = None
  btc = btc
  eth = eth
  unlisted = unlisted
  Coids <- MCCoids
  Instruments <- MCInstruments
  Setups <- MCSetups
  NativeCoids <- MCNativeCoids
  Tickets <- MCTickets
  PyTickets <- MCPyTickets
  MarketEvents <- MCMarketEvents
  AShares = {}
  DayLength = 10
  ShanghaiShift = 3
  SizePrecision <- MCSizePrecision
  WirePrecision = 8
  Killed = FALSE
  ReportCapacity = 4
  MaxEvents = 1
  MaxCommands = 2
  MaxPerCall = 2
  MaxRepeats = 1
  MinNotional = None
  MaxOrderNotional = None
  MaxPositionQty = None
  MaxGrossExposure = None
  Leveraged = FALSE
INVARIANTS
  LiveTypeOK
  ReportsFindTheirOrders
  FillsAreTrades
  StopLag
  PromisedIds
PROPERTIES
  OrdersLiveOnce
  LoopEnds
