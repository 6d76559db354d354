SPECIFICATION Spec
CONSTANTS
  None = None
  c1 = c1
  c2 = c2
  btc = btc
  Coids <- MCCoids
  Instruments <- MCInstruments
  Tickets <- MCTickets
  MarketEvents <- MCMarketEvents
  MaxEvents = 3
  MaxTime = 1
  SubmitLatency = 1
  CancelLatency = 2
  SlipNum = 1
  SlipDen = 10
  ImpactNum = 1
  ImpactDen = 2
  PartNum = 1
  PartDen = 2
  QueueNum = 1
  QueueDen = 2
  Multiplier = 2
INVARIANTS
  VenueTypeOK
  LotsConserved
  ReportsInOrder
  NeverWorseThanLimit
  BooksBalance
PROPERTY
  TriggerOnlyTightens
SYMMETRY Symmetry
CHECK_DEADLOCK FALSE
