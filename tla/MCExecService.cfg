SPECIFICATION FairSpec
CONSTANTS
  hand = hand
  None = None
  Orders <- MCOrders
  Strategies <- MCStrategies
  Commands <- MCCommands
  ControlMessages <- MCControlMessages
  ControlRequests <- MCControlRequests
  ByHand = hand
  MaxRetries = 1
  Capacity = 1200
  MaxTrades = 1
  MaxMinted = 2
  MaxCommands = 2
  MaxIncidents = 2
INVARIANTS
  ExecTypeOK
  LoggedBeforeSent
  KillStops
  AcceptedIsCurrent
  OpenIsLoggedOpen
PROPERTIES
  FreshIds
  HandledAtMostOnce
  Answered
