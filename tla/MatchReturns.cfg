CONSTANTS
  MaxOrders = 3
  Requests <- MCRequests
  Removable = {}
  NoPrice = NoPrice
  NoOrder = NoOrder
SPECIFICATION FairSpec
PROPERTY MatchReturns
CHECK_DEADLOCK FALSE
