CONSTANTS
  MaxOrders = 3
  Requests <- MCBids
  Removable = {}
  NoPrice = NoPrice
  NoOrder = NoOrder
SPECIFICATION FairSpec
PROPERTY BidsBestFirst
CHECK_DEADLOCK FALSE
