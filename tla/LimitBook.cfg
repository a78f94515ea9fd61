CONSTANTS
  MaxOrders = 4
  Requests <- MCRequests
  Removable = {1, 2}
  NoPrice = NoPrice
  NoOrder = NoOrder
SPECIFICATION FairSpec
INVARIANTS TypeOK NeverOverfilled FillsBalance LiveOrdersInBook DeadOrdersExplained
PROPERTIES ImplementsMarket FirstTradeHasPriority LiquidMatchReturns
CHECK_DEADLOCK FALSE
