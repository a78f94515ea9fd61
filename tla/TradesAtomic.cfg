CONSTANTS
  MaxOrders = 2
  Requests <- MCPair
  NoPrice = NoPrice
  NoOrder = NoOrder
  Users = {"alice", "bob"}
  Owner <- MCOwner
  Quote = 1
  Opening = 2
  Failures = FALSE
  MaxRestarts = 0
SPECIFICATION FairSpec
INVARIANT TradesAtomic
CHECK_DEADLOCK FALSE
