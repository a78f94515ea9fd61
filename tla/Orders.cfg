CONSTANTS
  MaxOrders = 3
  Requests <- MCRequests
  NoPrice = NoPrice
  NoOrder = NoOrder
  Users = {"alice", "bob"}
  Owner <- MCOwner
  Quote = 1
  Opening = 3
  Failures = TRUE
  MaxRestarts = 1
SPECIFICATION FairSpec
INVARIANTS TypeOK RowsBackedByLedger  LiveOrdersSurvive
PROPERTIES ServesExchange RequestsEnd StartsAgain
CHECK_DEADLOCK FALSE
