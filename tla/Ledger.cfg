CONSTANTS
  Accounts = {a1, a2}
  Equity = Equity
  EquityExists = TRUE
  Workers = {w1, w2}
  NoWorker = NoWorker
  Kinds = {"topup", "hold", "release", "transfer"}
  Amounts = {2, 3}
  Opening <- MCOpening
  MaxOps = 3
SPECIFICATION FairSpec
INVARIANTS TypeOK Reconciled
PROPERTIES OperationsEnd
CHECK_DEADLOCK FALSE
