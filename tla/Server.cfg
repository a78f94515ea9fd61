CONSTANTS
  Conns = {k1, k2, k3}
  Requests = {r1, r2, ws}
  Sockets = {ws}
  Kinds = {"hold", "topup", "read"}
  MaxTrades = 1
SPECIFICATION FairSpec
INVARIANTS TypeOK ExhaustionNeedsCrowd
PROPERTIES  ShutdownEnds
CHECK_DEADLOCK FALSE
