CONSTANTS
  Requests = {r1, r2, r3}
  Burst = 3
  Token = 2
  Refill = 3
  Expiry = 2
  MaxTries = 2
  MaxTime = 3
  MaxJumps = 1
SPECIFICATION Spec
SYMMETRY MCSymmetry
INVARIANTS TypeOK RateBound
PROPERTIES PatientUserServed OnlyExcessRefused HeaderWithinBucket
CHECK_DEADLOCK FALSE
