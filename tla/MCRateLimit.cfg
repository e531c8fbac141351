SPECIFICATION Spec
CONSTANTS
  Request = {r1, r2, r3}
  Client <- MCClient
  Exempt = {"mon"}
  OAuth = TRUE
  Burst = 1
  Unit = 3
  Rate = 2
  MaxBuckets = 1
  MaxTime = 3
SYMMETRY MCSymmetry
INVARIANTS
  RateRespected
  BilledOnce
  RetryIsEnough
