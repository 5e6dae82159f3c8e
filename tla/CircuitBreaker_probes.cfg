SPECIFICATION BreakerSpec
CONSTANTS
  Call = {k1, k2, k3}
  FailureThreshold = 2
  ResetTimeout = 2
  SuccessThreshold = 2
  Horizon = 5
INVARIANT ProbesAreLimited
CHECK_DEADLOCK FALSE
