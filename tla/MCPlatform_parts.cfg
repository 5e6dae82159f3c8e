SPECIFICATION MCSpec
CONSTANTS
  NoHolder = NoHolder
  Holder = {h1, h2}
  Caller = {h1, h2}
  HolderOf <- MCHolderOf
  Ttl = 2
  MaxTime = 4
  MaxCalls = 7
  MaxInFlight = 1
  MaxNodes = 3
  MaxEdges = 3
  Tenant = {"t"}
  Slug = {"a", "b"}
  Ends <- MCEnds
  Requester = {c1, c2}
  Calls <- MCCalls
  Content = {x, y}
  Client = {k1, k2}
  None = None
  MaxFaults = 1
  MaxRejections = 1
  Pod = {p1, p2}
  Nil = Nil
  Deployment <- MCDeployment
  MaxBreaks = 1
  Search <- MCSearch
  Tolerance = 1
  MaxIterations = 4
  Gap = 6
  MinStep = 2
  Measured <- MCMeasured
  Slo <- MCSlo
  Parameter <- MCParameter
  Grain = 5
  MaxCycles = 3
  Tolerable = {0}
  Loss = {0, 1, 2, 3}
  Labels = {"get", "run"}
  Allowed = {"get"}
  Buckets = {1, 2}
  Value = {1, 2, 3}
  MaxWrites = 2
INVARIANTS MutualExclusion FaultlessFence
  SearchesAreExact CreatedIsWhole ArtifactsAreWhole DoneIsMigrated AppliedOnceInOrder AnswerIsMeasured LeastLossIsKept
PROPERTIES RowEpochNeverGoesBack ReportIsCurrent ScrapeIsTrue
CHECK_DEADLOCK FALSE
