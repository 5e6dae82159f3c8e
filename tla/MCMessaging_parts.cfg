SPECIFICATION MCSpec
CONSTANTS
  Event = {e1, e2, e3}
  Relay = {r1, r2}
  Limit = 2
  MaxTime = 1
  MaxFaults = 1
  Message = {m1, m2}
  Call = {c1, c2, c3}
  MaxFailures = 2
  w1 = w1
  w2 = w2
  a = a
  b = b
  Worker = {w1, w2}
  Run = {a, b}
  None = None
  MaxRequests = 1
  MaxCrashes = 1
INVARIANTS PublishedIsSent CausalOrder BoundedDuplicates ProcessedOnce AnsweredIsDone BoundedRuns TruthfulStatus StopIsObeyed ResultIsExact
SYMMETRY Symmetry
CHECK_DEADLOCK FALSE
