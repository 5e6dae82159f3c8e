SPECIFICATION MCSpec
CONSTANTS
  Event = {e1, e2}
  Relay = {r1}
  Limit = 2
  MaxTime = 0
  MaxFaults = 1
  Call = {c1, c2}
  MaxFailures = 1
  Worker = {w1}
  Allocator = {k1,k2}
  Probe = {p1}
  Other = {"redis"}
  PoolSize = 1
  MaxLine = 3
  MaxOutages = 2
PROPERTIES EndToEnd ImplementsAtLeastOnce RegistryFollows ProbesRecover
CHECK_DEADLOCK FALSE
