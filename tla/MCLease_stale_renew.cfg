SPECIFICATION Spec
CONSTANTS
  c1 = c1
  c2 = c2
  c3 = c3
  h1 = h1
  h2 = h2
  NoHolder = NoHolder
  Holder = {h1, h2}
  Caller = {c1, c2}
  HolderOf <- OwnIds
  Ttl = 2
  MaxTime = 3
  MaxCalls = 5
  MaxInFlight = 1
  MaxFaults = 1
INVARIANT DbFenceBlocksStale
CHECK_DEADLOCK FALSE
