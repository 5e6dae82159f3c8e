SPECIFICATION Spec
CONSTANTS
  c1 = c1
  c2 = c2
  c3 = c3
  h1 = h1
  h2 = h2
  NoHolder = NoHolder
  Holder = {h1, h2}
  Caller = {c1, c2, c3}
  HolderOf <- SharedIds
  Ttl = 1
  MaxTime = 2
  MaxCalls = 3
  MaxInFlight = 3
  MaxFaults = 1
INVARIANTS EpochIntegrity LeaseHasRow FenceSparesNewest
PROPERTIES ImplementsAuthority LeaseEpochNeverGoesBack CallsEnd
CHECK_DEADLOCK FALSE
