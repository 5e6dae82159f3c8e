SPECIFICATION ISpec
CONSTANTS
  Message = {m1}
  Call = {c1}
  MaxFailures = 1
INVARIANT EffectivelyOnce
