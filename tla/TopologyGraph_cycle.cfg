SPECIFICATION GraphSpec
CONSTANTS
  MaxNodes = 3
  MaxEdges = 3
INVARIANT NoValidSyncCycle
CHECK_DEADLOCK FALSE
