SPECIFICATION StorageSpec
CONSTANTS
  Content = {x}
  Client = {k1, k2}
  None = None
  MaxRejections = 1
INVARIANT ReuploadIsWhole
CHECK_DEADLOCK FALSE
