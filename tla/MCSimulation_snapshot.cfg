SPECIFICATION MCSpec
CONSTANTS
  MaxTime = 1
  MaxEvents = 5
  MaxSaved = 3
  MaxResumes = 1
  MaxThrows = 1
  Budget = 2
  Slot <- MCSlot
  r1 = r1
  r2 = r2
  r3 = r3
  r4 = r4
  r5 = r5
  r6 = r6
  gateway = gateway
  db = db
  none = none
  Unknown = none
  Request = {r1, r2, r3, r4, r5, r6}
  OpOf <- MCOpOf
  Op <- MCOps
  NodeOf <- MCNodeOf
  SyncDeps <- MCSyncDeps
  Node = {gateway, db}
  Workers <- MCWorkers
  QueueSize <- MCQueueSize
  Connections <- MCConnections
  MaxWaiters = 2
  Call = {k1, k2, k3}
  FailureThreshold = 2
  ResetTimeout = 2
  SuccessThreshold = 2
  Horizon = 5
  Task = {t1, t2, t3, t4, t5}
  MaxConcurrent = 2
  MaxQueueCapacity = 2
PROPERTY ImplementsSchedule
CHECK_DEADLOCK FALSE
