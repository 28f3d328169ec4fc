\* Two failures, two routing tasks and as many main sessions, an operation
\* and two guests on one circuit breaker.
CONSTANTS
  f1 = f1
  f2 = f2
  r1 = r1
  r2 = r2
  m1 = m1
  m2 = m2
  o1 = o1
  g1 = g1
  g2 = g2
  MaxJobs = 2
  MaxMade = 3
  MaxPauses = 2
  MaxDelivered = 2
  MaxExtracted = 3
  Records <- MCRecords
  MaxLines = 3
  TailLength = 4
  MaxRecords = 3
  Failures = {f1, f2}
  MaxRetries = 2
  QueueSize = 2
  HistorySize = 2
  Routers = {r1, r2}
  Mains = {m1, m2}
  PoolLimit = 2
  Operations = {o1}
  Guests = {g1, g2}
  FailureThreshold = 2
  SuccessThreshold = 2
  HalfOpenMaxCalls = 2
  RecoveryTicks = 1
  MaxAttempts = 2
SPECIFICATION Spec
INVARIANTS
  NothingIsLost
  LastRecordIsPrinted
  NothingIsLeftOpen
  HalfOpenCanClose
PROPERTIES
  PrintingEnds
CHECK_DEADLOCK FALSE
