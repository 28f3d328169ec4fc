\* One application thread, several connections one after another.
CONSTANTS
  t1 = t1
  Threads = {t1}
  MaxSessions = 4
  MaxLoops = 5
  MaxCalls = 6
SPECIFICATION Spec
INVARIANTS
  OneLoopPerSession
PROPERTIES
  CallsAndWorkersEnd
CHECK_DEADLOCK FALSE
