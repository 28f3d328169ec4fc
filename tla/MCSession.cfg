\* A controlling task and a second one that sends, reads and waits.
CONSTANTS
  c1 = c1
  c2 = c2
  Callers = {c1, c2}
  Controllers = {c1}
  MaxHandlers = 3
  MaxCalls = 3
  MaxPolls = 1
SPECIFICATION FairSpec
INVARIANTS
  NoOrphans
PROPERTIES
  DrivesHandlersAsPromised
  EveryCallReturns
CHECK_DEADLOCK FALSE
