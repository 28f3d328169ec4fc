\* Two tasks share one handler: connects, closes and fallbacks interleave.
CONSTANTS
  c1 = c1
  c2 = c2
  Callers = {c1, c2}
  MaxConnects = 3
  MaxCloses = 2
  GivenStreams = FALSE
SPECIFICATION FairSpec
INVARIANTS
  OperationalHasSocket
  ClosingIsExclusive
PROPERTIES
  EveryCallReturns
  KeepsPromise
CHECK_DEADLOCK FALSE
