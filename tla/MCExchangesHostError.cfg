\* Two transfers that overlap, messages of the host in any order, two tasks
\* on the LU-LU session.
CONSTANTS
  t1 = t1
  t2 = t2
  u1 = u1
  u2 = u2
  Transfers = {t1, t2}
  Users = {u1, u2}
  MaxChunks = 1
  MaxIncoming = 3
  MaxQueue = 1
SPECIFICATION Spec
INVARIANT
  HostErrorIsRaised
CHECK_DEADLOCK FALSE
