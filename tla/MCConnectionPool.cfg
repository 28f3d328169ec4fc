\* Two callers and three sessions of one host, of which two may be lent.
CONSTANTS
  s1 = s1
  s2 = s2
  s3 = s3
  h1 = h1
  h2 = h2
  t1 = t1
  t2 = t2
  Sessions = {s1, s2, s3}
  Hosts = {h1, h2}
  HostOf <- SameHost
  Tasks = {t1, t2}
  MaxConnections = 2
  MaxPerHost = 2
  MaxCancels = 1
SPECIFICATION Spec
INVARIANTS
  ExclusiveUse
  StopClosesAll
PROPERTIES
  LockIsReleased
