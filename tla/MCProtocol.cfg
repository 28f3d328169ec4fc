\* Streams of up to nine bytes, cut anywhere; three option commands; two SNA
\* tasks; modes of four and six positions; two tasks that change the state.
CONSTANTS
  t1 = t1
  t2 = t2
  c1 = c1
  c2 = c2
  Streams <- MCStreams
  Sysreq = {TRUE, FALSE}
  Options = {"NAWS", "TTYPE", "NEW-ENVIRON", "TERMINAL-LOCATION", "TN3270E", "other"}
  MaxRequests = 3
  Tasks = {t1, t2}
  MaxResponses = 3
  MaxSent = 1
  Limit12 = 4
  Limit14 = 6
  Columns = 2
  RowCounts = {2, 3}
  Changers = {c1, c2}
  Targets = {"CONNECTING", "ERROR", "CLOSING", "DISCONNECTED"}
  MaxChanges = 4
SPECIFICATION Spec
INVARIANTS
  CutsDoNotMatter
  PendingIsOwned
  AddressingAgrees
PROPERTIES
  ProtocolSettles
CHECK_DEADLOCK FALSE
