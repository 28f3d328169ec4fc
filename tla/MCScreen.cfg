\* A two-by-two screen; records over four bytes are parsed in bulk mode.
CONSTANTS
  Rows = 2
  Cols = 2
  HostAttrs = {"prot", "pen"}
  RecordSizes = {0, 1, 4, 5}
  MaxBytes = 8
  BulkLimit = 4
  MaxKeys = 1
  NvtLen = 2
SPECIFICATION FairSpec
INVARIANTS
  FieldListAgrees
  RollbackRestoresScreen
  TabReachesEveryInput
PROPERTIES
  ParserTerminates
CHECK_DEADLOCK FALSE
