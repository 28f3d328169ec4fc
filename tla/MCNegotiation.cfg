SPECIFICATION Spec
CONSTANTS
  Configs <- AllConfigs
  MaxReads = 2
  MaxGrace = 1
  MaxChunk = 2
  MaxRetries = 1
  MaxFailures = 2
  MaxConns = 2
INVARIANTS
  FallbackNeverFails
  OneReader
  
PROPERTIES
  NegotiationEnds
CHECK_DEADLOCK FALSE
