\* A screen of two rows of three, bytes of eight values in headers, two
\* positions with attributes that are changed twice, fields of up to six bytes, six
\* sequence numbers and a history of three: both wrap and overflow.
CONSTANTS
  p1 = p1
  p2 = p2
  VRows = 2
  VCols = 3
  VParams = {0, 1, 2, 5}
  Radix = 8
  LogLimit = 2
  Modulus = 6
  MaxHistory = 3
  DefaultWindow = 2
  MaxWritten = 3
  Positions = {p1, p2}
  Keys = {"validation", "highlight", "light_pen", "character_set", "extended_color"}
  Inputs <- MCInputs
  BaseBytes = {13, 100}
  MaxSets = 2
  BodyBytes = {1, 2, 3, 6}
  MaxBody = 6
  Addresses = {0, 1, 63, 64, 255, 256, 1919}
SPECIFICATION Spec
INVARIANTS
  CursorOnScreen
  AcceptedIsWritten
  ValidationIsCircular
  
CHECK_DEADLOCK FALSE
