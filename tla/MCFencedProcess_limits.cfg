CONSTANTS
  Descendants = {k1, k2}
  Timeout = 3
  Grace = 2
  MaxOutput = 2
  MaxSize = 4
SPECIFICATION FairSpec
INVARIANTS
  TypeOK
  OutputBounded
  ReturnsInTime
  JobEmptied
PROPERTIES
  Returns
CHECK_DEADLOCK FALSE
