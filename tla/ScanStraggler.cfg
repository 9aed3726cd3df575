CONSTANTS
  Node = {1}
  NRanges = 2
  Proc = {p1, p2, p3}
  Siblings = 2
  LookasideSz = 2
  Image <- Images
  MaxRounds = 2
  NULL = NULL
SPECIFICATION Spec
INVARIANT ScanCompleteWhenTold
CHECK_DEADLOCK FALSE
