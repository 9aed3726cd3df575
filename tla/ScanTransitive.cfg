CONSTANTS
  Node = {1, 2, 3}
  NRanges = 2
  Proc = {p1, p2}
  Siblings = 2
  LookasideSz = 2
  Image <- Images
  MaxRounds = 1
  NULL = NULL
SPECIFICATION Spec
INVARIANT MarkFollowsPool
CHECK_DEADLOCK FALSE
