CONSTANTS
  Node = {1, 2, 3}
  NRanges = 2
  Proc = {p1, p2}
  Siblings = 2
  LookasideSz = 2
  Image <- Cases
  MaxRounds = 2
  NULL = NULL
SPECIFICATION FairSpec
INVARIANTS
  TypeOK
  MarksExactly
PROPERTIES
  
  ScanEnds
CHECK_DEADLOCK FALSE
