SPECIFICATION MCSpec
CONSTANTS
  NPages = 5
  MaxSize = 2
  NodesPerPage = 2
  MaxRangeSize = 2
  Apart = {3}
  Allocator = {a1, a2}
  Nobody = Nobody
  User = User
  NULL = NULL
  SortThreshold = 1
  BinaryThreshold = 2
  PageWords = 2
  LineWords = 2
  HintExtra = 0
  NWords = 5
  MaxList = 4
SYMMETRY AllocatorSymmetry
INVARIANTS
  TypeOK
  WalkReturns
  RangesExact
  LookupExact
  RootsOutsideBlocks
CHECK_DEADLOCK FALSE
