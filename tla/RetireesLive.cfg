CONSTANTS
  Node = {1}
  Buffer = {b1, b2, b3}
  Thread = {t1, t2}
  Capacity = 2
  RangeSz = 2
  MayExit = {t2}
  NULL = NULL
  Zero = Zero
  Removed = Removed
SPECIFICATION FairSpec
PROPERTY DeadNodesAreFreed
CHECK_DEADLOCK FALSE
