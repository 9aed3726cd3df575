CONSTANTS
  Node = {1, 2}
  Buffer = {b1, b2}
  Thread = {t1, t2}
  Capacity = 3
  RangeSz = 1
  MayExit = {}
  NULL = NULL
  Zero = Zero
  Removed = Removed
SPECIFICATION Spec
SYMMETRY Symmetry
INVARIANT FreesOnlyAddresses
CHECK_DEADLOCK FALSE
