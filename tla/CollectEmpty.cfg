CONSTANTS
  Thread = {t1, t2}
  Capacity = 3
  Throttle = 1
  MaxBuffers = 2
  NULL = NULL
SPECIFICATION Spec
CONSTRAINT OnlyRetiring
INVARIANT SomethingToCollect
CHECK_DEADLOCK FALSE
