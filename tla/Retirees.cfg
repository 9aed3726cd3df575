CONSTANTS
  Node = {1, 2}
  Buffer = {b1, b2}
  Thread = {t1, t2}
  Capacity = 3
  RangeSz = 1
  MayExit = {t1, t2}
  NULL = NULL
  Zero = Zero
  Removed = Removed
SPECIFICATION Spec
SYMMETRY Symmetry
CONSTRAINT BeforeOverrun
INVARIANTS
  TypeOK
  FreeIsSafe
  HeldBuffersPinned
  LastIsLast
  
  
  DeadReferencesAreDead
PROPERTIES
  KeepsPromise
CHECK_DEADLOCK FALSE
