CONSTANTS
  Thread = {t1, t2}
  Capacity = 3
  Throttle = 1
  MaxBuffers = 2
  NULL = NULL
SPECIFICATION FairSpec
INVARIANTS
  TypeOK
  OneReclaimer
  RoomToRetire
  ThrottleBound
PROPERTIES
  CollectionHappens
  RetireReturns
  
CHECK_DEADLOCK FALSE
