SPECIFICATION Spec
CONSTANTS
  Thread = {t1, t2}
  Td = {d0, d1, d2}
  MainTd = d0
  Stack = {s1, s2}
  UserStack = user
  MaxThreadCount = 2
  NULL = NULL
SYMMETRY ThreadSymmetry
INVARIANTS TypeOK  NothingShared JoinFindsData  StacksFoundUnlessEnded
CHECK_DEADLOCK FALSE
