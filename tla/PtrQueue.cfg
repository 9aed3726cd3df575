SPECIFICATION MCSpec
CONSTANTS
  Capacity = 4
  MaxPushes = 9
  MaxLen = 3
  Width = 10
  Kilo = 4
  MinPtrs = 4
  MaxPtrs = 64
  DefaultPtrs = 1
  Unset = Unset
INVARIANTS TypeOK EnvGivesMasks
PROPERTIES Linearizable
CHECK_DEADLOCK FALSE
