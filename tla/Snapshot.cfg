CONSTANTS
  Thread = {t1, t2, t3}
  InitialThread = {t1}
  MaxRounds = 2
  NULL = NULL
SPECIFICATION FairSpec
INVARIANTS
  TypeOK
  StoppedAtFork
  AcksAccounted
  NobodyStopsInVain
PROPERTIES
  SnapshotTaken
  StoppedThreadsResume
CHECK_DEADLOCK FALSE
