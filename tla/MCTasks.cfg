SPECIFICATION FairSpec
CONSTANTS
  Threads = {t1, t2, t3}
  Ids <- SmallIds
  none_id = "none"
  grp_none_id = "grp_none"
  TaskTable <- SmallTable
  NoThread = NoThread
  MaxSpurious = 1
INVARIANTS
  TypeOK
  NoTaskBeforeItsParents
  OneThreadPerTask
  GroupCounters
  BeginSkipsOnlyDone
  ReturnsAfterLastTask
  NoLostWakeup
  NeverAllAsleep
PROPERTIES
  StartReturns
  ImplementsTaskOrder
