SPECIFICATION FairSpec
CONSTANTS
  Threads = {t1, t2}
  Pids = {p1, p2, p3}
  Init1 = init
  MaxCalls = 2
INVARIANTS
  TypeOK
  WaitsForItsOwn
  OnlyUnwaitedLeft
PROPERTIES
  ReturnsOwnStatus
  LaunchesReturn
