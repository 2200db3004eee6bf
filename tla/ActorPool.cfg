CONSTANTS
  t1 = t1
  t2 = t2
  t3 = t3
  Tids <- MCTids
  Main = Main
  Monitor = Monitor
  NoThread = NoThread
  PoolSizes = {1, 2}
  ExitStats <- MCAllStats
SPECIFICATION FairSpec
INVARIANTS
  StatusRecorded
  NoLostExit
  JoinedOnce
  TeardownComplete
PROPERTIES
  ExitHandled
  DestroyReturns
CHECK_DEADLOCK FALSE
