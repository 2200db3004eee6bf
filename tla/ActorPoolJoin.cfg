CONSTANTS
  t1 = t1
  t2 = t2
  t3 = t3
  Tids <- MCTids
  Main = Main
  Monitor = Monitor
  NoThread = NoThread
  PoolSizes = {2}
  ExitStats <- MCErrno
SPECIFICATION FairSpec
PROPERTIES
  ExitReported
CHECK_DEADLOCK FALSE
