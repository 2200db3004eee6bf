CONSTANTS
  t1 = t1
  Threads <- MCThreads
  PoolSize = 2
  ConnFlags <- MCConnFlags
  Descriptors = {0, 3, 4, 5}
  Ports = {1, 2}
  MaxRestarts = 1
  MaxFaults = 1
  Other = Other
  NULL = NULL
SPECIFICATION FairSpec
INVARIANTS
  OwnDescriptor
  NothingLost
  RightProgram
PROPERTIES
  ConnectsInTheEnd
CHECK_DEADLOCK FALSE
