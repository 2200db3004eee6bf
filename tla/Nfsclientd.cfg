CONSTANTS
  f1 = f1
  FuseThreads <- MCFuseThreads
  Actor = Actor
  Requests <- MCRequests
  NoThread = NoThread
  NoRequest = NoRequest
  Rooms <- MCRooms
  XidMod = 4
  FirstXids = {1}
  FaultKinds = {"memory", "write", "read", "reply"}
  MaxFaults = 1
  Garbled = Garbled
  Statuses <- MCStatuses
  Undecodable = Undecodable
SPECIFICATION FairSpec
INVARIANTS
  AnsweredOnce
PROPERTIES
  AnsweredInTurn
  EveryErrorAnswered
CHECK_DEADLOCK FALSE
