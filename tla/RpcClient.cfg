CONSTANTS
  Garbled = Garbled
  Rooms <- MCRooms
  Calls <- MCCalls
  Flags <- MCAllFlags
  XidMod = 4
  FirstXids = {1}
  FaultKinds = {"memory", "write", "read", "reply"}
  MaxFaults = 1
SPECIFICATION FairSpec
INVARIANTS
  PendingExact
  NoStrandedReply
  CallbackOnce
  PendingOnTheWay
PROPERTIES
  EveryCallAnswered
