CONSTANTS
  f1 = f1
  f2 = f2
  a1 = a1
  a2 = a2
  r1 = r1
  r2 = r2
  r3 = r3
  FuseThreads <- MCFuseThreads
  Actors <- MCActors
  Requests <- MCRequests
  NoThread = NoThread
  NoRequest = NoRequest
SPECIFICATION FairSpec
INVARIANTS
  SemaphoreExact
  ActorFindsRequest
  OneActorPerRequest
PROPERTIES
  ImplementsFifo
  EveryRequestTaken
CHECK_DEADLOCK FALSE
