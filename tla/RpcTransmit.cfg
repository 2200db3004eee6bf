CONSTANTS
  Sizes = {1, 3}
  SockSpace = 2
  MaxBytes = 7
SPECIFICATION FairSpec
INVARIANTS
  TypeOK
  Tiling
PROPERTIES
  BlockingFlushDrains
  ImplementsFifo
  FlushReturns
