CONSTANTS
  Shapes <- MCShapes
  Payload <- MCPayload
  MaxRecords = 3
  ct_rbufsz = 9
  MaxAllocFails = 2
  HeapBytes = {0, 200}
SPECIFICATION Spec
INVARIANTS
  CopyInBounds
  CollateFits
  PromptDelivery
PROPERTIES
  ImplementsFifo
CHECK_DEADLOCK FALSE
