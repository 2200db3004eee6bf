CONSTANTS
  Shapes <- MCShapes
  Payload <- MCPayload
  MaxRecords = 2
  ct_rbufsz = 9
  MaxAllocFails = 0
  HeapBytes = {0}
SPECIFICATION Spec
INVARIANTS
  MarkerReassembled
CHECK_DEADLOCK FALSE
