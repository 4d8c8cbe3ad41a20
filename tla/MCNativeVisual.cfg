CONSTANTS
  Blocks = {b1, b2}
  MaxSeq = 4
  MAX_OUTSTANDING = 2
  FRAME_ACK_QUEUE_CAPACITY = 2
SPECIFICATION FairSpec
INVARIANTS
  AcksInv
  CanvasIsReal
  QuiescentIsCurrent
  
PROPERTIES
  NoRollback
  ReadersLeave
  
CHECK_DEADLOCK FALSE
