CONSTANTS
  MAX_OUTSTANDING = 2
  ACK_HISTORY_LIMIT = 1
  MaxEpoch = 4
  MaxSeq = 3
  Viewers = 2
  Work <- MCWork
  QUEUE_DEPTH = 1
  SPARSE_QUEUE_DEPTH = 1
  DRAIN_BATCH = 1
  MAX_PENDING_LOGICAL_FRAMES = 4
  EagerReconnect = FALSE
SPECIFICATION Spec
INVARIANTS
  
  OrderInv
PROPERTIES
  FlowSpec
CHECK_DEADLOCK FALSE
