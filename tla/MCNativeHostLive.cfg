CONSTANTS
  MAX_OUTSTANDING = 2
  ACK_HISTORY_LIMIT = 1
  MaxEpoch = 2
  MaxSeq = 2
  Viewers = 1
  Work <- MCServe
  QUEUE_DEPTH = 2
  SPARSE_QUEUE_DEPTH = 1
  DRAIN_BATCH = 1
  MAX_PENDING_LOGICAL_FRAMES = 4
  EagerReconnect = FALSE
SPECIFICATION FairSpec
PROPERTIES
  FullWindowClears
  ViewerForgotten
CHECK_DEADLOCK FALSE
