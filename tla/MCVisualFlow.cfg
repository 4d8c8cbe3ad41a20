CONSTANTS
  MAX_OUTSTANDING = 2
  ACK_HISTORY_LIMIT = 1
  MaxEpoch = 3
  MaxSeq = 3
SPECIFICATION Spec
INVARIANTS
  TypeOK
  ReleasedOnce
  TentativeIsOwned
  BoundedOutstanding

  
CHECK_DEADLOCK FALSE
