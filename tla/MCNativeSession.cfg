SPECIFICATION FairSpec
CONSTANTS
  Keys = {k1}
  Positions = {0, 1}
  NATIVE_INPUT_BATCH_MAX = 1
  WireDepth = 1
  Loads <- MCLoads
INVARIANTS
  SessionInv
  
  OneCause
CHECK_DEADLOCK FALSE
PROPERTIES
  SessionEnds
