CONSTANTS
  Ids = {1, 2}
  Blocks = {1, 2}
  Regions <- MCRegions
  Origins = {0, 1}
  Canvases = {0, 1}
  MaxWrites = 2
  Work <- MCWork
  MAX_CONSECUTIVE_PRESENT_FAILURES = 2
SPECIFICATION FairSpec
INVARIANTS
  PresentInv
PROPERTIES
  LumaHeld
  PictureArrives
CHECK_DEADLOCK FALSE
