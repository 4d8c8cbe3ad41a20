SPECIFICATION Spec
CONSTANTS
  Displays = {d1, d2}
  Default = none
  MaxBreaks = 3
  TornAgent = FALSE
  Hosts = {"nothing", "old", "flat", "same"}
INVARIANTS
  DeployInv
PROPERTIES
  SuccessIsReal
  
  
CHECK_DEADLOCK FALSE
