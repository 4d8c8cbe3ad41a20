SPECIFICATION Spec
CONSTANTS
  Lists <- MCLists
  MaxCopies = 1
  MaxLocal = 0
  MaxErrors = 0
PROPERTIES
  DownloadFinishes
CHECK_DEADLOCK FALSE
