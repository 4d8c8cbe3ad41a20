SPECIFICATION Spec
CONSTANTS
  Lists <- MCLists
  MaxCopies = 2
  MaxLocal = 1
  MaxErrors = 1
INVARIANTS
  FilesInv
PROPERTIES
  
  EmptyFilesArrive
CHECK_DEADLOCK FALSE
