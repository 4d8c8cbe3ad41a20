SPECIFICATION ClipSpec
CONSTANTS
  LocalVals = {l1, l2}
  RemoteVals = {r1, r2}
  First = l1
  Pictures = {l2}
  Nothing = nothing
  Attempts = 2
  CopyLimit = 2
  MaxEvents = 1
INVARIANTS
  ClipboardInv
PROPERTIES
  
  LocalCopyAnnounced
  
CHECK_DEADLOCK FALSE
