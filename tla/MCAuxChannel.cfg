SPECIFICATION Spec
CONSTANTS
  Texts = {t1, rough, smooth}
  Rough = rough
  Smooth = smooth
  TooLarge = {}
  NonText = nontext
  Start = {t1}
  AudioFifo = 1
  Burst = 1
  WireCap = 1
  MaxCopies = 2
  MaxSlips = 1
  MaxFails = 1
INVARIANTS
  AuxInv
PROPERTIES
  CopyArrives
  KeepsLatest
CHECK_DEADLOCK FALSE
