CONSTANTS
  Modes = {m1, m2}
  DESIRED_MODE = m1
  DefaultMode = m0
  Absent = Absent
  MAX_BACKOFF_TICKS = 2
  HEALTHY_RESET_TICKS = 2
  POOL_FAULT_TICKS = 3
  CYCLE_DEADLINE_TICKS = 2
  DriverTicks = 0
  Generations = 2
  Identities = 3
  MaxFaults = 2
SPECIFICATION FairAgentSpec
INVARIANTS
  ReconcilerInv

  
CHECK_DEADLOCK FALSE
