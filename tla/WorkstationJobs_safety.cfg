CONSTANTS
  r1 = r1
  r2 = r2
  Runs <- MCRuns
  Mem <- MCMem
  Capacity = 3
  MaxFaults = 4
SYMMETRY Alike
SPECIFICATION Spec
INVARIANTS TypeOK CapacityHeld 
CHECK_DEADLOCK FALSE
