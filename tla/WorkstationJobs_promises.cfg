CONSTANTS
  r1 = r1
  r2 = r2
  Runs <- MCRuns
  Mem <- MCMem
  Capacity = 3
  MaxFaults = 3
SYMMETRY Alike
SPECIFICATION Spec
INVARIANT OnePromiseKept
CHECK_DEADLOCK FALSE
