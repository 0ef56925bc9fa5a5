SPECIFICATION FairSpec
CONSTANTS
  a = a
  b = b
  r1 = r1
  r2 = r2
  inherit = inherit
  chosen = chosen
  o1 = o1
  o2 = o2
  Sources <- TwoSources
  Requests <- TwoRequests
  Targets <- OneTarget
  Ops <- TwoOps
  MaxRequests = 2
  MaxChanges = 1
  MaxFaults = 2
INVARIANTS TypeOK OneSuccessor
PROPERTIES FinishedForGood EveryOperationEnds
CHECK_DEADLOCK FALSE
