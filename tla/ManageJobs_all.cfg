SPECIFICATION FairSpec
CONSTANTS
  first = first
  second = second
  add = add
  reset = reset
  j1 = j1
  j2 = j2
  Managers <- TwoManagers
  Requests <- OneRequest
  Jobs <- TwoJobs
  MaxFaults = 2
INVARIANTS TypeOK ReportsHold AtMostOnce
PROPERTIES CommitsAsShown RecordsSettle
