CONSTANTS
  MaxOps = 2
  MaxEdits = 1
  MaxFaults = 2
SPECIFICATION Spec
INVARIANTS
  TypeOK
  CommittedWasWitnessed
  DiagnosticContained
  CommitReconcilable
CHECK_DEADLOCK FALSE
