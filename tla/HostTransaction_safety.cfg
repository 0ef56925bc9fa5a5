\* A device operation and a transport upgrade, two faults anywhere.
SPECIFICATION Spec
CONSTANTS
  dev = dev
  tra = tra
  Ops <- BothOps
  TransportOps <- TraOps
  MaxFaults = 2
INVARIANTS
  TypeOK
  QuietAgreement
  Recoverable
  PublicationGuarded
  ServicesHeld
PROPERTIES
  ImplementsChoice
