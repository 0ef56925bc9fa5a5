\* One device operation and one fault under the fairness of the code.
SPECIFICATION FairSpec
CONSTANTS
  dev = dev
  tra = tra
  Ops <- OneOp
  TransportOps <- NoOps
  MaxFaults = 1
PROPERTIES
  JournalsClose
  ServicesReturn
