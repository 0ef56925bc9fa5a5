SPECIFICATION FairSpec
CONSTANTS
  dev = dev
  tra = tra
  home = home
  away = away
  PCs <- TwoPCs
  Ops <- OneOp
  TransportOps <- NoOps
  MaxFaults = 1
PROPERTY PendingReconciles
