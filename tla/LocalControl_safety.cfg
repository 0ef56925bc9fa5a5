SPECIFICATION Spec
CONSTANTS
  dev = dev
  tra = tra
  home = home
  away = away
  PCs <- TwoPCs
  Ops <- TwoOps
  TransportOps <- TraOps
  MaxFaults = 1
SYMMETRY Symmetry
INVARIANTS TypeOK SavedIsPublished
PROPERTY CommitsOwnArchive
