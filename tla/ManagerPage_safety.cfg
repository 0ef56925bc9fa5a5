SPECIFICATION Spec
CONSTANTS
  home = home
  spare = spare
  left = left
  right = right
  near = near
  far = far
  n1 = n1
  n2 = n2
  States <- TwoStates
  Terminals <- TwoTerminals
  Vps <- TwoVps
  Nonces <- TwoNonces
  MaxSessions = 2
  MaxNonces = 1
  MaxHellos = 1
  MaxKills = 1
  MaxReplacements = 1
SYMMETRY Alike
INVARIANTS TypeOK PageServes AcceptedOnce
PROPERTY ReusedIsThisVps
CHECK_DEADLOCK FALSE
