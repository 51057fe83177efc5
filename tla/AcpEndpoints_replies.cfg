SPECIFICATION Spec
CONSTANTS
  vpn = vpn
  launcher = launcher
  Peers = {vpn, launcher}
  c1 = c1
  Clients = {c1}
  Callers = {vpn, launcher}
  MayBreak = TRUE
SYMMETRY Symmetry
INVARIANTS TypeOK RepliesMatch InitializedKnowsResources
CHECK_DEADLOCK FALSE
