SPECIFICATION MCSpec
CONSTANTS
  s1 = s1
  s2 = s2
  n1 = n1
  n2 = n2
  n3 = n3
  None = None
  Subscriptions = {s1, s2}
  Notifications = {n1, n2, n3}
  Matching <- MCMatching
  vpn = vpn
  launcher = launcher
  Peers = {vpn, launcher}
  c1 = c1
  Clients = {c1}
  Callers = {vpn}
  MayBreak = FALSE
INVARIANTS WorkMatchesQueue
PROPERTIES ImplementsDelivery AllDelivered PeersInitialize RequestsAnswered
CHECK_DEADLOCK FALSE
