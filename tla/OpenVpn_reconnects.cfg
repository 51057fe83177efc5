SPECIFICATION Spec
CONSTANTS
  w1 = w1
  w2 = w2
  Workers = {w1, w2}
  NoThread = NoThread
  MaxSessions = 3
  MaxCalls = 2
  MaxLines = 1
  MaxRestarts = 0
  Notifications = {"CONNECTED", "LOG_ERROR", "LOG_SIGTERM"}
  OfferedProtocols = {"udp", "tcp"}
  SigtermErrors = {"PingReset"}
  Calls = {"Connect", "Autoconnect"}
  BlockOnConnect = TRUE
  KillSwitchSettings = {FALSE}
SYMMETRY Symmetry
INVARIANT ReconnectsBounded
CHECK_DEADLOCK FALSE
