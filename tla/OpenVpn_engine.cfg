SPECIFICATION Spec
CONSTANTS
  w1 = w1
  w2 = w2
  Workers = {w1, w2}
  NoThread = NoThread
  MaxSessions = 2
  MaxCalls = 2
  MaxLines = 2
  MaxRestarts = 1
  Notifications = {"CONNECTED", "FATAL", "ERROR_REPLY"}
  OfferedProtocols = {"udp"}
  SigtermErrors = {"PingReset"}
  Calls = {"Connect", "Disconnect"}
  BlockOnConnect = TRUE
  KillSwitchSettings = {TRUE}
SYMMETRY Symmetry
INVARIANTS TypeOK OneProcess DeadSessionSettles
CHECK_DEADLOCK FALSE
