SPECIFICATION Spec
CONSTANTS
  w1 = w1
  w2 = w2
  Workers = {w1, w2}
  NoThread = NoThread
  MaxSessions = 1
  MaxCalls = 2
  MaxLines = 1
  MaxRestarts = 0
  Notifications = {"CONNECTED"}
  OfferedProtocols = {"udp"}
  SigtermErrors = {"PingReset"}
  Calls = {"Connect", "Disconnect"}
  BlockOnConnect = TRUE
  KillSwitchSettings = {TRUE}
SYMMETRY Symmetry
PROPERTY DropStaysBlocked
CHECK_DEADLOCK FALSE
