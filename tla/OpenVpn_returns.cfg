SPECIFICATION FairSpec
CONSTANTS
  w1 = w1
  w2 = w2
  Workers = {w1, w2}
  NoThread = NoThread
  MaxSessions = 1
  MaxCalls = 2
  MaxLines = 2
  MaxRestarts = 0
  Notifications = {"CONNECTED", "CONNECTED_ERROR", "AUTH_FAILED", "RECONNECTING", "EXITING", "FATAL", "ERROR_REPLY"}
  OfferedProtocols = {"udp"}
  SigtermErrors = {"PingReset"}
  Calls = {"Connect", "Disconnect"}
  BlockOnConnect = TRUE
  KillSwitchSettings = {TRUE}
PROPERTIES DisconnectReturns ExitIsNoticed
CHECK_DEADLOCK FALSE
