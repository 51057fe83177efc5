SPECIFICATION Spec
CONSTANTS
  w1 = w1
  w2 = w2
  Workers = {w1, w2}
  NoThread = NoThread
  MaxSessions = 2
  MaxCalls = 2
  MaxLines = 1
  MaxRestarts = 1
  Notifications = {"CONNECTED", "LOG_ERROR"}
  OfferedProtocols = {"udp"}
  SigtermErrors = {"PingReset"}
  Calls = {"Connect", "ToggleKillSwitch", "UnblockTraffic", "Stop"}
  BlockOnConnect = TRUE
  KillSwitchSettings = {TRUE, FALSE}
SYMMETRY Symmetry
INVARIANTS ClientsSeeTheState DroppedLeavesNoBlock
PROPERTY DropStaysBlocked
CHECK_DEADLOCK FALSE
