SPECIFICATION MCSpec
CONSTANTS
  Requests = {"features", "theme"}
  Topics = {"status"}
  Ids = {0, 1, 2}
  None = None
  MaxBreaks = 2
  Regions = {"nearest", "de"}
  MaxClicks = 2
  MaxChanges = 1
  MaxUnderWay = 3
  MaxTasks = 2
  NoView = NoView
  MaxViewClicks = 4
INVARIANTS TypesOK PartsAgree NeverStranded
PROPERTIES RepliesReachTheirCallback RequestsSettle SubscribedAtLast StoppedStaysStopped SwitchesSettle
CHECK_DEADLOCK FALSE
