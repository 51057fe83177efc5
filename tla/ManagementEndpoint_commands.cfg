SPECIFICATION FairSpec
CONSTANT MaxNotifications = 3
INVARIANTS TypeOK RepliesMatch ReaderDiesWithOpenVpn
PROPERTIES CommandsAreAnswered ImplementsChannel
CHECK_DEADLOCK FALSE
