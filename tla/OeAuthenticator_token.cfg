SPECIFICATION FairSpec
CONSTANTS
  t1 = t1
  t2 = t2
  Tasks = {t1, t2}
  Users = {0, 1}
  MaxTokens = 3
INVARIANTS TypeOK StoredIsCurrent ListenersKnowTheToken TokenOfCurrentUser
PROPERTIES ValidTokenIsKept UpdatesEnd
CHECK_DEADLOCK FALSE
