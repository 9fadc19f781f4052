SPECIFICATION FairSpec
CONSTANTS
  Tabs = {t1, t2}
  Entry = {t1}
  Reqs = {q1, q2}
  NoTab = NoTab
  MaxPairs = 3
  MaxExpired = 1
  MaxLogins = 1
  MaxFaults = 1
INVARIANTS
  SessionSound
PROPERTIES
  
  RequestsSettle
  BootSettles
CHECK_DEADLOCK FALSE
