SPECIFICATION FairSpec
CONSTANTS
  j1 = j1
  j2 = j2
  k1 = k1
  Jobs = {j1, j2}
  LockKeys = {k1}
  LockKey <- OneKey
  Cancels = {c1}
  MaxCrashes = 1
INVARIANTS
  OneJobPerKey
  LockMapExact
  NotificationsMatchRow
  ClosedMeansTerminal
PROPERTIES
  LifecycleSpec
  LockReleased
  OutcomeRecorded
CHECK_DEADLOCK FALSE
