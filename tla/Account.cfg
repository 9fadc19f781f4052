SPECIFICATION Spec
CONSTANTS
  Tabs = {t1, t2}
  Usernames = {u1}
  NoName = NoName
  MaxCodes = 2
  MaxCalls = 3
  MaxOpen = 2
  MaxFaults = 1
SYMMETRY TabSymmetry
INVARIANTS
  AccountSound
  OwnWritesShown
PROPERTIES
  VerifiedStays
CHECK_DEADLOCK FALSE
