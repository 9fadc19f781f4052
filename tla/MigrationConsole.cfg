SPECIFICATION ConsoleFairSpec
CONSTANTS
  Conns = {"a", "b"}
  First = "a"
  MaxLaunches = 1
  MaxVisits = 3
  MaxTaps = 1
  MaxEvents = 1
  MaxFaults = 1
INVARIANTS
  ConsoleSound
PROPERTIES
  NoRegress
  PollCatchesUp
  ListCatchesUp
CHECK_DEADLOCK FALSE
