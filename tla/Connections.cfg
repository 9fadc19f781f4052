SPECIFICATION Spec
CONSTANTS
  Projects = {p1}
  MaxConnectionsPerProject = 2
  MaxCalls = 3
INVARIANTS
  ConnectionsSound
  OwnWritesShown
PROPERTIES
  GoneForGood
CHECK_DEADLOCK FALSE
