\* One SQL and one document database, two tables each.
SPECIFICATION StudioFairSpec
CONSTANTS
    Conns = {"sql", "doc"}
    First = "sql"
    Documents = {"doc"}
    Shared = {"sql"}
    Tables = {"t", "u"}
    Leading = "t"
    Keyless = {"u"}
    Limits = {1, 2}
    MaxTableRows = 2
    MaxMoves = 1
    MaxSaves = 1
    MaxTroubles = 1
INVARIANTS
  StudioSound
PROPERTIES
  NoOlderRows
  WaitsEnd
CHECK_DEADLOCK FALSE
