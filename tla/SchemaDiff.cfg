\* Two databases of at most a table of at most a column, of either type.
SPECIFICATION Spec
CONSTANTS
    Conns = {"a", "b"}
    First = "a"
    Sources = {"a"}
    Tables = {"t"}
    Columns = {"id"}
    Types = {"int", "text"}
    Marks = {"key"}
    KeyColumn = "id"
    KeyType = "text"
    KeyMark = "key"
    MaxChoices = 2
    MaxPresses = 2
    MaxChanges = 1
    MaxFaults = 1
INVARIANTS
  
  PageSound
CHECK_DEADLOCK FALSE
