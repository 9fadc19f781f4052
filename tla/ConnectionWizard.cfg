SPECIFICATION FairSpec
CONSTANTS
  MaxSaves = 2
  MaxOpenings = 2
  MaxLost = 1
INVARIANTS
  WizardSound
PROPERTIES
  SaveSettles
CHECK_DEADLOCK FALSE
