SPECIFICATION FairSpec
CONSTANTS
  MaxRows = 13
  BatchSize = 2
  ChanCap = 4
INVARIANTS
  TargetSound
  ChannelsSound
  CompletedIsComplete
  CancelBounded
PROPERTIES
  StreamReturns
  ProducerEndsOrIsStuck
CHECK_DEADLOCK FALSE
