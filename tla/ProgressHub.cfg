SPECIFICATION HubFairSpec
CONSTANTS
  Clients = {c1, c2}
  ChanCap = 2
  MaxProgress = 3
INVARIANTS
  NoPanic
  SubscribersExact
  NothingLostUnlessFull
PROPERTIES
  SubscribersLetGo
CHECK_DEADLOCK FALSE
