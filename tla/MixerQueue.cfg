SPECIFICATION FairSpec
CONSTANTS
  queueSize = 4
  MaxEvents = 5
  Priors = {0, 1, 2}
  NoEvent = NoEvent
INVARIANTS TypeOK SlotsInBounds NothingLostOrDoubled
PROPERTIES ImplementsPool OperationsEnd
CHECK_DEADLOCK FALSE
