SPECIFICATION Spec
CONSTANTS
  queueSize = 3
  MaxEvents = 3
  Priors = {0, 1}
  NoEvent = NoEvent
INVARIANTS PriorityOrder
CHECK_DEADLOCK FALSE
