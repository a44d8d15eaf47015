SPECIFICATION Spec
CONSTANTS
  no_ebuffs = 1
  queueSize = 1
  MaxEvents = 2
  Priors = {0}
  Lens = {4}
  PosBound = 5
  Kinds = {"EVENT_T"}
  Expired = {FALSE}
  UintRange = 8
  NoEvent = NoEvent
INVARIANTS NoneWaitsInSilence
CHECK_DEADLOCK FALSE
