SPECIFICATION FairSpec
CONSTANTS
  no_ebuffs = 2
  queueSize = 1
  MaxEvents = 4
  Priors = {0}
  Lens = {2, 4}
  PosBound = 5
  Kinds = {"EVENT_T", "STATE_T", "unknown"}
  Expired = {TRUE, FALSE}
  UintRange = 8
  NoEvent = NoEvent
INVARIANTS TypeOK QueueSafe StringsOwned UncontendedCoherent
PROPERTIES EngineReturns MixerGoesRound
CHECK_DEADLOCK FALSE
