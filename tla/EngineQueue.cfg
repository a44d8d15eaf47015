SPECIFICATION FairSpec
CONSTANTS
  Servlets = {s1, s2}
  MaxEvents = 3
  NULL = NULL
  Wild = Wild
INVARIANTS TypeOK WellLinked
PROPERTIES AllDelivered ImplementsPool
CHECK_DEADLOCK FALSE
