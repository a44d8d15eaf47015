SPECIFICATION Spec
CONSTANTS
  Servlets = {s1}
  MaxEvents = 2
  NULL = NULL
  Wild = Wild
INVARIANTS AcquiredMeansNonempty
CHECK_DEADLOCK FALSE
