SPECIFICATION Spec
CONSTANTS
  Clients = {c1, c2}
  SameHost = TRUE
  Foreign = {}
  NoClasses = 1
  INTERVAL = 3
  BC_INTERVAL = 10
  LEASE = 10
  WAKEUP = 9
  WAKEUPS = 2
  Slack = 0
  MaxLives = 1
  MaxServerLives = 1
  MaxLost = 0
  None = None
PROPERTIES HeardIsKept
CHECK_DEADLOCK FALSE
