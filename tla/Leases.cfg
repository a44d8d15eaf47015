SPECIFICATION FairSpec
CONSTANTS
  Clients = {c1}
  SameHost = FALSE
  Foreign = {}
  NoClasses = 1
  INTERVAL = 3
  BC_INTERVAL = 10
  LEASE = 10
  WAKEUP = 9
  WAKEUPS = 2
  Slack = 0
  MaxLives = 2
  MaxServerLives = 2
  MaxLost = 1
  None = None
INVARIANTS TypeOK OneLeasePerAddress
PROPERTIES LeasesRenewed GoneIsForgotten Rediscovery
CHECK_DEADLOCK FALSE
