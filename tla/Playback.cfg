SPECIFICATION FairSpec
CONSTANTS
  MAX_PLAYBACK_EVENTS = 3
  MaxEvents = 8
  Errnos = {"EINTR", "other"}
  None = None
INVARIANTS TypeOK NewestKept OnlyRacesDamage PlayedInOrder WindowPlayed
PROPERTIES PlaybackEnds
CHECK_DEADLOCK FALSE
