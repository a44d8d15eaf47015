SPECIFICATION Spec
CONSTANTS
    Names = {"http", "login", "load", "users"}
    Hash <- MCHash
    SoundNames = {"a", "b", "c", "m", "x"}
    Dirs = {"good", "broken", "missing"}
    Files <- MCFiles
    Unreadable = {"broken"}
    EventSections <- MCEventSections
    StateSections <- MCStateSections
    Themes <- MCThemes
    no_sbuffs = 2
    MaxSections = 6
    MaxDepth = 1
    None = None
INVARIANTS TypeOK OwnChannel InBounds  EventsWhole ThemeEventsLoaded DuplicatesAdjacent
CHECK_DEADLOCK FALSE
