SPECIFICATION Spec
CONSTANTS
    Bounds <- MCBounds
    Opened = {2, 3}
    Lens <- MCLens
    Loaded <- MCLoaded
    Volumes = {0, 1, 3, 4, 5}
    FadePoints = {0, 2, 4}
    MaxEvents = 3
INVARIANTS TypeOK PlaysInside
PROPERTIES FadeHandsOver NextSegment
CHECK_DEADLOCK FALSE
