SPECIFICATION FairSpec
CONSTANTS
    Conns = {c1, c2}
    Kinds <- MCKinds
    Identified = TRUE
    MaxPackets = 3
    MaxUnread = 2
    Quiet = {c2}
    None = None
INVARIANTS EventsFaithful 
PROPERTY Served
CHECK_DEADLOCK FALSE
