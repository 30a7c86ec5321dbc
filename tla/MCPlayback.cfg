SPECIFICATION PlaybackSpec
CONSTANTS
    Tracks = {t1, t2, t3, t4}
    NoTrack = NoTrack
    Deleted = {t2}
    Locked = {t3}
    Lists <- MCLists
    Additions <- MCAdditions
    Suggested = {t4}
    MaxRetries = 1
    MaxExtending = 1
    MaxQueue = 4
    MaxCommands = 4
    MaxFaults = 1
    t1 = t1
    t2 = t2
    t3 = t3
    t4 = t4
CONSTRAINT MCBudget
VIEW MCPlaybackView
INVARIANTS
    Mirrored
    InQueue
PROPERTIES
    KeepsOrder
CHECK_DEADLOCK FALSE
