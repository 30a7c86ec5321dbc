SPECIFICATION PlaybackSpec
CONSTANTS
    Tracks = {t1, t2, t3, t4}
    NoTrack = NoTrack
    Deleted = {}
    Locked = {t3}
    Lists <- MCShortList
    Additions <- MCAdditions
    Suggested = {t4}
    MaxRetries = 1
    MaxExtending = 1
    MaxQueue = 4
    MaxCommands = 2
    MaxFaults = 0
    t1 = t1
    t2 = t2
    t3 = t3
    t4 = t4
PROPERTIES
    SkippingEnds
CHECK_DEADLOCK FALSE
