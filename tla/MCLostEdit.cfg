SPECIFICATION EditsSpec
CONSTANTS
    a1 = a1
    a2 = a2
    d1 = d1
    t1 = t1
    t2 = t2
    t3 = t3
    add = add
    remove = remove
    Requests = {a1, a2}
    Operation <- MCTwoOperation
    Squashable = {a1, a2}
    Parallelizable = {}
    OnlyLast = {}
    Outcomes <- MCTwoOutcomes
    NoRequest = NoRequest
    Tracks = {t1, t2, t3}
    Track <- MCTwoTrack
    Adds = {a1, a2}
    FirstContents = {t3}
INVARIANTS
    NothingLost
CHECK_DEADLOCK FALSE
