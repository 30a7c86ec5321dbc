SPECIFICATION EditsSpec
CONSTANTS
    a1 = a1
    a2 = a2
    d1 = d1
    t1 = t1
    t2 = t2
    t3 = t3
    add = add
    remove = remove
    Requests = {a1, a2, d1}
    Operation <- MCOperation
    Squashable = {a1, a2, d1}
    Parallelizable = {}
    OnlyLast = {}
    Outcomes <- MCOutcomes
    NoRequest = NoRequest
    Tracks = {t1, t2, t3}
    Track <- MCTrack
    Adds = {a1, a2}
    FirstContents = {t3}
INVARIANTS
    CacheAgrees
    OptimisticKept
    SequentialKept
PROPERTIES
    EditEnds
CHECK_DEADLOCK FALSE
