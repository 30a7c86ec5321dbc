SPECIFICATION ConfirmerSpec
CONSTANTS
    s1 = s1
    s2 = s2
    l1 = l1
    l2 = l2
    order = order
    add = add
    Requests = {s1, s2}
    Operation <- MCPlain
    Squashable = {}
    Parallelizable = {}
    OnlyLast = {}
    Outcomes <- MCPlainOutcomes
    NoRequest = NoRequest
INVARIANTS
    AnsweredAtMostOnce
CHECK_DEADLOCK FALSE
