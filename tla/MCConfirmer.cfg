SPECIFICATION ConfirmerSpec
CONSTANTS
    s1 = s1
    s2 = s2
    l1 = l1
    l2 = l2
    order = order
    add = add
    Requests = {s1, s2, l1, l2}
    Operation <- MCOperation
    Squashable = {s1, s2}
    Parallelizable = {l1, l2}
    OnlyLast = {l1, l2}
    Outcomes <- MCOutcomes
    NoRequest = NoRequest
INVARIANTS
    OpenKept
    FiredInOrder
    SquashedCovered
    AnsweredOnce
PROPERTIES
    GroupCleared
CHECK_DEADLOCK FALSE
