SPECIFICATION Spec
CONSTANTS
    Workers = {w1, w2, w3}
    Pools = {p1, p2}
    Versions = {4, 6}
INVARIANTS
    DeadlockIsOfTwoOrders
    NoOrphans
PROPERTY
    EveryRequestEnds
CHECK_DEADLOCK FALSE
