\* A plan of two tasks, two kinds of peers, subscribers and time: what must happen.
SPECIFICATION FairSpec
CONSTANTS
    p1 = p1
    a = a
    b = b
    c = c
    e = e
    board = board
    local = local
    none = none
    Plans = {p1}
    Nodes = {a, b}
    PlanOf <- OnePlan
    Dags <- Pairs
    Peers = {board, local}
    NoPeer = none
    Cancellable = {local}
    ReadyWatchers = {board}
    TopicLen = 1
    NotifyCap = 1
    Lease = 1
    PlanTTL = 2
    MaxTime = 3
    MaxClaims = 1
CHECK_DEADLOCK FALSE
PROPERTIES
    EveryPlanIsAnswered
    EveryLeaseEnds
