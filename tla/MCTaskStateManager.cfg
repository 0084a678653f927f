\* One plan, every shape of graph, every interleaving of calls and timers.
SPECIFICATION Spec
CONSTANTS
    p1 = p1
    a = a
    b = b
    c = c
    e = e
    board = board
    local = local
    none = none
    Plans = {p1}
    Nodes = {a, b, c, e}
    PlanOf <- OnePlan
    Dags <- Shapes
    Peers = {board}
    NoPeer = none
    Cancellable = {}
    ReadyWatchers = {board}
    TopicLen = 0
    NotifyCap = 1
    Lease = 1
    PlanTTL = 2
    MaxTime = 2
    MaxClaims = 2
CHECK_DEADLOCK FALSE
INVARIANTS
    TypeOK
    DependenciesFirst
    LeasesHold
    DisposedAsAWhole
    AtMostOneResult
    NoPlanEndsInSilence
    ResultIsTruthful
    NeverWedged
PROPERTIES
    ImplementsPlanExecution
