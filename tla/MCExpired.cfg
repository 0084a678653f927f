\* A task whose lease expired is not offered again.
SPECIFICATION WorkflowSpec
CONSTANTS
    p1 = p1
    a = a
    b = b
    red = red
    self = self
    local_ = local_
    board = board
    reducer = reducer
    none = none
    Plans = {p1}
    Nodes = {a, b, red}
    PlanOf <- OnePlan
    Dags <- Planned
    Fallback <- Unplanned
    Peers = {self, local_}
    NoPeer = none
    Cancellable = {}
    ReadyWatchers = {board, reducer}
    Self = self
    Local = local_
    Board = board
    Reducer = reducer
    ReduceTasks = {red}
    TopicLen = 3
    NotifyCap = 1
    Lease = 1
    PlanTTL = 2
    MaxTime = 2
    MaxClaims = 2
CHECK_DEADLOCK FALSE
INVARIANTS
    ExpiredIsReoffered
