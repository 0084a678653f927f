\* One topic with two channels of length 2.
SPECIFICATION Spec
CONSTANTS
    ready = ready
    board = board
    network = network
    manager = manager
    c1 = c1
    c2 = c2
    Topics = {ready}
    Chans = {c1, c2}
    Publishers = {board, network, manager}
    Watches = {board}
    Deliveries = {network}
    Length = 2
    MaxEvents <- Twice
    None = None
CHECK_DEADLOCK FALSE
INVARIANTS
    PostmanTypeOK
    InOrder
    EveryEventCounts
    OnlyReleaseCrashes
PROPERTIES
    StopDoesReturn
