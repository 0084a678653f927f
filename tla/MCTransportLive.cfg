\* One other node, and the node itself.
SPECIFICATION LiveSpec
CONSTANTS
    bob = bob
    nobody = nobody
    me = me
    board = board
    app = app
    s1 = s1
    h1 = h1
    i1 = i1
    i2 = i2
    o1 = o1
    o2 = o2
    Remote = {bob}
    Undecodable = {}
    Self = me
    Protocols = {board}
    Contexts = {app}
    Cancellable = {app}
    Callers = {s1}
    Hosts = {h1}
    Inlets = {i1}
    Outlets = {o1, o2}
    InsLength = 1
    OutsLength = 1
    MaxCleaning = 1
    None = None
CHECK_DEADLOCK FALSE
PROPERTIES
    ClosedOutletsEnd
