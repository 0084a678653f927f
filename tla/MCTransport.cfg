\* A node that sends to one other, to itself and to an ID that is none, and opens its protocol twice.
SPECIFICATION Spec
CONSTANTS
    bob = bob
    nobody = nobody
    me = me
    board = board
    app = app
    s1 = s1
    h1 = h1
    i1 = i1
    i2 = i2
    o1 = o1
    o2 = o2
    Remote = {bob, nobody}
    Undecodable = {nobody}
    Self = me
    Protocols = {board}
    Contexts = {app}
    Cancellable = {app}
    Callers = {s1}
    Hosts = {h1}
    Inlets = {i1, i2}
    Outlets = {o1, o2}
    InsLength = 1
    OutsLength = 1
    MaxCleaning = 1
    None = None
SYMMETRY Alike
CHECK_DEADLOCK FALSE
INVARIANTS
    TransportTypeOK
    TablesAreOpen
    AcceptedIsServed
    SelfLeadsHome
