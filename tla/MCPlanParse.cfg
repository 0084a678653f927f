\* Every decomposition of up to three sub-tasks with up to two dependencies each.
SPECIFICATION Spec
CONSTANTS
    x = x
    y = y
    z = z
    reduce = reduce
    single = single
    Names = {x, y, z, reduce, single}
    Reduce = reduce
    Single = single
    Decompositions <- Small
    MaxSubtasks = 3
    MaxDeps = 2
SYMMETRY Alike
CHECK_DEADLOCK FALSE
INVARIANTS
    ParseTypeOK
    CountsAreExact
    GraphIsSound
    ReductionIsLast
