SPECIFICATION Spec
CONSTANTS
    i1 = i1
    i2 = i2
    o1 = o1
    o2 = o2
    Instance = {i1, i2}
    Versioned = {i1, i2}
    Object = {o1, o2}
    Pinned = {o1, o2}
    leavesOf <- NoLeaf
    Free = Free
    Trouble <- Nothing
SYMMETRY Symmetry
PROPERTY BuiltKept
CHECK_DEADLOCK FALSE
