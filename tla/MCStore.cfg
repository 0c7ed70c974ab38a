SPECIFICATION Spec
CONSTANTS
    i1 = i1
    i2 = i2
    o1 = o1
    o2 = o2
    Instance = {i1, i2}
    Versioned = {i1}
    Object = {o1, o2}
    Pinned = {o1}
    leavesOf <- Leaf
    Free = Free
    Trouble <- Everything
INVARIANT BuilderRegistered
INVARIANT WaitsEnd
PROPERTY SettledKept
PROPERTY OwnHistoryKept
CHECK_DEADLOCK FALSE
