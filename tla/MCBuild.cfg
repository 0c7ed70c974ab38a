SPECIFICATION Spec
CONSTANTS
    sodium = sodium
    lithium = lithium
    index = index
    lwjgl = lwjgl
    glfw = glfw
    h1 = h1
    h2 = h2
    x1 = x1
    x2 = x2
    o1 = o1
    o2 = o2
    p1 = p1
    p2 = p2
    assets = assets
    natives = natives
    Name = {sodium, lithium, index, lwjgl, glfw}
    Hash = {h1, h2, x1, x2}
    Object = {o1, o2}
    assetHashes <- Objects
    Path = {p1, p2, assets, natives}
    UserPath = {p1}
    NeverBuilt = NeverBuilt
    UserBytes = UserBytes
    Lock <- Locks
    Ignorable <- Protections
    Trouble <- AllTrouble
INVARIANT BuiltDescribesTree
INVARIANT MatchesUntilParted
INVARIANT LiveIndexWhole
INVARIANT BuildsVerify
PROPERTY ProtectedKept
