SPECIFICATION Spec
CONSTANTS
    Mod = Mod
    Other = Other
    Jar = Jar
    Jar2 = Jar2
    First = First
    Second = Second
    None = None
    Peer = {author, joiner}
    Keyed = {author}
    Path <- Paths
    Own = {text}
    Replay = {Jar, Jar2}
    Version = {First, Second}
    Setups <- MCSetups
    Rows <- MCRows
    MaxChanges = 3
INVARIANTS
    ReplayStaysHome
    HistoryComplete
    VettedIsInstalled
    PushedInReach
PROPERTIES
    OwnFilesRecorded
CHECK_DEADLOCK FALSE
