SPECIFICATION FairSpec
CONSTANTS
    p1 = p1
    p2 = p2
    p3 = p3
    Process = {p1, p2, p3}
    Host <- OneHost
    NoFile = NoFile
    Trouble <- Everything
INVARIANT TypeOK
INVARIANT ExcludesUntilUpset
PROPERTY AbandonedReclaimed
CHECK_DEADLOCK FALSE
