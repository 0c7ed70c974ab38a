SPECIFICATION Spec
CONSTANTS
    Exclude = Exclude
    Config = Config
    Mod = Mod
    Plain = Plain
    Ignoring = Ignoring
    Bare = Bare
    Modded = Modded
    None = None
    Path <- Paths
    Content = {Plain, Ignoring}
    RuleOf <- MCRuleOf
    Version = {Bare, Modded}
    Local <- MCLocal
    Branch = {main, other}
    MaxChanges = 4
INVARIANTS
    CleanMeansHead
    CommittedFresh
    Arrives
    MergeKeepsEdits
PROPERTIES
    NothingUnsavedLost
    IgnoredKept
CHECK_DEADLOCK FALSE
