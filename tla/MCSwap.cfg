SPECIFICATION FairSpec
CONSTANTS
    Target = {t1, t2}
    Content = {c1, c2}
    None = None
    Torn = Torn
    Unsynced <- NoWeakness
INVARIANT TypeOK
INVARIANT Recoverable
PROPERTY SwapIsAtomic
PROPERTY ReconciledOnStart
