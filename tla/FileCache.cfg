CONSTANTS
    Threads = {t1, t2}
    Files = {a, b}
    Sizes = {0, 1, 2}
    Limits = {1, 2}
    MaxTime = 2
    MaxVersion = 3
    None = None
SPECIFICATION FairSpec
INVARIANTS
    TypeOK
    ListMatchesMap
    Accounting
    LeastRecentlyUsed
    ChangesNoticed
PROPERTIES
    RefinesLru
    CallReturns
CHECK_DEADLOCK FALSE
