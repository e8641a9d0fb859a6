CONSTANTS
    Workers = {w1, w2}
    Tasks = {t1, t2, t3}
    None = None
SPECIFICATION FairSpec
INVARIANTS
    TypeOK
    Drained
    NoTaskWakeupLost
PROPERTIES
    RefinesQueue
    AcceptedRuns
    JoinReturns
CHECK_DEADLOCK FALSE
