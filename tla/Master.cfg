CONSTANTS
    Pids = {1, 2, 3}
    cpu_cores = 2
SPECIFICATION FairSpec
INVARIANTS
    TypeOK
    ChildrenTracked
    AllTerminated
PROPERTIES
    ExitServed
    ZombiesReaped
CHECK_DEADLOCK FALSE
