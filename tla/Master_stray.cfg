CONSTANTS
    Pids = {1, 2, 3}
    cpu_cores = 2
SPECIFICATION Spec
PROPERTY OnlyChildrenKilled
CHECK_DEADLOCK FALSE
