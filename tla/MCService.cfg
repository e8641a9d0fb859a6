CONSTANTS
    Docs <- MCDocs
    Edits <- MCEdits
    LogDocs <- MCLogDocs
    IntMax = 70000
    Fds = {1, 2, 3}
    MaxFaults = 1
    MaxRestarts = 1
    Missing = Missing
    Procs = {"main", "child"}
    MaxSize = 1
    MaxTime = 2
    MaxLines = 3
    MaxOpens = 1
    MaxRenames = 1
SPECIFICATION FairSpec
INVARIANTS
    BootTypeOK
    LoadedRight
    OwnSiteUnlessStrayed
    ListensUnlessEdited
    SizeBounded
    LinesKept
PROPERTY
    ComesToWork
CHECK_DEADLOCK FALSE
