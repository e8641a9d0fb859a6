CONSTANTS
    Scripts <- MCScripts
    Sizes = {0, 1, 2}
    Cap = 3
    MaxChanges = 2
    NoFile = NoFile
SPECIFICATION FairSpec
INVARIANTS
    TypeOK
    WholeUnlessExcused
    NeverTooMuch
    AnswersInOrder
    
    CrashOnlyIfShrunk
PROPERTY
    HandlerReturns
CHECK_DEADLOCK FALSE
