SPECIFICATION FairSpec
CONSTANTS
    MaxStarts = 1
    Listeners <- MCListeners
    Refused = {2}
    Configs = {1, 2}
INVARIANTS
    TypeOK
PROPERTIES
    CancelEndsProcess
CHECK_DEADLOCK FALSE
