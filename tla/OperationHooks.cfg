\* Two changes of the data, the three repetitions of the code.  The handler stops when the request is done.
SPECIFICATION FairSpec
CONSTANTS
    RetryMax = 3
    MaxData = 2
    MaxPolls = 2
    HookSets <- MCHookSets
INVARIANTS
    TypeOK
    ResolvedAsTheHooksLeftIt
    StatusTellsOutcome
    ResponsesPassTheirHook
PROPERTIES
    HandlerEnds
    LiveCatchesUp
CHECK_DEADLOCK FALSE
