\* The input of a query after its mutatingPreResolve hook.
SPECIFICATION FairSpec
CONSTANTS
    RetryMax = 0
    MaxData = 0
    MaxPolls = 1
    HookSets <- MCHookSets
INVARIANTS
    InputIsMutated
CHECK_DEADLOCK FALSE
