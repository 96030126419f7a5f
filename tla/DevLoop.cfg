\* One change of the upstream schema and the builds that its polls can cause.
SPECIFICATION FairSpec
CONSTANTS
    Runners = {"config", "hooks"}
    Daemons = {"hooks"}
    MaxRuns = 3
    MaxUpstream = 1
INVARIANTS
    TypeOK
    OneProcessPerRunner
PROPERTIES
    SlotSpec
    CacheConverges
    LastChangeIsServed
CHECK_DEADLOCK FALSE
