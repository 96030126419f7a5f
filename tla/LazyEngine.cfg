\* Two requests and the loop, two engine starts (so that a second engine can
\* displace a first one), a planner context that can be cancelled.  A request
\* and the loop can wait for each other for ever (DoomIsForever), so the system
\* really may stop.
SPECIFICATION FairSpec
CONSTANTS
    Requests = {r1, r2}
    Loop = Loop
    Nobody = Nobody
    MaxEngines = 2
    Cancellable = TRUE
INVARIANTS
    TypeOK
    ExecutesOnCurrentEngine
    DeliversOneResponse
PROPERTIES
    DoomIsForever
    SlotSpec
    LoadReturns
    UsedEngineIsStopped
CHECK_DEADLOCK FALSE
