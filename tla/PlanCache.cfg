\* Two requests at a time: one may lead and the other wait, or both plan.
SPECIFICATION FairSpec
CONSTANTS
    Requests = {r1, r2}
    Bodies <- MCBodies
    NoSource = NoSource
INVARIANTS
    TypeOK
    EngineIsShared
PROPERTIES
    DirectSpec
    RequestsAreAnswered
CHECK_DEADLOCK FALSE
