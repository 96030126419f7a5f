\* Two goroutines that serve counted requests, one that serves health checks.
\* After Cancel nobody receives events any more: a request may wait for ever.
SPECIFICATION FairSpec
CONSTANTS
    Requests = {a, b, h}
    Skipped = {h}
INVARIANTS
    TypeOK
    CounterIsExact
    IdleIsCountedDown
PROPERTIES
    SendersProceed
    IdleProcessEnds
CHECK_DEADLOCK FALSE
