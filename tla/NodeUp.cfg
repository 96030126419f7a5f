\* One change of the file besides the first configuration, and a start for
\* every event the two can cause.  The command ends when it is told to.
SPECIFICATION FairSpec
CONSTANTS
    MaxWrites = 2
    MaxStarts = 3
    Listeners <- MCListeners
    Refused = {}
INVARIANTS
    TypeOK
    NewestServerServes
PROPERTIES
    ConfigIsServed
CHECK_DEADLOCK FALSE
