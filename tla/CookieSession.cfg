\* Two tabs of one browser.
SPECIFICATION Spec
CONSTANTS
    Tabs = {t1, t2}
    Roles = {"admin"}
    Rules <- MCRules
INVARIANTS
    TypeOK
    ServedAsApproved
    LastAnswerCounts
PROPERTIES
    RevalidationConverges
