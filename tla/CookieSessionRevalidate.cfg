\* A revalidation after a login.
SPECIFICATION Spec
CONSTANTS
    Tabs = {t1, t2}
    Roles = {"admin"}
    Rules <- MCRules
PROPERTY RevalidationUpdatesUser
