SPECIFICATION Spec
CONSTANTS
    Session = {s1, s2}
    Workspace = {w1, w2}
    NoWorkspace = none
    MaxCalls = 1
    MaxFail = 2
    MaxLink = 2
INVARIANTS
    TypeOK
    CallsHaveWorkspace
    NoReleaseForgotten
PROPERTIES
    CatalogNeverOlder
CHECK_DEADLOCK FALSE
