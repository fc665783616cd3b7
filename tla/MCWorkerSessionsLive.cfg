SPECIFICATION Spec
CONSTANTS
    Session = {s1, s2}
    Workspace = {w1}
    NoWorkspace = none
    MaxCalls = 1
    MaxFail = 1
    MaxLink = 1
PROPERTIES
    RetireSettles
CHECK_DEADLOCK FALSE
