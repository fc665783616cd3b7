SPECIFICATION Spec
CONSTANTS
    MaxConn = 2
    MaxToken = 1
    MaxWaiting = 1
INVARIANT ReplacementNotStranded
CHECK_DEADLOCK FALSE
