SPECIFICATION Spec
CONSTANTS
    MaxConn = 3
    MaxToken = 2
    MaxWaiting = 1
INVARIANTS
    TypeOK
    RoutesAgree
    ServingIsReady
    NothingServesDuringUpdate
PROPERTIES
    ReadyToldToServing
CHECK_DEADLOCK FALSE
