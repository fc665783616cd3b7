SPECIFICATION Spec
CONSTANTS
    w1 = w1
    w2 = w2
    w3 = w3
    t1 = t1
    t2 = t2
    NoWait = NoWait
    NoDoc = NoDoc
    Wait = {w1, w2}
    Task = {t1}
    TaskOf <- MCTaskOf
    Retention = 1
    MaxFaults = 2
    MaxCrashes = 1
INVARIANTS
    TypeOK
    OneWaitPerTask
    ResultIsNotLost
    NothingUnannounced
    ConfirmedSurvives
PROPERTIES
    QuietOnceClosed
    ImplementsRegister
CHECK_DEADLOCK FALSE
