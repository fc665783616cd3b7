SPECIFICATION FairSpec
CONSTANTS
    w1 = w1
    w2 = w2
    w3 = w3
    t1 = t1
    t2 = t2
    NoWait = NoWait
    NoDoc = NoDoc
    Wait = {w1}
    Task = {t1}
    TaskOf <- MCTaskOf
    Retention = 1
    MaxFaults = 2
    MaxCrashes = 0
PROPERTIES
    EndedTaskSettles
    EveryMovePublished
CHECK_DEADLOCK FALSE
