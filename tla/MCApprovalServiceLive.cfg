SPECIFICATION FairSpec
CONSTANTS
    Id = {a1, a2}
    NoId = NoId
    TerminalMaxCount = 1
    MaxFaults = 1
    MaxCrashes = 0
PROPERTIES
    EveryWaiterAnswered
