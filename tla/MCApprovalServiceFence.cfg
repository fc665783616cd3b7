SPECIFICATION Spec
CONSTANTS
    Id = {a1}
    NoId = NoId
    TerminalMaxCount = 1
    MaxFaults = 1
    MaxCrashes = 0
INVARIANTS
    NoFencedDecisionPublished
