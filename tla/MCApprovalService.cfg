SPECIFICATION Spec
CONSTANTS
    Id = {a1, a2}
    NoId = NoId
    TerminalMaxCount = 1
    MaxFaults = 2
    MaxCrashes = 1
SYMMETRY Symmetry
INVARIANTS
    TypeOK
    GrantIsDurable
    DecisionEventMatchesCaller
    NoEventLost
    EventsInOrder
PROPERTIES
    NoDecisionOnceClosed
    ImplementsOutcome
