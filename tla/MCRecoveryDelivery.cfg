SPECIFICATION Spec
CONSTANTS
    c1 = c1
    c2 = c2
    c3 = c3
    d1 = d1
    NoOp = NoOp
    Automatic = Automatic
    Op = {c1, c2}
    Directive = {d1}
    MaxChanges = 1
    MaxFaults = 1
INVARIANTS
    TypeOK
    OncePerEpoch
    DirectiveSentOnce
SYMMETRY OpSymmetry
CHECK_DEADLOCK FALSE
