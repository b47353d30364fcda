SPECIFICATION Spec
CONSTANTS
    a1 = a1
    a2 = a2
    Apps = {a1, a2}
    Requests = {q1, q2}
    Clashes <- OneAddress
    MaxWrites = 2
    MaxFails = 1
    MaxCrashes = 1
    None = None
    Down = Down
    Nobody = Nobody
CONSTRAINT OneWriter
SYMMETRY Symmetry
CHECK_DEADLOCK FALSE
INVARIANTS TypeOK  AsItWas NothingInTheWay LiveFollows
