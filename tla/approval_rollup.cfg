SPECIFICATION Spec
CONSTANTS
    q1 = q1  q2 = q2
    Requests = {q1, q2}
    Modes = {"sequential", "parallel"}
    MaxApprovers = 2
    MaxSteps = 3
    MaxCuts = 0
SYMMETRY Symmetric
CONSTRAINT Unhurried
INVARIANT StatusFollows
CHECK_DEADLOCK FALSE
