SPECIFICATION Spec
CONSTANTS
    q1 = q1  q2 = q2
    Requests = {q1, q2}
    Modes = {"sequential", "parallel"}
    MaxApprovers = 2
    MaxSteps = 3
    MaxCuts = 1
SYMMETRY Symmetric
CONSTRAINT Undisturbed
INVARIANTS TypeOK ApprovedByAll RejectedByOne SignedAsApproved
PROPERTIES InTurn DecisionsFinal
CHECK_DEADLOCK FALSE
