SPECIFICATION Spec
CONSTANTS
    q1 = q1  q2 = q2  l1 = l1  l2 = l2  l3 = l3
    Requests = {q1, q2}
    Entries = {1, 2}
    Lines = {l1, l2, l3}
    Amounts <- DebitAndCredit
    Operations <- PostAndMoves
    NoRow = NoRow
    Unwritten = Unwritten
    Nobody = Nobody
SYMMETRY Symmetric
INVARIANT PostedBalanced
CHECK_DEADLOCK FALSE
