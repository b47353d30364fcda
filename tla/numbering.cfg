SPECIFICATION Spec
CONSTANTS
    q1 = q1  q2 = q2  r1 = r1  r2 = r2  r3 = r3  r4 = r4  pp = pp  po = po
    Requests = {q1, q2}
    Records = {r1, r2, r3, r4}
    Prefixes = {pp, po}
    MaxNumber = 4
    LocksAField = TRUE
    NoRow = NoRow
    Unwritten = Unwritten
    Nobody = Nobody
SYMMETRY Symmetric
INVARIANTS NumbersUnique IssuedOnce NoHoles
CHECK_DEADLOCK FALSE
