SPECIFICATION Spec
CONSTANTS
    q1 = q1  q2 = q2  u1 = u1  u2 = u2  a1 = a1
    Requests = {q1, q2}
    Users = {u1}
    Apps = {a1}
    Files = {1, 2}
    Texts = {0, 1}
    FirstText = 0
    Unloadable <- Mismatched
    MaxCrashes = 1
    Unset = Unset
    NoBase = NoBase
    Unavailable = Unavailable
    Nobody = Nobody
SYMMETRY Symmetric
INVARIANT DraftStands
CHECK_DEADLOCK FALSE
