SPECIFICATION FairSpec
CONSTANTS
    q1 = q1  q2 = q2  k1 = k1  k2 = k2
    Requests = {q1, q2}
    Keys = {k1, k2}
    Cap = 1
    MaxCrashes = 1
    Sweeper = Sweeper
    Nobody = Nobody
    NoKey = NoKey
INVARIANTS SavedOnce DocumentKept Accounted CapAlmostHolds
PROPERTY Resolved
CHECK_DEADLOCK FALSE
