SPECIFICATION Spec
CONSTANTS
    q1 = q1  q2 = q2  c1 = c1  c2 = c2  n1 = n1  n2 = n2
    Requests = {q1, q2}
    Parents = {1, 2}
    Children = {c1, c2}
    Notes = {n1, n2}
    FirstNote = n1
    Amounts = {1, 2}
    Schedule <- OneRow
    Operations <- Everything
    HasEvents = TRUE
    NoNote = NoNote
    ByHand = ByHand
    Unborn = Unborn
    NumberLock = NumberLock
    NoRow = NoRow
    Unwritten = Unwritten
    Nobody = Nobody
SYMMETRY Symmetric
CONSTRAINTS Apart OneChanges NumbersMatter
INVARIANTS TypeOK   ScheduledOnce NoOrphans NoWaitCycle
CHECK_DEADLOCK FALSE
