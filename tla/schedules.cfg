SPECIFICATION FairSpec
CONSTANTS
    Recs = {r1}
    Titles = {a, b}
    Users = {u1}
    Rules <- InOrder
    MarkerFields = {"title", "due"}
    MaxDay = 2
    MaxEdits = 2
    MaxFails = 1
    MaxCrashes = 1
    NoRow = NoRow
    NoRec = NoRec
CHECK_DEADLOCK FALSE
INVARIANT OncePerText
PROPERTIES Marked Flagged
