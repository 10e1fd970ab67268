SPECIFICATION ChangeSpec
CONSTANTS
    a = a
    b = b
    Contents = {a, b}
    First = a
    o1 = o1
    Operators = {o1}
    r1 = r1
    r2 = r2
    Keys = {r1, r2}
    NoKey = NoKey
    NoRaw = NoRaw
    OneAtATime = TRUE
    MaxRuns = 2
    MaxEdits = 0
    MaxApps = 3
    MaxPatches = 0
SYMMETRY ChangeSymmetry
INVARIANT PublishesOnlyApproved
CHECK_DEADLOCK FALSE
