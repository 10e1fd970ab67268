SPECIFICATION ChangeSpec
CONSTANTS
    a = a
    b = b
    c = c
    Contents = {a, b, c}
    First = a
    o1 = o1
    o2 = o2
    Operators = {o1, o2}
    r1 = r1
    r2 = r2
    Keys = {r1, r2}
    NoKey = NoKey
    NoRaw = NoRaw
    OneAtATime = TRUE
    MaxRuns = 2
    MaxEdits = 1
    MaxApps = 3
    MaxPatches = 1
CONSTRAINT ChangeScope
SYMMETRY ChangeSymmetry
INVARIANTS
    PublishedContentWasApproved
    AppliedMeansLanded
    PostedAtMostOnce
    BaselineTracksLive
    SuccessIsOurs
    ReconciledLanded
PROPERTIES
    OverwritesItsBaseline
CHECK_DEADLOCK FALSE
