SPECIFICATION Spec
CONSTANTS
    o1 = o1
    u1 = u1
    t1 = t1
    t2 = t2
    p1 = p1
    p2 = p2
    Targets = {t1, t2}
    Occurrences = {o1}
    Pushes = {p1, p2}
    Updates = {u1}
    NoTarget = NoTarget
    MaxMappings = 2
CONSTRAINT MCScope
SYMMETRY MCSymmetry
INVARIANTS
    EligibleIsServed
    LiveLinkIsServed
PROPERTIES
    RetiredStaysRetired
CHECK_DEADLOCK FALSE
