SPECIFICATION MobileSpec
CONSTANTS
    s1 = s1
    s2 = s2
    Sessions = {s1, s2}
    u1 = u1
    u2 = u2
    Subjects = {u1, u2}
    p1 = p1
    Processes = {p1}
    Batch = 1
    MaxEdits = 1
    MaxCrashes = 1
    NoSession = NoSession
    NoSubject = NoSubject
    NoDecision = NoDecision
    Desk = Desk
SYMMETRY MobileSymmetry
INVARIANTS
    MobileTypeOK
    PhoneDecidesOnce
    SettledIsRecorded
PROPERTIES
    ClosedRecordsNothing
CHECK_DEADLOCK FALSE
