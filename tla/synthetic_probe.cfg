SPECIFICATION Spec
CONSTANTS
    i1 = i1
    i2 = i2
    Imports = {i1, i2}
    own = own
    other = other
    Own = own
    Tokens = {own, other}
    NoToken = NoToken
    NoImport = NoImport
    MaxClicks = 2
    PageLimits = {1, 2}
    ExportMax = 2
    MaxRequests = 4
CONSTRAINT MCScope
SYMMETRY MCSymmetry
INVARIANTS
    ProbeTypeOK
    NothingSkipped
    CursorsAgree
    RecordIsTrue
    EvidenceStands
CHECK_DEADLOCK FALSE
