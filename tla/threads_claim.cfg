SPECIFICATION Spec
CONSTANTS
    p1 = p1  p2 = p2  g1 = g1  g2 = g2
    c1 = c1  c2 = c2  c3 = c3  w1 = w1  w2 = w2
    Proposals = {p1}
    Growth <- MCNoGrowth
    GrowthDate <- MCNoDates
    Workers = {w1, w2}
    Containers = {c1, c2}
    NoContainer = NoContainer
    NoProposal = NoProposal
    Gap = 1
    DayLength = 1
    MaxTime = 1
    MaxLag = 0
    MaxRetries = 1
    Serialised = FALSE
SYMMETRY Symmetric
INVARIANTS
    ClaimIsExclusive
CHECK_DEADLOCK FALSE
