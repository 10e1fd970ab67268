SPECIFICATION FairSpec
CONSTANTS
    p1 = p1  p2 = p2  g1 = g1  g2 = g2
    c1 = c1  c2 = c2  c3 = c3  w1 = w1  w2 = w2
    Proposals = {p1}
    Growth <- MCNoGrowth
    GrowthDate <- MCNoDates
    Workers = {w1, w2}
    Containers = {c1}
    NoContainer = NoContainer
    NoProposal = NoProposal
    Gap = 0
    DayLength = 1
    MaxTime = 0
    MaxLag = 0
    MaxRetries = 1
    Serialised = FALSE
PROPERTIES
    InFlightSettles
CHECK_DEADLOCK FALSE
