SPECIFICATION Spec
CONSTANTS
    p1 = p1  p2 = p2  g1 = g1  g2 = g2
    c1 = c1  c2 = c2  c3 = c3  w1 = w1  w2 = w2
    Proposals <- MCAll
    Growth <- MCGrowthPair
    GrowthDate <- MCTwoDays
    Workers = {w1}
    Containers = {c1, c2}
    NoContainer = NoContainer
    NoProposal = NoProposal
    Gap = 2
    DayLength = 2
    MaxTime = 3
    MaxLag = 1
    MaxRetries = 1
    Serialised = TRUE
CONSTRAINT MCScope
SYMMETRY Symmetric
INVARIANTS
    AtMostOnePost
    PublishedMeansPosted
    RetryableMeansNothingOut
    GapRespected
    OneGrowthPostPerDay
PROPERTIES
    KeepsPromise
CHECK_DEADLOCK FALSE
