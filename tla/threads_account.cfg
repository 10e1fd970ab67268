SPECIFICATION Spec
CONSTANTS
    a1 = a1   g1 = g1  m1 = m1
    Proposals = {a1, g1}
    Growth <- MCGrowth
    GrowthDate <- MCDates
    Manual = {m1}
    Other = Other
    NoText = NoText
    NoProposal = NoProposal
    Timings <- MCTimings
    Gap = 1
    Cooldown = 1
    DayLength = 2
    MaxTime = 1
INVARIANTS
    OursIsKnown
PROPERTIES
    DuplicatesAreExplained
    ManualKeepsDistance
CONSTRAINT MCScope
CHECK_DEADLOCK FALSE
