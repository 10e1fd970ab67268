SPECIFICATION ArticleSpec
CONSTANTS
    s1 = s1
    s2 = s2
    Sessions = {s1, s2}
    first = first
    second = second
    Bodies = {first, second}
    named = named
    retitled = retitled
    moved = moved
    SlugOf <- MCSlugOf
    None = None
    MaxGens = 2
    MaxDrafts = 2
    MaxPubs = 2
    MaxPosts = 2
    MaxPatches = 1
    MaxEdits = 1
SYMMETRY MCSymmetry
CONSTRAINT MCScope
INVARIANTS
    ArticleTypeOK
    OnePost
    LiveIsRecorded
    PublishedIsLive
CHECK_DEADLOCK FALSE
