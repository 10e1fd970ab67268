SPECIFICATION FairWorkerSpec
CONSTANTS
  Clients = {c1, c2}
  Tokens = {t1, t2, t3}
  NoToken = NoToken
  Stale = 1
  MaxTime = 4
  Lanes = {article}
INVARIANTS
    ExclusiveUnlessStale
    StrayPostsBounded
PROPERTIES
    DeadOwnerIsReplaced
