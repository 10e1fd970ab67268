------------------------ MODULE MCThreadsPublication ------------------------
(* Small instances of ThreadsPublication for TLC.                          *)
EXTENDS ThreadsPublication, TLC

CONSTANTS p1, p2, g1, g2, c1, c2, c3, w1, w2

MCNoGrowth == {}
MCNoDates == [g \in {} |-> 0]
MCGrowthPair == {g1, g2}
MCAll == {p1, p2, g1, g2}
MCTwoDays == [g \in MCGrowthPair |-> IF g = g1 THEN 0 ELSE 1]

\* Two article posts with a gap, three ticks and a retry; or two growth posts
\* of different days, and four; or one of each, and one: never more.
MCScope ==
    LET used == {p \in Proposals : row[p].status # "none"} IN
    \/ used \subseteq {p1, p2} /\ now <= 2
    \/ used \subseteq {g1, g2} /\ \A p \in Proposals : row[p].retries = 0
    \/ /\ used \subseteq {p1, g1} \/ used \subseteq {p1, g2}
       /\ now <= 1
       /\ \A p \in Proposals : row[p].retries = 0

Symmetric == Permutations(Containers)
=============================================================================
