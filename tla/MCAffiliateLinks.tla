--------------------------- MODULE MCAffiliateLinks ---------------------------
(* Small instances of AffiliateLinks for TLC.                              *)
EXTENDS AffiliateLinks, FiniteSets, TLC

MCSymmetry == Permutations(Targets) \cup Permutations(Pushes)

\* Bound: one target is retired, and the programme pauses only while an update
\* is under way.
MCScope ==
    /\ Cardinality({t \in Targets : target[t] \in Retired}) <= 1
    /\ usable \/ \E u \in Updates : update[u].pc # "idle"
=============================================================================
