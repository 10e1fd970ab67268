--------------------------- MODULE MCThreadsAccount ---------------------------
(* Small instances of ThreadsAccount for TLC.                              *)
EXTENDS ThreadsAccount, TLC

CONSTANTS a1, g1, m1

MCGrowth == {g1}
MCDates == [g \in MCGrowth |-> 0]
MCTimings == {<<1, NoTime>>, <<NoTime, 1>>, <<NoTime, NoTime>>}

\* Bound: of the controls of the queue, withdrawals and retirements, one is in
\* force at a time.
InForce ==
    Cardinality({p \in Proposals : proposal[p].held})
    + Cardinality({p \in Proposals : proposal[p].preferred})
    + Cardinality({p \in Proposals : proposal[p].from # NoTime})
    + Cardinality({p \in Proposals : proposal[p].until # NoTime})
    + Cardinality({p \in Proposals : proposal[p].status = "closed"})
MCScope == InForce <= 1
=============================================================================
