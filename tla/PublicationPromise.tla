------------------------- MODULE PublicationPromise -------------------------
(***************************************************************************)
(* What the Threads publication service promises, without rows, containers *)
(* or processes: a proposal appears at most once; what is believed about   *)
(* it changes only to what is true; articles appear Gap apart unless a     *)
(* human said otherwise; a day sees one growth post.  The last two hold up *)
(* to MaxLag, what the clocks of the operations are behind.                *)
(***************************************************************************)
EXTENDS Integers

CONSTANTS Proposals, Growth, Gap, DayLength, MaxTime, MaxLag

VARIABLES
    clock,
    belief,     \* "free" (may be tried), "unsettled" or "posted"
    postedAt,   \* when readers first saw the proposal's post
    humanSaid   \* a human overrode the gap for the coming attempt

vars == <<clock, belief, postedAt, humanSaid>>

NoTime == -1
Articles == Proposals \ Growth
Day(t) == t \div DayLength
AtMidnight(t) == t < Day(t) * DayLength + MaxLag

Init ==
    /\ clock = 0
    /\ belief = [p \in Proposals |-> "free"]
    /\ postedAt = [p \in Proposals |-> NoTime]
    /\ humanSaid = [p \in Proposals |-> FALSE]

\* Before an attempt, the human's word on the gap is taken or withdrawn.
Decide(p) ==
    /\ belief[p] = "free"
    /\ \E b \in BOOLEAN : humanSaid' = [humanSaid EXCEPT ![p] = b]
    /\ UNCHANGED <<clock, belief, postedAt>>

\* An attempt begins when no attempt of its lane is unsettled.
Begin(p) ==
    /\ belief[p] = "free"
    /\ \A q \in Proposals \ {p} :
          (p \in Growth) = (q \in Growth) => belief[q] # "unsettled"
    /\ belief' = [belief EXCEPT ![p] = "unsettled"]
    /\ UNCHANGED <<clock, postedAt, humanSaid>>

\* The post appears: once, late enough, and alone on its day if it is growth.
Appear(p) ==
    /\ belief[p] = "unsettled"
    /\ postedAt[p] = NoTime
    /\ p \in Articles =>
          \/ humanSaid[p]
          \/ \A q \in Articles :
                postedAt[q] # NoTime => clock + MaxLag >= postedAt[q] + Gap
    /\ p \in Growth =>
          \A q \in Growth : postedAt[q] # NoTime =>
              Day(postedAt[q]) # Day(clock) \/ AtMidnight(postedAt[q])
    /\ postedAt' = [postedAt EXCEPT ![p] = clock]
    /\ UNCHANGED <<clock, belief, humanSaid>>

\* The attempt is settled, and settled as it really ended.
Settle(p) ==
    /\ belief[p] = "unsettled"
    /\ belief' = [belief EXCEPT ![p] =
                    IF postedAt[p] = NoTime THEN "free" ELSE "posted"]
    /\ UNCHANGED <<clock, postedAt, humanSaid>>

Tick ==
    /\ clock < MaxTime
    /\ clock' = clock + 1
    /\ UNCHANGED <<belief, postedAt, humanSaid>>

Next ==
    \/ \E p \in Proposals : Decide(p) \/ Begin(p) \/ Appear(p) \/ Settle(p)
    \/ Tick

Spec == Init /\ [][Next]_vars
=============================================================================
