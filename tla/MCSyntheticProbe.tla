--------------------------- MODULE MCSyntheticProbe ---------------------------
(* Small instances of SyntheticProbe for TLC.                              *)
EXTENDS SyntheticProbe, TLC

MCSymmetry == Permutations(Imports)

NotYet(n) == request[n].wire \in {"sent", "insert", "update", "resolved"}
Waited(n) == job = [pc |-> "await", n |-> n]
Imported == \E i \in Imports : ~At(i, "idle")

\* Bound: imports begin once a request to click was answered or refused, and
\* not while the script waits for one that has not begun its click.
\* One request at most is given up before it had its effect, one click at most
\* is another reader's, and imports that overlap do not fail as well.
MCScope ==
    /\ Imported =>
          /\ \E n \in Requests : Is(n, "go", "redirected") \/ Is(n, "go", "refused")
          /\ \A n \in Requests : request[n].kind = "go" /\ NotYet(n) => ~Waited(n)
    /\ Cardinality({n \in Requests : NotYet(n) /\ ~Waited(n)}) <= 1
    /\ Cardinality({c \in Clicks : click[c].token \notin {Own, NoToken}}) <= 1
    /\ overlapped => \A i \in Imports : ~At(i, "failed")
=============================================================================
