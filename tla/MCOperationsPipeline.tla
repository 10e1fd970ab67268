------------------------- MODULE MCOperationsPipeline -------------------------
(* Small instances of OperationsPipeline for TLC.                           *)
EXTENDS OperationsPipeline

CONSTANTS import, candidates, monitoring, automation, site, worker

MCStepList == <<import, candidates, monitoring>>
MCNeeds ==
    [s \in {import, candidates, monitoring} |-> IF s = candidates THEN {import} ELSE {}]

\* One alert at a time, for alerts do not touch each other (but for the alert
\* about the runs, which may come with another); a step that waits for another
\* one succeeds or is skipped; runs of one profile, for it matters only at the
\* end of a run; and nobody handles alerts while two runs work side by side.
MCScope ==
    /\ LET existing == {a \in Alerts : alerts[a] # NoAlert} IN
       Cardinality(existing) <= 1 \/ existing = {automation, site}
    /\ \A i \in RunIds :
         /\ runs[i].rows[candidates] \in {"none", "succeeded", "skipped"}
         /\ runs[i].profile = runs[1].profile
         /\ proc[i].met # {} =>
              /\ runs[i].profile = "weekly"
              /\ alerts[automation] = NoAlert
              /\ \A a \in Alerts : alerts[a].status \in {"none", "open"}
===============================================================================
