---------------------------- MODULE SyntheticProbe ----------------------------
(***************************************************************************)
(* The end-to-end probe of the runtime (app/affiliate/synthetic_probe.py,  *)
(* scripts/probe_synthetic_runtime_click.py): a person puts a synthetic    *)
(* target into the plugin, clicks it once, finds the click in the import   *)
(* and retires the target.  Each step is an action of the script, which    *)
(* keeps its state in a file, holds an operating system lock for the whole *)
(* action, and writes *_attempted before it touches the network.  After an *)
(* attempt that may have failed nothing is tried again before a person     *)
(* says what there is to see, or the plugin is asked for the clicks.       *)
(*                                                                         *)
(* A request may take effect long after its process gave up.  The token is *)
(* known to the probe alone; other clicks and the imports go on as         *)
(* ClickImport has them.  Timestamps and hashes of the state file are      *)
(* derived from the state and left out; a file that is damaged, and a      *)
(* runtime that is not configured, only refuse.                            *)
(***************************************************************************)
EXTENDS ClickImport

CONSTANTS
    Own,          \* the synthetic token
    ExportMax,    \* CLICK_EXPORT_MAX_LIMIT
    MaxRequests   \* bound: requests of the probe

ASSUME ProbeAssumption ==
    /\ Own \in Tokens
    /\ ExportMax \in Nat \ {0}
    /\ PageLimits \subseteq 1 .. ExportMax
    /\ MaxRequests \in Nat

VARIABLES
    probe,     \* the state file
    job,       \* the process that holds the lock
    request,   \* Requests -> what became of each request
    runtime,   \* the synthetic row of the plugin
    seen       \* what a person saw since the last attempt

probeVars == <<probe, job, request, runtime, seen>>
vars == <<clickVars, probeVars>>

-----------------------------------------------------------------------------
Requests == 1 .. MaxRequests
NoClick == 0
NoRequest == [kind |-> "none", wire |-> "none", click |-> NoClick]
Free == [pc |-> "idle", n |-> 0]

\* No file is there before --init.
Init ==
    /\ ClickInit
    /\ probe = [state |-> "none", contaminated |-> FALSE, click |-> NoClick, run |-> NoImport]
    /\ job = Free
    /\ request = [n \in Requests |-> NoRequest]
    /\ runtime = "none"
    /\ seen = "nothing"

In(state) == probe.state = state

\* A process that waits for an answer has the lock.
Unlocked == job.pc = "idle"

Moves(state) ==
    /\ probe' = [probe EXCEPT !.state = state]
    /\ UNCHANGED <<clickVars, request, runtime>>

\* One action of the script that touches no network.
Step(from, to) == Unlocked /\ In(from) /\ Moves(to) /\ UNCHANGED <<job, seen>>

-----------------------------------------------------------------------------
(* --init, --active, --go, --disable.                                       *)

Initialise == Step("none", "initialized")
PlanActive == Step("initialized", "active_prepared")
PlanDisable == Step("import_confirmed", "disable_prepared")

Execute(from, to) ==
    /\ Unlocked /\ In(from)
    /\ Moves(to)
    /\ job' = [pc |-> "send", n |-> 0]
    /\ seen' = "nothing"

ExecuteActive == Execute("active_prepared", "active_attempted")
ExecuteGo == Execute("active_confirmed", "click_attempted")
ExecuteDisable == Execute("disable_prepared", "disable_attempted")

Kind ==
    CASE In("active_attempted") -> "active"
      [] In("click_attempted") -> "go"
      [] OTHER -> "disable"

Send(n) ==
    /\ job.pc = "send"
    /\ request[n] = NoRequest
    /\ \A m \in Requests : m < n => request[m] # NoRequest
    /\ request' = [request EXCEPT ![n] = [NoRequest EXCEPT !.kind = Kind, !.wire = "sent"]]
    /\ job' = [pc |-> "await", n |-> n]
    /\ UNCHANGED <<clickVars, probe, runtime, seen>>

Awaiting(kind) == job.pc = "await" /\ request[job.n].kind = kind

Confirm(state) == Moves(state) /\ job' = Free /\ UNCHANGED seen

\* Exactly one entry inserted, none updated, none unchanged.
ConfirmActive ==
    /\ Awaiting("active") /\ request[job.n].wire = "inserted"
    /\ Confirm("active_confirmed")

\* The redirect, which the plugin sends after its attempt to store the click.
ConfirmGo ==
    /\ Awaiting("go") /\ request[job.n].wire = "redirected"
    /\ click[request[job.n].click].status # "begun"
    /\ Confirm("click_confirmed")

\* Exactly one entry updated.
ConfirmDisable ==
    /\ Awaiting("disable") /\ request[job.n].wire = "updated"
    /\ Confirm("disabled_confirmed")

\* No answer, another answer, or death; the lock is free, the file stays.
Abandon ==
    /\ ~Unlocked
    /\ job' = Free
    /\ UNCHANGED <<clickVars, probe, request, runtime, seen>>

-----------------------------------------------------------------------------
(* The plugin, for the synthetic token.                                     *)

Becomes(n, wire) == request' = [request EXCEPT ![n].wire = wire]
Is(n, kind, wire) == request[n].kind = kind /\ request[n].wire = wire

\* bfl_affiliate_decide, on what the row is before the transaction.  That nothing
\* had to be changed is no answer the probe accepts, as little as a refusal.
Decide(n) ==
    /\ \/ /\ Is(n, "active", "sent")
          /\ Becomes(n, IF runtime = "none" THEN "insert" ELSE "refused")
       \/ /\ Is(n, "disable", "sent")
          /\ Becomes(n, CASE runtime = "none" -> "insert"
                          [] runtime = "active" -> "update"
                          [] OTHER -> "refused")
    /\ UNCHANGED <<clickVars, probe, job, runtime, seen>>

\* Mutant: REPLACE INTO, which a row inserted since does not stop.
CommitInsertAnyway(n) ==
    /\ request[n].wire = "insert"
    /\ runtime' = IF request[n].kind = "active" THEN "active" ELSE "disabled"
    /\ Becomes(n, "inserted")
    /\ UNCHANGED <<clickVars, probe, job, seen>>

\* The token is unique: a row that was inserted since stops the batch.
CommitInsert(n) ==
    /\ request[n].wire = "insert"
    /\ IF runtime = "none"
         THEN /\ runtime' = IF request[n].kind = "active" THEN "active" ELSE "disabled"
              /\ Becomes(n, "inserted")
         ELSE /\ Becomes(n, "refused")
              /\ UNCHANGED runtime
    /\ UNCHANGED <<clickVars, probe, job, seen>>

CommitUpdate(n) ==
    /\ request[n].wire = "update"
    /\ runtime' = "disabled"
    /\ Becomes(n, "updated")
    /\ UNCHANGED <<clickVars, probe, job, seen>>

\* bfl_affiliate_maybe_handle_go: the row is read, and then a click begins; what
\* is not active is answered with 404 or 410.
Resolve(n) ==
    /\ Is(n, "go", "sent") /\ runtime = "active"
    /\ Becomes(n, "resolved")
    /\ UNCHANGED <<clickVars, probe, job, runtime, seen>>

Redirect(n, c) ==
    /\ Is(n, "go", "resolved")
    /\ BeginClick(c, Own)
    /\ request' = [request EXCEPT ![n].wire = "redirected", ![n].click = c]
    /\ UNCHANGED <<probe, job, runtime, seen>>

TurnAway(n) ==
    /\ Is(n, "go", "sent") /\ runtime # "active"
    /\ Becomes(n, "refused")
    /\ UNCHANGED <<clickVars, probe, job, runtime, seen>>

\* It never arrives, is refused for its signature or its time, or fails in the
\* database.
Refuse(n) ==
    /\ request[n].wire \in {"sent", "insert", "update", "resolved"}
    /\ Becomes(n, "refused")
    /\ UNCHANGED <<clickVars, probe, job, runtime, seen>>

-----------------------------------------------------------------------------
(* Reconciliation.                                                          *)

\* A person looks at the runtime, and says so later.
Look ==
    /\ Unlocked
    /\ probe.state \in {"active_attempted", "disable_attempted"}
    /\ seen' = runtime
    /\ UNCHANGED <<clickVars, probe, job, request, runtime>>

Reconcile(attempted, observed, confirmed, prepared) ==
    /\ Unlocked /\ In(attempted) /\ seen # "nothing"
    /\ Moves(IF seen = observed THEN confirmed ELSE prepared)
    /\ UNCHANGED <<job, seen>>

ReconcileActive ==
    Reconcile("active_attempted", "active", "active_confirmed", "active_prepared")
ReconcileDisable ==
    Reconcile("disable_attempted", "disabled", "disabled_confirmed", "disable_prepared")

OwnClicks(S) == {c \in S : click[c].token = Own}

\* --reconcile-go: the export from 0, of which there is only one page.
CountClicks ==
    /\ Unlocked /\ In("click_attempted")
    /\ job' = [pc |-> "count", n |-> Cardinality(OwnClicks(Page(0, ExportMax)))]
    /\ UNCHANGED <<clickVars, probe, request, runtime, seen>>

\* Mutant: contamination is a state, which the file does not know.
ReconcileGoByState ==
    /\ job.pc = "count"
    /\ probe' = [probe EXCEPT
          !.state = CASE job.n = 0 -> "active_confirmed"
                      [] job.n = 1 -> "click_confirmed"
                      [] OTHER -> "click_contaminated"]
    /\ job' = Free
    /\ UNCHANGED <<clickVars, request, runtime, seen>>

ReconcileGo ==
    /\ job.pc = "count"
    /\ probe' = [probe EXCEPT
          !.state = CASE job.n = 0 -> "active_confirmed"
                      [] job.n = 1 -> "click_confirmed"
                      [] OTHER -> "click_attempted",
          !.contaminated = @ \/ job.n > 1]
    /\ job' = Free
    /\ UNCHANGED <<clickVars, request, runtime, seen>>

-----------------------------------------------------------------------------
(* --record-import.                                                         *)

\* Mutant: at least one click, and the newest of them.
RecordAnyImport ==
    /\ Unlocked /\ In("click_confirmed")
    /\ OwnClicks(Replicated) # {}
    /\ LET c == Highest(OwnClicks(Replicated)) IN
          /\ ReplicaCursor = import[replica[c]].next
          /\ probe' = [probe EXCEPT !.state = "import_confirmed",
                                    !.click = c, !.run = replica[c]]
    /\ UNCHANGED <<clickVars, job, request, runtime, seen>>

\* Exactly one click of the token, imported by a run that succeeded, had no
\* other unknown token and moved the cursor to where it is.
RecordImport ==
    /\ Unlocked /\ In("click_confirmed")
    /\ \E c \in Clicks :
          /\ OwnClicks(Replicated) = {c}
          /\ At(replica[c], "succeeded")
          /\ OwnClicks(import[replica[c]].page) = {c}
          /\ ReplicaCursor = import[replica[c]].next
          /\ probe' = [probe EXCEPT !.state = "import_confirmed",
                                    !.click = c, !.run = replica[c]]
    /\ UNCHANGED <<clickVars, job, request, runtime, seen>>

-----------------------------------------------------------------------------
Script ==
    \/ Initialise \/ PlanActive \/ PlanDisable
    \/ ExecuteActive \/ ExecuteGo \/ ExecuteDisable
    \/ \E n \in Requests : Send(n)
    \/ ConfirmActive \/ ConfirmGo \/ ConfirmDisable \/ Abandon
    \/ Look \/ ReconcileActive \/ ReconcileDisable
    \/ CountClicks \/ ReconcileGo \/ RecordImport

Plugin ==
    \E n \in Requests :
        \/ Decide(n) \/ CommitInsert(n) \/ CommitUpdate(n)
        \/ Resolve(n) \/ \E c \in Clicks : Redirect(n, c)
        \/ TurnAway(n) \/ Refuse(n)

\* Readers and imports.
Others ==
    /\ \/ \E c \in Clicks :
             \/ \E t \in Tokens \ {Own} : BeginClick(c, t)
             \/ StoreClick(c) \/ LoseClick(c)
       \/ \E i \in Imports : Import(i)
    /\ UNCHANGED probeVars

Next == Script \/ Plugin \/ Others

Spec == Init /\ [][Next]_vars

-----------------------------------------------------------------------------
(* Properties.                                                              *)

ProbeStates ==
    {"initialized", "active_prepared", "active_attempted", "active_confirmed",
     "click_attempted", "click_confirmed", "import_confirmed",
     "disable_prepared", "disable_attempted", "disabled_confirmed"}

\* Every variable has its type.
ProbeTypeOK ==
    /\ ClickTypeOK
    /\ probe \in [state : ProbeStates \cup {"none"}, contaminated : BOOLEAN,
                  click : Clicks \cup {NoClick}, run : Imports \cup {NoImport}]
    /\ job \in [pc : {"idle", "send", "await", "count"}, n : Nat]
    /\ request \in [Requests ->
          [kind : {"none", "active", "go", "disable"},
           wire : {"none", "sent", "insert", "update", "resolved", "inserted", "updated",
                   "redirected", "refused"},
           click : Clicks \cup {NoClick}]]
    /\ runtime \in {"none", "active", "disabled"}
    /\ seen \in {"nothing", "none", "active", "disabled"}

\* What the file says of the plugin is true while it says so, also when requests
\* the probe has given up arrive later, in any order, and more than once.
RecordIsTrue ==
    /\ probe.state \in {"none", "initialized"} => runtime = "none"
    /\ probe.state \in {"active_confirmed", "click_attempted", "click_confirmed",
                        "import_confirmed"} => runtime = "active"
    /\ In("disabled_confirmed") => runtime = "disabled"

\* The evidence of the probe stands from --record-import on: the click is the
\* probe's own and came in with the run on record, and every other click of the
\* probe that this run's cursor has passed was stored too late for it.
EvidenceStands ==
    probe.click # NoClick =>
        /\ click[probe.click] = [status |-> "stored", token |-> Own]
        /\ replica[probe.click] = probe.run
        /\ At(probe.run, "succeeded")
        /\ \A c \in OwnClicks(Stored) \ {probe.click} :
              c <= import[probe.run].next => c \in late
=============================================================================
