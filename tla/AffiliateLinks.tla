---------------------------- MODULE AffiliateLinks ----------------------------
(***************************************************************************)
(* Affiliate links from the database to the reader.  People create,        *)
(* disable and replace link targets (affiliate_link_target_service.py) and *)
(* map the external links of an article to them (article_link_             *)
(* substitution_service.py).  A push sends the state of all targets to the *)
(* runtime plugin, which redirects /go/{token} (affiliate_target_          *)
(* projection_push_service.py, bizfluxlab-affiliate-runtime.php).  An      *)
(* artifact substitutes the links whose target the newest push proves to   *)
(* be there, and a fresh gate looks again before the article is updated.   *)
(*                                                                         *)
(* Pushes overlap: each reads the targets, stores its run and posts once,  *)
(* in three steps; its request may be planned, committed, refused or lost  *)
(* at any time after that, and the plugin plans before its transaction.    *)
(*                                                                         *)
(* One article and one programme.  A target is its token, and its URL, its *)
(* hashes and its times never change: what a projection entry says is      *)
(* whether the target is active (version 1) or not (version 2).  Hosts     *)
(* that are not approved or not ASCII and the drift of the body are left   *)
(* out: each only refuses.  Runs of the content update that are unresolved *)
(* are the matter of ContentUpdate; here one is open until it is settled.  *)
(***************************************************************************)
EXTENDS Integers, Sequences

CONSTANTS
    Targets,      \* affiliate_link_targets, those to come included
    Occurrences,  \* external links in the body of the article
    Pushes,       \* affiliate_target_projection_push_runs
    Updates,      \* content updates of the post
    NoTarget,     \* the link the body has
    MaxMappings   \* bound: rows of article_link_substitution_mappings

ASSUME AffiliateAssumption ==
    /\ NoTarget \notin Targets
    /\ MaxMappings \in Nat

VARIABLES
    usable,    \* the programme is active
    target,    \* Targets -> status
    mappings,  \* article_link_substitution_mappings, oldest first
    runs,      \* the push runs in the order of created_at and id
    push,      \* Pushes -> the push run, its process and its request
    runtime,   \* Targets -> status in the plugin's table
    update,    \* Updates -> how far it is, and the artifact
    live       \* Occurrences -> target the public post links to

vars == <<usable, target, mappings, runs, push, runtime, update, live>>

-----------------------------------------------------------------------------
NoRow == 0
NoEntries == [t \in Targets |-> "none"]
Retired == {"disabled", "superseded"}

NoPush == [pc |-> "idle", status |-> "none", entries |-> NoEntries,
           wire |-> "none", seen |-> NoEntries]

Init ==
    /\ usable = TRUE
    /\ target = [t \in Targets |-> "none"]
    /\ mappings = << >>
    /\ runs = << >>
    /\ push = [p \in Pushes |-> NoPush]
    /\ runtime = NoEntries
    /\ update = [u \in Updates |->
                   [pc |-> "idle", links |-> [o \in Occurrences |-> NoRow]]]
    /\ live = [o \in Occurrences |-> NoTarget]

-----------------------------------------------------------------------------
(* People: targets, mappings and the programme.                             *)

\* At most one active target, by the check and by a partial unique index.
CreateTarget(t) ==
    /\ usable
    /\ target[t] = "none"
    /\ \A o \in Targets : target[o] # "active"
    /\ target' = [target EXCEPT ![t] = "active"]
    /\ UNCHANGED <<usable, mappings, runs, push, runtime, update, live>>

DisableTarget(t) ==
    /\ target[t] = "active"
    /\ target' = [target EXCEPT ![t] = "disabled"]
    /\ UNCHANGED <<usable, mappings, runs, push, runtime, update, live>>

\* The programme has a new URL: a new target takes the place of the old one.
SupersedeTarget(old, new) ==
    /\ usable
    /\ target[old] = "active" /\ target[new] = "none"
    /\ target' = [target EXCEPT ![old] = "superseded", ![new] = "active"]
    /\ UNCHANGED <<usable, mappings, runs, push, runtime, update, live>>

SetProgram(b) ==
    /\ usable # b
    /\ usable' = b
    /\ UNCHANGED <<target, mappings, runs, push, runtime, update, live>>

Rows == DOMAIN mappings
ActiveRows(o) == {m \in Rows : mappings[m].occurrence = o /\ mappings[m].status = "active"}
NewRow(o, t) == [occurrence |-> o, target |-> t, status |-> "active"]

\* The target of a mapping need not be active.
CreateMapping(o, t) ==
    /\ Len(mappings) < MaxMappings
    /\ target[t] # "none"
    /\ ActiveRows(o) = {}
    /\ mappings' = Append(mappings, NewRow(o, t))
    /\ UNCHANGED <<usable, target, runs, push, runtime, update, live>>

RemapOccurrence(m, t) ==
    /\ Len(mappings) < MaxMappings
    /\ mappings[m].status = "active"
    /\ target[t] # "none"
    /\ mappings' = Append([mappings EXCEPT ![m].status = "superseded"],
                          NewRow(mappings[m].occurrence, t))
    /\ UNCHANGED <<usable, target, runs, push, runtime, update, live>>

RevokeMapping(m) ==
    /\ mappings[m].status = "active"
    /\ mappings' = [mappings EXCEPT ![m].status = "revoked"]
    /\ UNCHANGED <<usable, target, runs, push, runtime, update, live>>

-----------------------------------------------------------------------------
(* The push: Transaction A, one POST, Transaction B.                        *)

At(p, pc) == push[p].pc = pc

\* runtime_status_and_version.
Projected(status) == IF status \in Retired THEN "disabled" ELSE status

\* list_all_ordered_by_token: the only look at the targets.
ReadTargets(p) ==
    /\ At(p, "idle")
    /\ push' = [push EXCEPT ![p].pc = "read",
                            ![p].entries = [t \in Targets |-> Projected(target[t])]]
    /\ UNCHANGED <<usable, target, mappings, runs, runtime, update, live>>

\* add_running, with the manifest of what was read, and the commit.
StoreRun(p) ==
    /\ At(p, "read")
    /\ runs' = Append(runs, p)
    /\ push' = [push EXCEPT ![p].pc = "post", ![p].status = "running"]
    /\ UNCHANGED <<usable, target, mappings, runtime, update, live>>

Post(p) ==
    /\ At(p, "post")
    /\ push' = [push EXCEPT ![p].pc = "await", ![p].wire = "sent"]
    /\ UNCHANGED <<usable, target, mappings, runs, runtime, update, live>>

EndPush(p, status) ==
    /\ push' = [push EXCEPT ![p].pc = "done", ![p].status = status]
    /\ UNCHANGED <<usable, target, mappings, runs, runtime, update, live>>

\* The answer says 200 and repeats the hash and the number of entries.
Succeed(p) ==
    /\ At(p, "await") /\ push[p].wire = "applied"
    /\ EndPush(p, "succeeded")

\* The answer is one of DEFINITIVE_FAILED_SERVER_CODES.
Fail(p) ==
    /\ At(p, "await") /\ push[p].wire = "refused"
    /\ EndPush(p, "failed")

\* No answer, or one that proves nothing.
OutcomeUnknown(p) ==
    /\ At(p, "await")
    /\ EndPush(p, "outcome_unknown")

\* The process dies: a run that was stored stays running.
PushDies(p) ==
    /\ push[p].pc \in {"read", "post", "await"}
    /\ push' = [push EXCEPT ![p].pc = "dead"]
    /\ UNCHANGED <<usable, target, mappings, runs, runtime, update, live>>

-----------------------------------------------------------------------------
(* The plugin: bfl_affiliate_projection_endpoint.                           *)

SetWire(p, wire) == push' = [push EXCEPT ![p].wire = wire]
Sent(p) == push[p].entries
Seen(p) == push[p].seen

\* bfl_affiliate_decide: an active entry for a disabled row is refused.
Refusable(p) == \E t \in Targets : Sent(p)[t] = "active" /\ runtime[t] = "disabled"

\* The table is read and the whole batch is planned, before the transaction.
PlanBatch(p) ==
    /\ push[p].wire = "sent" /\ ~Refusable(p)
    /\ push' = [push EXCEPT ![p].wire = "planned", ![p].seen = runtime]
    /\ UNCHANGED <<usable, target, mappings, runs, runtime, update, live>>

\* Refused for one entry, for its signature or its time, or by the database.
RefuseBatch(p) ==
    /\ push[p].wire \in {"sent", "planned"}
    /\ SetWire(p, "refused")
    /\ UNCHANGED <<usable, target, mappings, runs, runtime, update, live>>

Inserted(p) == {t \in Targets : Sent(p)[t] # "none" /\ Seen(p)[t] = "none"}
Updated(p) == {t \in Targets : Sent(p)[t] = "disabled" /\ Seen(p)[t] = "active"}

\* Mutant: REPLACE INTO, which a row inserted since the plan does not stop.
CommitByReplace(p) ==
    /\ push[p].wire = "planned"
    /\ runtime' = [t \in Targets |->
          IF t \in Inserted(p) THEN Sent(p)[t]
          ELSE IF t \in Updated(p) THEN "disabled" ELSE runtime[t]]
    /\ SetWire(p, "applied")
    /\ UNCHANGED <<usable, target, mappings, runs, update, live>>

\* One transaction; the unique token stops a row that was inserted since the
\* plan, with everything else in the batch.
CommitBatch(p) ==
    /\ push[p].wire = "planned"
    /\ \A t \in Inserted(p) : runtime[t] = "none"
    /\ runtime' = [t \in Targets |->
          IF t \in Inserted(p) THEN Sent(p)[t]
          ELSE IF t \in Updated(p) THEN "disabled" ELSE runtime[t]]
    /\ SetWire(p, "applied")
    /\ UNCHANGED <<usable, target, mappings, runs, update, live>>

\* The request never arrives, or its process dies before the commit.
LoseRequest(p) ==
    /\ push[p].wire \in {"sent", "planned"}
    /\ SetWire(p, "lost")
    /\ UNCHANGED <<usable, target, mappings, runs, runtime, update, live>>

-----------------------------------------------------------------------------
(* The article: preparation, approval, gate and update.                     *)

\* Mutant: the newest run counts although nobody knows its outcome.
AcknowledgedUnproved(t) ==
    \E i \in DOMAIN runs :
        /\ push[runs[i]].status \in {"succeeded", "running"}
        /\ push[runs[i]].entries[t] = "active"
        /\ \A j \in DOMAIN runs : j > i => push[runs[j]].status = "failed"

\* resolve_latest_acknowledgement and is_target_eligible: the newest run that
\* did not fail succeeded, and sent the target as active.
Acknowledged(t) ==
    \E i \in DOMAIN runs :
        /\ push[runs[i]].status = "succeeded"
        /\ push[runs[i]].entries[t] = "active"
        /\ \A j \in DOMAIN runs : j > i => push[runs[j]].status = "failed"

\* Mutant: the status of the target is left to the manifest.
EligibleByManifest(t) == Acknowledged(t)

\* resolve_eligibility of an occurrence mapped to t.
Eligible(t) == target[t] = "active" /\ Acknowledged(t)

Stage(u, pc) == update[u].pc = pc
Advance(u, pc) ==
    /\ update' = [update EXCEPT ![u].pc = pc]
    /\ UNCHANGED <<usable, target, mappings, runs, push, runtime, live>>

EligibleRows(o) == {m \in ActiveRows(o) : Eligible(mappings[m].target)}

\* prepare() and create_artifact(): links that are not eligible stay as they
\* are.  An occurrence has one active row at most.
Prepare(u) ==
    /\ Stage(u, "idle")
    /\ update' = [update EXCEPT ![u] =
          [pc |-> "artifact",
           links |-> [o \in Occurrences |->
              IF EligibleRows(o) = {} THEN NoRow ELSE CHOOSE m \in EligibleRows(o) : TRUE]]]
    /\ UNCHANGED <<usable, target, mappings, runs, push, runtime, live>>

\* The approval says which artifact; the state of its links may be any.
Approve(u) == Stage(u, "artifact") /\ Advance(u, "approved")

Open == {u \in Updates : update[u].pc \in {"running", "landed"}}

\* classify(): no run of the post is open.
Classify(u) == Stage(u, "approved") /\ Open = {} /\ Advance(u, "classified")

LinkedRows(u) == {update[u].links[o] : o \in Occurrences} \ {NoRow}

\* evaluate_affiliate_publication_readiness, for an artifact with links.
Ready(u) ==
    \A m \in LinkedRows(u) :
        /\ mappings[m].status = "active"
        /\ usable
        /\ Eligible(mappings[m].target)

\* The gate, and the run row of Transaction A.
Execute(u) == Stage(u, "classified") /\ Ready(u) /\ Advance(u, "running")

\* The POST takes effect.
Land(u) ==
    /\ Stage(u, "running")
    /\ update' = [update EXCEPT ![u].pc = "landed"]
    /\ live' = [o \in Occurrences |->
          IF update[u].links[o] = NoRow THEN NoTarget
          ELSE mappings[update[u].links[o]].target]
    /\ UNCHANGED <<usable, target, mappings, runs, push, runtime>>

\* Its outcome is recorded: it landed, or never will.
Settle(u) == update[u].pc \in {"running", "landed"} /\ Advance(u, "settled")

-----------------------------------------------------------------------------
People ==
    \/ \E t \in Targets : CreateTarget(t) \/ DisableTarget(t)
    \/ \E old, new \in Targets : SupersedeTarget(old, new)
    \/ \E b \in BOOLEAN : SetProgram(b)
    \/ \E t \in Targets :
          \/ \E o \in Occurrences : CreateMapping(o, t)
          \/ \E m \in Rows : RemapOccurrence(m, t)
    \/ \E m \in Rows : RevokeMapping(m)

Service(p) ==
    \/ ReadTargets(p) \/ StoreRun(p) \/ Post(p)
    \/ Succeed(p) \/ Fail(p) \/ OutcomeUnknown(p) \/ PushDies(p)

Plugin(p) == PlanBatch(p) \/ RefuseBatch(p) \/ CommitBatch(p) \/ LoseRequest(p)

Article(u) ==
    \/ Prepare(u) \/ Approve(u) \/ Classify(u) \/ Execute(u) \/ Land(u) \/ Settle(u)

Next ==
    \/ People
    \/ \E p \in Pushes : Service(p) \/ Plugin(p)
    \/ \E u \in Updates : Article(u)

Spec == Init /\ [][Next]_vars

-----------------------------------------------------------------------------
(* Properties.                                                              *)

Projection == {"none", "active", "disabled"}

MappingType ==
    [occurrence : Occurrences, target : Targets,
     status : {"active", "superseded", "revoked"}]
PushType ==
    [pc : {"idle", "read", "post", "await", "done", "dead"},
     status : {"none", "running", "succeeded", "failed", "outcome_unknown"},
     entries : [Targets -> Projection],
     wire : {"none", "sent", "planned", "applied", "refused", "lost"},
     seen : [Targets -> Projection]]
UpdateType ==
    [pc : {"idle", "artifact", "approved", "classified", "running", "landed", "settled"},
     links : [Occurrences -> Nat]]

\* Every variable has its type.
AffiliateTypeOK ==
    /\ usable \in BOOLEAN
    /\ target \in [Targets -> {"none", "active"} \cup Retired]
    /\ mappings \in Seq(MappingType)
    /\ runs \in Seq(Pushes)
    /\ push \in [Pushes -> PushType]
    /\ runtime \in [Targets -> Projection]
    /\ update \in [Updates -> UpdateType]
    /\ live \in [Occurrences -> Targets \cup {NoTarget}]

\* A target that is eligible now redirects now: whatever pushes overlap, are
\* lost, late, refused or overtaken, what the database concludes from the
\* manifest of the newest run is what the plugin does.
EligibleIsServed == \A t \in Targets : Eligible(t) => runtime[t] = "active"

\* A link in the public post is never unknown to the plugin (404), however
\* late its update lands; it is gone (410) only if a person retired the target.
LiveLinkIsServed ==
    \A o \in Occurrences : live[o] # NoTarget =>
        \/ runtime[live[o]] = "active"
        \/ runtime[live[o]] = "disabled" /\ target[live[o]] \in Retired

\* A retired link never redirects again, although each request is planned on
\* what the table was before its transaction.
RetiredStaysRetired ==
    [][\A t \in Targets : runtime[t] = "disabled" => runtime'[t] = "disabled"]_vars
=============================================================================
