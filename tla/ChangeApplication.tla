--------------------------- MODULE ChangeApplication ---------------------------
(***************************************************************************)
(* A change request on its way to WordPress: ChangeRequestService          *)
(* (propose, approve, reject, reopen_for_retry) and ChangeApplication-     *)
(* Service (apply), which revises the article's body, prepares and         *)
(* approves a publication artifact and runs the managed content update of  *)
(* ContentUpdate, whose idempotency key is the request.  Every session of  *)
(* _execute is a step of its own; the process may die between any two.     *)
(*                                                                         *)
(* All requests concern the one article of ContentUpdate.  A request's     *)
(* body hashes are its contents and its proposal hash is the pair of them. *)
(* The gates about the kind of text (one link added, prose unchanged) are  *)
(* left out, so more proposals pass than in the code; meta descriptions,   *)
(* which another service applies, revisions made by hand and updates       *)
(* executed by hand are left out too.                                      *)
(***************************************************************************)
EXTENDS ContentUpdate

CONSTANTS
    MaxApps,       \* bound: rows of change_applications
    MaxPatches     \* bound: PATCHes of the article's body

ASSUME ChangeAssumption == MaxApps \in Nat /\ MaxPatches \in Nat

VARIABLES
    request,     \* change_requests, with the fact that one was ever approved
    revisions,   \* article_editorial_revisions: contents and idempotency keys
    apps,        \* change_applications, oldest first
    apply,       \* per operator: the local state of its apply()
    patches      \* PATCHes so far

ledger == <<request, revisions, apps>>
changeVars == <<contentVars, ledger, apply, patches>>

-----------------------------------------------------------------------------
Requests == Keys

Statuses == {"none", "awaiting_approval", "approved", "rejected", "applied",
             "apply_failed", "reconciled"}
Outcomes == {"planned", "succeeded", "failed", "outcome_unknown", "reconciled"}
ApplySteps == {"idle", "frozen", "appended", "revised", "persisted", "executable",
               "executing", "unknown", "done"}

Request == [status : Statuses, source : Contents, proposed : Contents, approved : BOOLEAN]
Revision == [content : Contents, key : Requests]
Application == [request : Requests, outcome : Outcomes, run : Nat]
Apply == [step : ApplySteps, request : Requests \cup {NoKey}, source : Contents,
          artifact : Contents, app : Nat, run : Nat, outcome : Outcomes]

NoRequest == [status |-> "none", source |-> First, proposed |-> First, approved |-> FALSE]
NoApply == [step |-> "idle", request |-> NoKey, source |-> First, artifact |-> First,
            app |-> 0, run |-> 0, outcome |-> "failed"]

AppIds == 1 .. Len(apps)
AppsOf(r) == {i \in AppIds : apps[i].request = r}

Mine(e) == request[apply[e].request]

ChangeInit ==
    /\ ContentInit
    /\ request = [r \in Requests |-> NoRequest]
    /\ revisions = {}
    /\ apps = << >>
    /\ apply = [e \in Operators |-> NoApply]
    /\ patches = 0

-----------------------------------------------------------------------------
(* The request: what people do.                                            *)

SetStatus(r, status) == request' = [request EXCEPT ![r].status = status]

\* propose_*: bound to the body of this moment.  Of two equal proposals there
\* is only one.
Propose(r, c) ==
    /\ request[r].status = "none"
    /\ c # body
    /\ \A q \in Requests :
         request[q].status # "none" => <<request[q].source, request[q].proposed>> # <<body, c>>
    /\ request' = [request EXCEPT ![r] = [status |-> "awaiting_approval", source |-> body,
                                          proposed |-> c, approved |-> FALSE]]
    /\ UNCHANGED <<contentVars, revisions, apps, apply, patches>>

Approve(r) ==
    /\ request[r].status = "awaiting_approval"
    /\ request' = [request EXCEPT ![r].status = "approved", ![r].approved = TRUE]
    /\ UNCHANGED <<contentVars, revisions, apps, apply, patches>>

Reject(r) ==
    /\ request[r].status \in {"awaiting_approval", "approved", "apply_failed"}
    /\ SetStatus(r, "rejected")
    /\ UNCHANGED <<contentVars, revisions, apps, apply, patches>>

\* reopen_for_retry: the last application has no run, and the body is still
\* the one that was proposed against.
Reopen(r) ==
    /\ request[r].status = "apply_failed"
    /\ AppsOf(r) # {} => apps[Newest(AppsOf(r))].run = 0
    /\ request[r].source = body
    /\ SetStatus(r, "approved")
    /\ UNCHANGED <<contentVars, revisions, apps, apply, patches>>

Patch(c) ==
    /\ patches < MaxPatches
    /\ patches' = patches + 1
    /\ PatchBody(c)
    /\ UNCHANGED <<ledger, apply>>

-----------------------------------------------------------------------------
(* apply(request, execute = True).                                         *)

At(e, step) == apply[e].step = step

Goto(e, step) == apply' = [apply EXCEPT ![e].step = step]

\* The outcome is known; it is written by Finalize.
Finish(e, outcome, run) ==
    apply' = [apply EXCEPT ![e].step = "done", ![e].outcome = outcome, ![e].run = run]

\* Mutant: a request is applied unless it was rejected.
FreezeUnapproved(e, r) ==
    /\ At(e, "idle") /\ Free(e)
    /\ OneAtATime => \A f \in Operators : At(f, "idle")
    /\ request[r].status \in {"awaiting_approval", "approved"}
    /\ request[r].source = body
    /\ apply' = [apply EXCEPT ![e] = [NoApply EXCEPT !.step = "frozen", !.request = r,
                                                     !.source = body]]
    /\ UNCHANGED <<contentVars, ledger, patches>>

\* plan(), the read of _execute, the published-update intent and the live GET;
\* one that fails leaves nothing behind.
Freeze(e, r) ==
    /\ At(e, "idle") /\ Free(e)
    /\ OneAtATime => \A f \in Operators : At(f, "idle")
    /\ request[r].status = "approved"
    /\ request[r].source = body
    /\ apply' = [apply EXCEPT ![e] = [NoApply EXCEPT !.step = "frozen", !.request = r,
                                                     !.source = body]]
    /\ UNCHANGED <<contentVars, ledger, patches>>

\* _append_application: the attempt is on record before anything is written.
AppendApplication(e) ==
    /\ At(e, "frozen")
    /\ Len(apps) < MaxApps
    /\ apps' = Append(apps, [request |-> apply[e].request, outcome |-> "planned", run |-> 0])
    /\ apply' = [apply EXCEPT ![e].step = "appended", ![e].app = Len(apps) + 1]
    /\ UNCHANGED <<contentVars, request, revisions, patches>>

KeyUsed(r) == \E v \in revisions : v.key = r
KnownContent(c) == \E v \in revisions : v.content = c

\* revise(): the body becomes the proposal, in one commit with the revision.
Revise(e) ==
    /\ At(e, "appended")
    /\ body = apply[e].source
    /\ ~KeyUsed(apply[e].request)
    /\ ~KnownContent(Mine(e).proposed)
    /\ PatchBody(Mine(e).proposed)
    /\ revisions' = revisions \cup {[content |-> Mine(e).proposed, key |-> apply[e].request]}
    /\ Goto(e, "revised")
    /\ UNCHANGED <<request, apps, patches>>

\* Its key was used, or its content was a revision before: the old revision is
\* returned as already there, and the body stays as it is.
ReviseAlready(e) ==
    /\ At(e, "appended")
    /\ \/ KeyUsed(apply[e].request)
       \/ body = apply[e].source /\ KnownContent(Mine(e).proposed)
    /\ Goto(e, "revised")
    /\ UNCHANGED <<contentVars, ledger, patches>>

\* prepare and persist: an artifact of whatever the body is now.
Persist(e) ==
    /\ At(e, "revised")
    /\ apply' = [apply EXCEPT ![e].step = "persisted", ![e].artifact = body]
    /\ UNCHANGED <<contentVars, ledger, patches>>

\* approve_artifact: set once.
ApprovePrepared(e) ==
    /\ At(e, "persisted")
    /\ ApproveArtifact(apply[e].artifact)
    /\ Goto(e, "executable")
    /\ UNCHANGED <<ledger, patches>>

\* execute() of the content update passes its local gates.
Execute(e) ==
    /\ At(e, "executable")
    /\ Resolve(e, apply[e].artifact, apply[e].request)
    /\ Goto(e, "executing")
    /\ UNCHANGED <<ledger, patches>>

\* An exception of one of these sessions (a drifted body, a gate of revise, a
\* failed preparation, an artifact approved before), or a gate of execute().
Fail(e) ==
    /\ apply[e].step \in {"appended", "revised", "persisted", "executable", "unknown"}
    /\ exec[e].step = "idle"
    /\ Finish(e, "failed", apply[e].run)
    /\ UNCHANGED <<contentVars, ledger, patches>>

\* The steps of execute() that do not end it.
Update(e) ==
    /\ At(e, "executing")
    /\ \/ Observe(e) \/ Begin(e) \/ Send(e) \/ Answered(e) \/ Unclear(e)
       \/ ReadBack(e) \/ ReadBackFails(e)
    /\ UNCHANGED <<ledger, apply, patches>>

\* No UPDATE_REQUIRED: a result without a run.
Declined(e) ==
    /\ At(e, "executing")
    /\ Decline(e)
    /\ Finish(e, "failed", 0)
    /\ UNCHANGED <<ledger, patches>>

\* The run of an earlier attempt is returned for the same content, with the
\* status it has; for another content the key is refused.
Again(e) ==
    /\ At(e, "executing")
    /\ BeginRefused(e)
    /\ \/ \E i \in RunIds :
            /\ runs[i].key = apply[e].request
            /\ runs[i].content = exec[e].content
            /\ CASE runs[i].status = "succeeded" -> Finish(e, "succeeded", i)
                 [] runs[i].status = "outcome_unknown" ->
                      apply' = [apply EXCEPT ![e].step = "unknown", ![e].run = i]
                 [] OTHER -> Finish(e, "failed", i)
       \/ /\ \A i \in RunIds :
               runs[i].key = apply[e].request => runs[i].content # exec[e].content
          /\ Finish(e, "failed", 0)
    /\ UNCHANGED <<ledger, patches>>

UpdateSucceeded(e) ==
    /\ At(e, "executing")
    /\ MarkSucceeded(e)
    /\ Finish(e, "succeeded", exec[e].run)
    /\ UNCHANGED <<ledger, patches>>

UpdateUnknown(e) ==
    /\ At(e, "executing")
    /\ MarkUnknown(e)
    /\ apply' = [apply EXCEPT ![e].step = "unknown", ![e].run = exec[e].run]
    /\ UNCHANGED <<ledger, patches>>

\* An unknown outcome is reconciled at once, with one GET; a verdict that
\* somebody else has recorded is taken as it is.
Compare(e) ==
    /\ At(e, "unknown")
    /\ \E v \in Verdicts \ {"none"} : Judge(e, apply[e].run, v)
    /\ UNCHANGED <<ledger, apply, patches>>

Settle(e, verdict) ==
    Finish(e, IF verdict = "reconciled_succeeded" THEN "reconciled" ELSE "outcome_unknown",
           apply[e].run)

Compared(e) ==
    /\ At(e, "unknown")
    /\ exec[e].step = "judged"
    /\ runs[apply[e].run].verdict = "none"
    /\ Record(e)
    /\ Settle(e, exec[e].verdict)
    /\ UNCHANGED <<ledger, patches>>

AlreadyCompared(e) ==
    /\ At(e, "unknown")
    /\ exec[e].step = "idle"
    /\ runs[apply[e].run].verdict # "none"
    /\ Settle(e, runs[apply[e].run].verdict)
    /\ UNCHANGED <<contentVars, ledger, patches>>

\* An exception inside execute() or reconcile(): the classification, a terminal
\* status or a verdict that could not be committed.
Raises(e) ==
    /\ apply[e].step \in {"executing", "unknown"}
    /\ exec[e].step \in {"resolved", "clear", "confirmed", "unclear", "judged"}
    /\ Abandon(e)
    /\ Finish(e, "failed", apply[e].run)
    /\ UNCHANGED <<ledger, patches>>

\* Mutant: an outcome that is unknown counts as applied.
StatusOfOptimist(outcome) ==
    CASE outcome \in {"succeeded", "outcome_unknown"} -> "applied"
      [] outcome = "reconciled" -> "reconciled"
      [] OTHER -> "apply_failed"

StatusOf(outcome) ==
    CASE outcome = "succeeded" -> "applied"
      [] outcome = "reconciled" -> "reconciled"
      [] OTHER -> "apply_failed"

\* _finalize: the row and the request, whatever has become of it meanwhile.
Finalize(e) ==
    /\ At(e, "done")
    /\ apps' = [apps EXCEPT ![apply[e].app].outcome = apply[e].outcome,
                            ![apply[e].app].run = apply[e].run]
    /\ SetStatus(apply[e].request, StatusOf(apply[e].outcome))
    /\ apply' = [apply EXCEPT ![e] = NoApply]
    /\ UNCHANGED <<contentVars, revisions, patches>>

\* The process dies: the row stays planned, the request approved.
Crash(e) ==
    /\ ~At(e, "idle")
    /\ IF exec[e].step = "idle" THEN UNCHANGED contentVars ELSE Abandon(e)
    /\ apply' = [apply EXCEPT ![e] = NoApply]
    /\ UNCHANGED <<ledger, patches>>

\* Somebody calls the reconciliation service for a run left unknown.
Reconciles(e) ==
    /\ At(e, "idle")
    /\ \/ \E i \in RunIds, v \in Verdicts \ {"none"} : Judge(e, i, v)
       \/ Record(e) \/ Abandon(e)
    /\ UNCHANGED <<ledger, apply, patches>>

People ==
    \/ \E r \in Requests :
         \/ \E c \in Contents : Propose(r, c)
         \/ Approve(r) \/ Reject(r) \/ Reopen(r)
    \/ \E c \in Contents : Patch(c)

Applies(e) ==
    \/ \E r \in Requests : Freeze(e, r)
    \/ AppendApplication(e) \/ Revise(e) \/ ReviseAlready(e) \/ Persist(e)
    \/ ApprovePrepared(e) \/ Execute(e) \/ Fail(e) \/ Update(e) \/ Declined(e)
    \/ Again(e) \/ UpdateSucceeded(e) \/ UpdateUnknown(e) \/ Compare(e)
    \/ Compared(e) \/ AlreadyCompared(e) \/ Raises(e) \/ Finalize(e) \/ Crash(e)

ChangeNext ==
    \/ People
    \/ \E e \in Operators : Applies(e) \/ Reconciles(e)
    \/ Outside /\ UNCHANGED <<ledger, apply, patches>>

ChangeSpec == ChangeInit /\ [][ChangeNext]_changeVars

-----------------------------------------------------------------------------
(* Properties.                                                             *)

RunsOf(r) == {i \in RunIds : runs[i].key = r}

\* Every variable has its type.
ChangeTypeOK ==
    /\ ContentTypeOK
    /\ request \in [Requests -> Request]
    /\ revisions \subseteq Revision
    /\ apps \in Seq(Application)
    /\ apply \in [Operators -> Apply]
    /\ patches \in Nat
    /\ \A e \in Operators : ~At(e, "idle") => apply[e].request \in Requests

\* Unless the body was also PATCHed, what is sent to WordPress is word for
\* word what a human approved, in this request or in another one.
PublishedContentWasApproved ==
    patches = 0 =>
      \A i \in RunIds : \E r \in Requests :
         request[r].approved /\ request[r].proposed = runs[i].content

\* A request that is recorded as applied or reconciled has reached WordPress
\* with a run of its own, unless somebody else edited the post.
AppliedMeansLanded ==
    edits = 0 =>
      \A r \in Requests :
         request[r].status \in {"applied", "reconciled"} => RunsOf(r) \cap landed # {}

\* Whatever is sent has an application row of its request, even if the process
\* died before anything else could be recorded.
AttemptIsRecordedFirst ==
    \A r \in Requests : RunsOf(r) # {} => AppsOf(r) # {}

\* A request is posted at most once: a failed attempt, a crash or a retry with
\* the same approval never sends it again.
PostedAtMostOnce ==
    \A r \in Requests : \A i, j \in RunsOf(r) : i = j

-----------------------------------------------------------------------------
(* Why: the inductive invariant.                                           *)

ApprovedContent(c) == \E r \in Requests : request[r].approved /\ request[r].proposed = c

\* A request that got past its approval has one.
ApprovalsExist ==
    \A r \in Requests :
      /\ request[r].status = "none" => ~request[r].approved
      /\ request[r].status \in {"approved", "applied", "apply_failed", "reconciled"} =>
           request[r].approved

\* Once there is a revision the body is the content of an approved request.
BodyIsApproved == patches = 0 /\ revisions # {} => ApprovedContent(body)

\* What an application knows at each step, and how far its call is.
ApplyKnows(e) ==
    LET r == apply[e].request IN
    /\ ~At(e, "idle") => r \in Requests /\ request[r].approved
    /\ apply[e].step \notin {"idle", "frozen"} =>
         apply[e].app \in AppIds /\ apps[apply[e].app].request = r
    /\ patches = 0 =>
         /\ At(e, "revised") => revisions # {}
         /\ apply[e].step \in {"persisted", "executable", "executing"} =>
              ApprovedContent(apply[e].artifact)
    /\ CASE At(e, "executing") -> exec[e].step \in Executing \cup {"resolved", "clear"}
         [] apply[e].step \in {"idle", "unknown"} -> exec[e].step \in {"idle", "judged"}
         [] OTHER -> exec[e].step = "idle"
    /\ exec[e].step \in {"resolved", "clear"} =>
         exec[e].key = r /\ exec[e].content = apply[e].artifact
    /\ exec[e].step \in Executing => runs[exec[e].run].key = r
    /\ At(e, "unknown") =>
         /\ apply[e].run \in RunsOf(r)
         /\ exec[e].step = "judged" => exec[e].run = apply[e].run
    /\ At(e, "done") /\ apply[e].outcome \in {"succeeded", "reconciled"} =>
         /\ apply[e].run \in RunsOf(r)
         /\ OneAtATime /\ edits = 0 => apply[e].run \in landed

\* Runs are made by applications only.
RunsAreKeyed == \A i \in RunIds : runs[i].key \in Requests

ChangeInv ==
    /\ ApprovalsExist
    /\ BodyIsApproved
    /\ RunsAreKeyed
    /\ \A e \in Operators : ApplyKnows(e)
    /\ PublishedContentWasApproved
    /\ AttemptIsRecordedFirst
    /\ PostedAtMostOnce
    /\ OneAtATime => AppliedMeansLanded

-----------------------------------------------------------------------------
(* What the documentation says and the code does not do.                   *)

\* models/change_request.py: an approval is bound to one exact proposal.  What
\* is sent for a request is its own proposal.
PublishesOnlyApproved ==
    \A r \in Requests : \A i \in RunsOf(r) : runs[i].content = request[r].proposed
=============================================================================
