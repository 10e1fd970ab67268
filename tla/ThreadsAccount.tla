--------------------------- MODULE ThreadsAccount ---------------------------
(***************************************************************************)
(* The automatic publisher beside a person who posts by hand.  The worker  *)
(* lists the posts of the account, records each one in the ledger          *)
(* (threads_account_post_service.py) as system, manual or unknown, and     *)
(* retires the proposals a manual post makes unnecessary; then the         *)
(* publisher (threads_auto_publisher.py) evaluates the queue (social/      *)
(* threads/queue.py), whose candidates people hold, prefer and time        *)
(* (threads_queue_control_service.py), and publishes one.                  *)
(*                                                                         *)
(* One worker runs, which the worker lock sees to; it dies at any step,    *)
(* and between its steps people post, edit, decide, control the queue and  *)
(* reconcile.  A publication is the one of ThreadsPublication in fewer     *)
(* steps: what is kept is when the row is in flight, when it learns its    *)
(* media id and when the post appears; runs of the command line that       *)
(* overlap the worker on the same row are that module's matter.            *)
(*                                                                         *)
(* A post of a proposal is identified with the proposal, and a text with   *)
(* the proposal it duplicates.  The publication window, stale articles,    *)
(* the flags of reconciliation, reposts of others and the weak signals of  *)
(* the order are left out: each only takes candidates away or reorders     *)
(* them.  Manual posts are younger than the 14 days of COLLISION_WINDOW    *)
(* and fit one listing, and IN_FLIGHT_MARGIN is less than a tick.          *)
(***************************************************************************)
EXTENDS Integers, FiniteSets

CONSTANTS
    Proposals,    \* threads_post_proposals
    Growth,       \* those of the growth lane
    GrowthDate,   \* the day each of them was written for
    Manual,       \* posts people make in the app
    Other,        \* a text no proposal has
    NoText,       \* not in a listing
    NoProposal,
    Timings,      \* bound: pairs (not_before, expires_at) people set
    Gap,          \* soft_min_gap_minutes, in ticks
    Cooldown,     \* account_post_cooldown_minutes, in ticks
    DayLength,    \* ticks in a JST day
    MaxTime       \* bound: the clock stops here

Ids == Proposals \cup Manual
Texts == Proposals \cup {Other}

ASSUME AccountAssumption ==
    /\ Growth \subseteq Proposals
    /\ GrowthDate \in [Growth -> Nat]
    /\ Proposals \cap Manual = {}
    /\ Other \notin Proposals /\ NoText \notin Texts
    /\ NoProposal \notin Proposals
    /\ Timings \subseteq Int \X Int
    /\ {Gap, Cooldown, MaxTime} \subseteq Nat
    /\ DayLength \in Nat \ {0}

VARIABLES
    now,       \* the clock
    proposal,  \* Proposals -> status and what the queue control writes
    row,       \* Proposals -> row of threads_publications
    box,       \* Proposals -> container of the last attempt, at Threads
    posts,     \* Ids -> when it became public and its text
    ledger,    \* Ids -> row of threads_account_posts
    job        \* what the worker is doing

vars == <<now, proposal, row, box, posts, ledger, job>>

-----------------------------------------------------------------------------
NoTime == -1
Articles == Proposals \ Growth
Day(t) == t \div DayLength

InFlight == {"creating", "publishing", "uncertain"}
Idle == [pc |-> "idle", lane |-> "none", prop |-> NoProposal, start |-> 0,
         list |-> [i \in Ids |-> NoText]]
NoRow == [status |-> "none", media |-> FALSE, started |-> NoTime, basis |-> NoTime]

Init ==
    /\ now = 0
    /\ proposal = [p \in Proposals |->
          [status |-> "awaiting_approval", held |-> FALSE, preferred |-> FALSE,
           from |-> NoTime, until |-> NoTime]]
    /\ row = [p \in Proposals |-> NoRow]
    /\ box = [p \in Proposals |-> "none"]
    /\ posts = [i \in Ids |-> [at |-> NoTime, text |-> NoText]]
    /\ ledger = [i \in Ids |-> [origin |-> "none", text |-> NoText]]
    /\ job = Idle

Public(i) == posts[i].at # NoTime

-----------------------------------------------------------------------------
(* The queue: social/threads/queue.py and the plan of the publication.      *)

\* Mutant: only posts that are known to be manual hold the queue up.
CooledFromManual(t) ==
    \A i \in Ids : ledger[i].origin = "manual" => t >= posts[i].at + Cooldown

\* account_post_cooldown_until: none after the last manual or unknown post.
Cooled(t) ==
    \A i \in Ids :
        ledger[i].origin \in {"manual", "unknown"} => t >= posts[i].at + Cooldown

\* uncertain_publication_ids and _check_other_publications: the growth lane
\* looks at every row, the article lane at articles.
Settled(lane) ==
    \A q \in Proposals :
        lane = "growth" \/ q \in Articles => row[q].status \notin InFlight

\* The gap of the article lane; one growth post a day in the other.
LaneOpen(lane, t) ==
    IF lane = "article"
    THEN \A q \in Articles : row[q].status = "published" => t >= row[q].basis + Gap
    ELSE \A q \in Growth :
            row[q].status = "published" => Day(row[q].basis) # Day(t)

\* _verdict: eligible.
Eligible(p, t) ==
    /\ proposal[p].status = "approved"
    /\ row[p].status \in {"none", "failed"}
    /\ ~row[p].media
    /\ proposal[p].until # NoTime => t < proposal[p].until
    /\ ~proposal[p].held
    /\ t >= proposal[p].from
    /\ p \in Growth => GrowthDate[p] = Day(t)

\* evaluate_queue and evaluate_growth_lane: any candidate of the best rank.
Candidates(lane, t) ==
    LET eligible == {p \in IF lane = "growth" THEN Growth ELSE Articles : Eligible(p, t)}
        preferred == {p \in eligible : proposal[p].preferred} IN
    IF Settled(lane) /\ LaneOpen(lane, t) /\ Cooled(t)
    THEN IF lane = "article" /\ preferred # {} THEN preferred ELSE eligible
    ELSE {}

\* plan(), which publish() repeats: neither the hold nor the cooldown is in it,
\* the times of a growth post are.
Plan(p, t) ==
    LET lane == IF p \in Growth THEN "growth" ELSE "article" IN
    /\ proposal[p].status = "approved"
    /\ row[p].status \in {"none", "failed"} /\ ~row[p].media
    /\ Settled(lane) /\ LaneOpen(lane, t)
    /\ p \in Growth =>
          /\ GrowthDate[p] = Day(t)
          /\ t >= proposal[p].from
          /\ proposal[p].until # NoTime => t < proposal[p].until

-----------------------------------------------------------------------------
(* The ledger: reconcile() of ThreadsAccountPostService.                    *)

\* Mutant: an uncertain publication is taken for a settled one.
UnidentifiedButUncertain(at) ==
    {p \in Proposals : /\ row[p].status \in InFlight \ {"uncertain"}
                       /\ ~row[p].media
                       /\ row[p].started <= at}

\* _in_flight_unidentified: rows without a media id that may be this post.
Unidentified(at) ==
    {p \in Proposals : /\ row[p].status \in InFlight
                       /\ ~row[p].media
                       /\ row[p].started <= at}

\* _origin_for: by the media id, which only the answer to the publish call
\* puts into the row.
Origin(i) ==
    IF i \in Proposals /\ row[i].media
    THEN IF row[i].status = "published" THEN "system" ELSE "unknown"
    ELSE IF Unidentified(posts[i].at) # {} THEN "unknown" ELSE "manual"

\* _reconcile_item: system stays, and manual becomes nothing but system.
NextOrigin(i) ==
    CASE ledger[i].origin = "system"                         -> "system"
      [] ledger[i].origin = "manual" /\ Origin(i) # "system" -> "manual"
      [] OTHER                                               -> Origin(i)

\* The posts resolve_collisions is called for: newly manual, or edited since.
Compared(i) ==
    \/ ledger[i].origin # "manual" /\ NextOrigin(i) = "manual"
    \/ ledger[i].origin = "manual" /\ job.list[i] # ledger[i].text

\* Mutant: an approved proposal is left in the queue.
UnnecessaryWhenOpen ==
    {p \in Proposals :
        /\ proposal[p].status = "awaiting_approval"
        /\ row[p].status = "none"
        /\ \E i \in Ids : job.list[i] = p /\ Compared(i)}

\* resolve_collisions: proposals with a row are not touched.
Unnecessary ==
    {p \in Proposals :
        /\ proposal[p].status # "closed"
        /\ row[p].status = "none"
        /\ \E i \in Ids : job.list[i] = p /\ Compared(i)}

-----------------------------------------------------------------------------
(* The worker.                                                              *)

At(pc) == job.pc = pc
Goto(pc) == job' = [job EXCEPT !.pc = pc]
Return == job' = Idle
Mine == job.prop
SetRow(r) == row' = [row EXCEPT ![Mine] = r]

\* account_post_discovery, every 15 minutes.
Discover ==
    /\ At("idle")
    /\ job' = [Idle EXCEPT !.pc = "list", !.start = now]
    /\ UNCHANGED <<now, proposal, row, box, posts, ledger>>

\* publish_one, publish_growth_one: the first evaluation and its plan.
Evaluate(lane, p) ==
    /\ At("idle")
    /\ p \in Candidates(lane, now)
    /\ Plan(p, now)
    /\ job' = [Idle EXCEPT !.pc = "list", !.lane = lane, !.prop = p, !.start = now]
    /\ UNCHANGED <<now, proposal, row, box, posts, ledger>>

\* list_account_posts answers.
List ==
    /\ At("list")
    /\ job' = [job EXCEPT !.pc = "store", !.list = [i \in Ids |-> posts[i].text]]
    /\ UNCHANGED <<now, proposal, row, box, posts, ledger>>

\* The listing fails (nothing is published), or the read-only preflight does.
GiveUp ==
    /\ At("list") \/ At("preflight")
    /\ Return
    /\ UNCHANGED <<now, proposal, row, box, posts, ledger>>

\* reconcile(): the whole listing in one commit.
Store ==
    /\ At("store")
    /\ ledger' = [i \in Ids |->
          IF job.list[i] = NoText THEN ledger[i]
          ELSE [origin |-> NextOrigin(i), text |-> job.list[i]]]
    /\ proposal' = [p \in Proposals |->
          IF p \in Unnecessary THEN [proposal[p] EXCEPT !.status = "closed"]
          ELSE proposal[p]]
    /\ IF job.lane = "none" THEN Return ELSE Goto("reevaluate")
    /\ UNCHANGED <<now, row, box, posts>>

\* The second evaluation has to choose the same candidate, and plan() to agree.
Reevaluate ==
    /\ At("reevaluate")
    /\ \/ /\ Mine \in Candidates(job.lane, job.start)
          /\ Plan(Mine, job.start)
          /\ Goto("preflight")
       \/ /\ \/ Candidates(job.lane, job.start) # {Mine}
             \/ ~Plan(Mine, job.start)
          /\ Return
    /\ UNCHANGED <<now, proposal, row, box, posts, ledger>>

\* GET /me answered; publish() plans once more ...
Preflight ==
    /\ At("preflight")
    /\ IF Plan(Mine, job.start) THEN Goto("claim") ELSE Return
    /\ UNCHANGED <<now, proposal, row, box, posts, ledger>>

\* ... takes the row and says creating.
Claim ==
    /\ At("claim")
    /\ SetRow([row[Mine] EXCEPT !.status = "creating", !.started = job.start])
    /\ Goto("create")
    /\ UNCHANGED <<now, proposal, box, posts, ledger>>

CreateFails ==
    /\ At("create")
    /\ SetRow([row[Mine] EXCEPT !.status = "failed"])
    /\ Return
    /\ UNCHANGED <<now, proposal, box, posts, ledger>>

\* The container exists; container_created, the wait, publishing.
Create ==
    /\ At("create")
    /\ box' = [box EXCEPT ![Mine] = "open"]
    /\ SetRow([row[Mine] EXCEPT !.status = "publishing"])
    /\ Goto("send")
    /\ UNCHANGED <<now, proposal, posts, ledger>>

Send ==
    /\ At("send")
    /\ box' = [box EXCEPT ![Mine] = IF @ = "open" THEN "sent" ELSE @]
    /\ Goto("await")
    /\ UNCHANGED <<now, proposal, row, posts, ledger>>

\* The answer: the media id is committed with the attempt ...
Answer ==
    /\ At("await")
    /\ box[Mine] = "posted"
    /\ SetRow([row[Mine] EXCEPT !.media = TRUE])
    /\ Goto("finish")
    /\ UNCHANGED <<now, proposal, box, posts, ledger>>

\* ... published in the next commit.  The gap is measured from the time
\* Threads states, or from the answer when the post cannot be read back.
Finish ==
    /\ At("finish")
    /\ \E t \in {posts[Mine].at, now} :
          SetRow([row[Mine] EXCEPT !.status = "published", !.basis = t])
    /\ Return
    /\ UNCHANGED <<now, proposal, box, posts, ledger>>

\* No answer.
Lost ==
    /\ At("await")
    /\ SetRow([row[Mine] EXCEPT !.status = "uncertain"])
    /\ Return
    /\ UNCHANGED <<now, proposal, box, posts, ledger>>

Crash ==
    /\ ~At("idle")
    /\ Return
    /\ UNCHANGED <<now, proposal, row, box, posts, ledger>>

\* An insight snapshot of a published row needs a row of the ledger:
\* ensure_system_account_post makes it, or turns the one it finds to system.
ObserveInsights(p) ==
    /\ At("idle")
    /\ row[p].status = "published" /\ row[p].media
    /\ ledger[p].origin # "system"
    /\ ledger' = [ledger EXCEPT ![p] =
          [origin |-> "system", text |-> IF @.origin = "none" THEN p ELSE @.text]]
    /\ UNCHANGED <<now, proposal, row, box, posts, job>>

-----------------------------------------------------------------------------
(* People and Threads.                                                      *)

\* reconcile() of the publication: by the status of the container, and
\* without learning the media id.
ReconcilePublication(p) ==
    /\ Mine # p \/ job.pc \in {"idle", "list", "store", "reevaluate", "preflight"}
    /\ \/ row[p].status \in InFlight
       \/ row[p].status = "published" /\ ~row[p].media
    /\ CASE box[p] = "posted" ->
              row' = [row EXCEPT ![p].status = "published", ![p].basis = now]
         [] box[p] \in {"none", "ended"} -> row' = [row EXCEPT ![p].status = "failed"]
         [] OTHER -> UNCHANGED row
    /\ UNCHANGED <<now, proposal, box, posts, ledger, job>>

Approve(p) ==
    /\ proposal[p].status = "awaiting_approval"
    /\ proposal' = [proposal EXCEPT ![p].status = "approved"]
    /\ UNCHANGED <<now, row, box, posts, ledger, job>>

\* Rejected, stale or superseded by another proposal.
Withdraw(p) ==
    /\ proposal[p].status # "closed"
    /\ proposal' = [proposal EXCEPT ![p].status = "closed"]
    /\ UNCHANGED <<now, row, box, posts, ledger, job>>

\* _controllable: open or approved, and no publication row.
Controllable(p) == proposal[p].status # "closed" /\ row[p].status = "none"

Hold(p) ==
    /\ Controllable(p) /\ ~proposal[p].held
    /\ proposal' = [proposal EXCEPT ![p].held = TRUE]
    /\ UNCHANGED <<now, row, box, posts, ledger, job>>

Release(p) ==
    /\ proposal[p].held
    /\ proposal' = [proposal EXCEPT ![p].held = FALSE]
    /\ UNCHANGED <<now, row, box, posts, ledger, job>>

PreferNext(p) ==
    /\ Controllable(p)
    /\ proposal' = [proposal EXCEPT ![p].preferred = TRUE]
    /\ UNCHANGED <<now, row, box, posts, ledger, job>>

ClearPreference(p) ==
    /\ proposal[p].preferred
    /\ proposal' = [proposal EXCEPT ![p].preferred = FALSE]
    /\ UNCHANGED <<now, row, box, posts, ledger, job>>

SetTiming(p, from, until) ==
    /\ Controllable(p)
    /\ until # NoTime => (from < until /\ until > now)
    /\ proposal' = [proposal EXCEPT ![p].from = from, ![p].until = until]
    /\ UNCHANGED <<now, row, box, posts, ledger, job>>

PostByHand(m, text) ==
    /\ ~Public(m)
    /\ posts' = [posts EXCEPT ![m] = [at |-> now, text |-> text]]
    /\ UNCHANGED <<now, proposal, row, box, ledger, job>>

\* Bound: an edit turns an unrelated text into the text of a proposal.
EditPost(m, p) ==
    /\ posts[m].text = Other
    /\ posts' = [posts EXCEPT ![m].text = p]
    /\ UNCHANGED <<now, proposal, row, box, ledger, job>>

\* The publish request takes effect, perhaps after its sender gave up.
Land(p) ==
    /\ box[p] = "sent"
    /\ box' = [box EXCEPT ![p] = "posted"]
    /\ posts' = [posts EXCEPT ![p] = [at |-> now, text |-> p]]
    /\ UNCHANGED <<now, proposal, row, ledger, job>>

\* The container fails or expires, with the request for it.
ContainerEnds(p) ==
    /\ box[p] \in {"open", "sent"}
    /\ box' = [box EXCEPT ![p] = "ended"]
    /\ UNCHANGED <<now, proposal, row, posts, ledger, job>>

Tick ==
    /\ now < MaxTime
    /\ now' = now + 1
    /\ UNCHANGED <<proposal, row, box, posts, ledger, job>>

-----------------------------------------------------------------------------
Worker ==
    \/ Discover
    \/ \E lane \in {"article", "growth"}, p \in Proposals : Evaluate(lane, p)
    \/ List \/ GiveUp \/ Store \/ Reevaluate \/ Preflight \/ Claim
    \/ Create \/ CreateFails \/ Send \/ Answer \/ Finish \/ Lost \/ Crash
    \/ \E p \in Proposals : ObserveInsights(p)

People ==
    \/ \E p \in Proposals :
          \/ ReconcilePublication(p) \/ Approve(p) \/ Withdraw(p)
          \/ Hold(p) \/ Release(p) \/ PreferNext(p) \/ ClearPreference(p)
          \/ \E t \in Timings : SetTiming(p, t[1], t[2])
    \/ \E m \in Manual :
          \/ \E text \in Texts : PostByHand(m, text)
          \/ \E p \in Proposals : EditPost(m, p)

Threads == \E p \in Proposals : Land(p) \/ ContainerEnds(p)

Next == Worker \/ People \/ Threads \/ Tick

Spec == Init /\ [][Next]_vars

-----------------------------------------------------------------------------
(* Properties.                                                              *)

Time == 0 .. MaxTime
Stamp == Time \cup {NoTime}

ProposalType ==
    [status : {"awaiting_approval", "approved", "closed"},
     held : BOOLEAN, preferred : BOOLEAN, from : Int, until : Int]
RowType ==
    [status : {"none", "failed", "published"} \cup InFlight,
     media : BOOLEAN, started : Stamp, basis : Stamp]
PostType == [at : Stamp, text : Texts \cup {NoText}]
EntryType == [origin : {"none", "manual", "unknown", "system"}, text : Texts \cup {NoText}]

\* The steps after the second evaluation.
Working == {"reevaluate", "preflight", "claim", "create", "send", "await", "finish"}
JobType ==
    [pc : {"idle", "list", "store"} \cup Working, lane : {"none", "article", "growth"},
     prop : Proposals \cup {NoProposal}, start : Time,
     list : [Ids -> Texts \cup {NoText}]]

\* Every variable has its type.
AccountTypeOK ==
    /\ now \in Time
    /\ proposal \in [Proposals -> ProposalType]
    /\ row \in [Proposals -> RowType]
    /\ box \in [Proposals -> {"none", "open", "sent", "posted", "ended"}]
    /\ posts \in [Ids -> PostType]
    /\ ledger \in [Ids -> EntryType]
    /\ job \in JobType

\* What the program posted is never recorded as the work of a person, through
\* lost answers, late posts, crashes and listings in between; except for a
\* post whose publication was settled by reconciliation, which does not learn
\* the media id.
OursIsKnown ==
    \A p \in Proposals :
        ledger[p].origin = "manual" => row[p].status = "published" /\ ~row[p].media

\* A row that may be published is taken: the moment a publication begins.
Begins(p) == row[p].status \notin InFlight /\ row'[p].status = "creating"

\* A publication is not begun for a text the ledger knows as a manual post,
\* whatever was edited or decided since; except while the post's origin is
\* unknown, and for a proposal whose earlier attempt failed, which
\* resolve_collisions does not touch.
DuplicatesAreExplained ==
    [][\A p \in Proposals : Begins(p) =>
         \A m \in Manual : ledger[m].text = p =>
             ledger[m].origin = "unknown" \/ row[p].status = "failed"]_vars

\* No publication is begun within the cooldown of a post by hand that was
\* public when the account was listed for it, whichever origin it got.
ManualKeepsDistance ==
    [][\A p \in Proposals : Begins(p) =>
         \A m \in Manual : job.list[m] # NoText =>
             now >= posts[m].at + Cooldown]_vars

=============================================================================
