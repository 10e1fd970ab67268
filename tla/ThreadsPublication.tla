------------------------- MODULE ThreadsPublication -------------------------
(***************************************************************************)
(* The write path of a Threads post: app/services/threads_publication_     *)
(* service.py.  A publication row (one per proposal) walks through         *)
(* planned, creating, container_created, publishing, published; each       *)
(* session.commit() of the service is a step of its own, so a process may  *)
(* die, and time may pass, between any two of them.  The Threads service   *)
(* is external: media containers that are open until they are published,   *)
(* fail or expire, and publish requests whose answer may be lost while     *)
(* the request itself still takes effect later.                            *)
(*                                                                         *)
(* An operation does not look at the clock again: it carries on from the    *)
(* time it was given, which the worker read when its cycle began, and so   *)
(* reads a time somewhat behind the true one.                              *)
(*                                                                         *)
(* Proposals whose plan is blocked for reasons this module does not track  *)
(* (not approved, stale, missing configuration, publication window) are    *)
(* proposals for which Plan is not taken.  Texts, permalinks, the trigger  *)
(* and error messages are left out.                                        *)
(***************************************************************************)
EXTENDS Integers, FiniteSets

CONSTANTS
    Proposals,      \* the threads_post_proposal rows
    Growth,         \* those without a source article (account growth posts)
    GrowthDate,     \* the JST day each growth post was written for
    Workers,        \* the processes: workers and runs of the command line
    Containers,     \* ids the Threads service hands out
    NoContainer,    \* NULL in threads_creation_id and threads_media_id
    NoProposal,     \* the owner of a container that does not exist yet
    Gap,            \* soft_min_gap_minutes, in ticks
    DayLength,      \* ticks in a JST day
    MaxTime,        \* bound: the clock stops here
    MaxLag,         \* bound: how far the clock of an operation is behind
    MaxRetries,     \* bound: claims of an existing row
    Serialised      \* TRUE: no two operations on publications overlap

ASSUME ConstantsAssumption ==
    /\ Growth \subseteq Proposals
    /\ GrowthDate \in [Growth -> Nat]
    /\ NoContainer \notin Containers
    /\ NoProposal \notin Proposals
    /\ Gap \in Nat
    /\ DayLength \in Nat \ {0}
    /\ MaxTime \in Nat
    /\ MaxLag \in Nat
    /\ MaxRetries \in Nat
    /\ Serialised \in BOOLEAN

VARIABLES
    now,    \* the true time, which is also that of the Threads service
    row,    \* threads_publications with the attempts the gap is measured from
    op,     \* what each process is doing, and what it holds in memory
    box,    \* the containers, as the Threads service knows them
    sent    \* publish requests the Threads service has not answered yet

vars == <<now, row, op, box, sent>>

-----------------------------------------------------------------------------
NoTime == -1
Articles == Proposals \ Growth

\* PUB_IN_FLIGHT_STATES and PUB_RETRYABLE_STATES of the model.
InFlight  == {"creating", "container_created", "publishing", "uncertain"}
Retryable == {"planned", "failed"}

Day(t) == t \div DayLength

\* A row that was never inserted has status "none".
EmptyRow ==
    [status |-> "none", creation |-> NoContainer, media |-> NoContainer,
     recon |-> FALSE, override |-> FALSE, retries |-> 0,
     remoteAt |-> NoTime, returnedAt |-> NoTime, reconciledAt |-> NoTime,
     publishedAt |-> NoTime]

Idle ==
    [pc |-> "idle", prop |-> NoProposal, start |-> 0, creation |-> NoContainer,
     media |-> NoContainer, override |-> FALSE, seen |-> "open"]

NoBox == [owner |-> NoProposal, status |-> "absent", at |-> NoTime]

Init ==
    /\ now = 0
    /\ row = [p \in Proposals |-> EmptyRow]
    /\ op = [w \in Workers |-> Idle]
    /\ box = [c \in Containers |-> NoBox]
    /\ sent = {}

-----------------------------------------------------------------------------
(* The gap is measured from the best evidence of the real publication.     *)

FirstKnown(s, t) == IF s # NoTime THEN s ELSE t

\* gap_basis: the remote timestamp, else the publish attempt, else the latest
\* reconcile attempt, else the recorded published_at.
GapBasis(r) ==
    IF r.status = "published"
    THEN FirstKnown(r.remoteAt, FirstKnown(r.returnedAt,
                    FirstKnown(r.reconciledAt, r.publishedAt)))
    ELSE NoTime

\* Mutant: rows without a media id are overlooked.
GapElapsedByMedia(p, t) ==
    \A q \in Articles \ {p} :
        row[q].media # NoContainer /\ GapBasis(row[q]) # NoTime
            => t >= GapBasis(row[q]) + Gap

\* _check_gap at the time t, against every other published article row.
GapElapsed(p, t) ==
    \A q \in Articles \ {p} :
        GapBasis(row[q]) # NoTime => t >= GapBasis(row[q]) + Gap

\* Mutants: only the post's own date is looked at; midnight is left out.
GrowthAllowedByDate(p, t) == GrowthDate[p] = Day(t)
GrowthAllowedAfterMidnight(p, t) ==
    /\ GrowthDate[p] = Day(t)
    /\ \A q \in Growth \ {p} :
          GapBasis(row[q]) > Day(t) * DayLength
              => Day(GapBasis(row[q])) # Day(t)

\* _check_growth: written for today, and no growth post has a basis today.
GrowthAllowed(p, t) ==
    /\ GrowthDate[p] = Day(t)
    /\ \A q \in Growth \ {p} :
          GapBasis(row[q]) # NoTime => Day(GapBasis(row[q])) # Day(t)

\* _check_other_publications: an article is not held up by growth posts.
OthersSettled(p) ==
    \A q \in Proposals \ {p} :
        (p \in Growth \/ q \in Articles) =>
            row[q].status \notin InFlight /\ ~row[q].recon

\* The part of plan() about the proposal's own row.
OwnRowFree(p) ==
    /\ row[p].status \in Retryable \cup {"none"}
    /\ row[p].media = NoContainer
    /\ ~row[p].recon

-----------------------------------------------------------------------------
(* Process steps.  At(w, l) holds when w is about to take the step l.       *)

At(w, l) == op[w].pc = l
Goto(w, l) == op' = [op EXCEPT ![w].pc = l]
Return(w) == op' = [op EXCEPT ![w] = Idle]
Mine(w) == row[op[w].prop]
SetMine(w, r) == row' = [row EXCEPT ![op[w].prop] = r]

MayStart(w) ==
    /\ At(w, "idle")
    /\ Serialised => \A v \in Workers : At(v, "idle")

\* The time a worker has when it gets to a publication: that of its cycle's
\* beginning.  The command line has the true one.
CycleTimes == {t \in 0 .. now : now - t <= MaxLag}

\* _op_now(): the operation's start and what the monotonic clock counted since,
\* which leaves out the time the machine slept.
OpNow(w) == {t \in op[w].start .. now : now - t <= MaxLag}

\* plan(): every condition is read in one go, at the time t; wantOverride is
\* the ManualGapOverride of a human at the command line, kept only when the
\* gap has not elapsed.
Plan(w, p, t, wantOverride) ==
    /\ MayStart(w)
    /\ OwnRowFree(p)
    /\ OthersSettled(p)
    /\ wantOverride => t = now
    /\ IF p \in Growth THEN GrowthAllowed(p, t) /\ ~wantOverride
                       ELSE GapElapsed(p, t) \/ wantOverride
    /\ op' = [op EXCEPT ![w] =
                [Idle EXCEPT !.pc = "claim", !.prop = p, !.start = t,
                             !.override = p \in Articles /\ ~GapElapsed(p, t)]]
    /\ UNCHANGED <<now, row, box, sent>>

\* _claim(): insert the row, or take an existing one that may be retried.
Claim(w) ==
    /\ At(w, "claim")
    /\ \/ /\ Mine(w).status = "none"
          /\ SetMine(w, [EmptyRow EXCEPT !.status = "planned"])
       \/ /\ Mine(w).status \in Retryable
          /\ Mine(w).retries < MaxRetries
          /\ SetMine(w, [Mine(w) EXCEPT !.status = "planned", !.retries = @ + 1])
    /\ Goto(w, "record_trigger")
    /\ UNCHANGED <<now, box, sent>>

\* _claim() found a row that is in flight or published: blocked.
ClaimRefused(w) ==
    /\ At(w, "claim")
    /\ Mine(w).status \notin Retryable \cup {"none"}
    /\ Return(w)
    /\ UNCHANGED <<now, row, box, sent>>

\* Who began it and whether the gap was overridden, before anything leaves.
RecordTrigger(w) ==
    /\ At(w, "record_trigger")
    /\ SetMine(w, [Mine(w) EXCEPT !.override = op[w].override])
    /\ Goto(w, "set_creating")
    /\ UNCHANGED <<now, box, sent>>

SetCreating(w) ==
    /\ At(w, "set_creating")
    /\ SetMine(w, [Mine(w) EXCEPT !.status = "creating"])
    /\ Goto(w, "create")
    /\ UNCHANGED <<now, box, sent>>

\* create_text_container returned an id.
CreateSucceeds(w, c) ==
    /\ At(w, "create")
    /\ box[c].status = "absent"
    /\ box' = [box EXCEPT ![c] = [owner |-> op[w].prop, status |-> "open",
                                  at |-> NoTime]]
    /\ op' = [op EXCEPT ![w].pc = "store_creation", ![w].creation = c]
    /\ UNCHANGED <<now, row, sent>>

\* create_text_container raised: _fail().  A container whose id never came
\* back cannot be published by anybody.
CreateFails(w) ==
    /\ At(w, "create")
    /\ SetMine(w, [Mine(w) EXCEPT !.status = "failed"])
    /\ Return(w) \/ Goto(w, "flag_topic")
    /\ UNCHANGED <<now, box, sent>>

\* The topic tag was rejected: a human decides before any retry.
FlagTopicRejected(w) ==
    /\ At(w, "flag_topic")
    /\ SetMine(w, [Mine(w) EXCEPT !.recon = TRUE])
    /\ Return(w)
    /\ UNCHANGED <<now, box, sent>>

\* The creation id is committed with the create attempt ...
StoreCreation(w) ==
    /\ At(w, "store_creation")
    /\ SetMine(w, [Mine(w) EXCEPT !.creation = op[w].creation])
    /\ Goto(w, "set_container_created")
    /\ UNCHANGED <<now, box, sent>>

\* ... the status after it; then comes the recommended wait.
SetContainerCreated(w) ==
    /\ At(w, "set_container_created")
    /\ SetMine(w, [Mine(w) EXCEPT !.status = "container_created"])
    /\ Goto(w, "set_publishing")
    /\ UNCHANGED <<now, box, sent>>

SetPublishing(w) ==
    /\ At(w, "set_publishing")
    /\ SetMine(w, [Mine(w) EXCEPT !.status = "publishing"])
    /\ Goto(w, "send_publish")
    /\ UNCHANGED <<now, box, sent>>

\* publish_container: the request leaves.
SendPublish(w) ==
    /\ At(w, "send_publish")
    /\ sent' = sent \cup {op[w].creation}
    /\ Goto(w, "await_publish")
    /\ UNCHANGED <<now, row, box>>

\* The answer arrives: media id and publish attempt in one commit, the attempt
\* stamped with the operation's clock.
PublishSucceeds(w) ==
    /\ At(w, "await_publish")
    /\ box[op[w].creation].status = "published"
    /\ \E t \in OpNow(w) :
          SetMine(w, [Mine(w) EXCEPT !.media = op[w].creation, !.returnedAt = t])
    /\ op' = [op EXCEPT ![w].pc = "finish", ![w].media = op[w].creation]
    /\ UNCHANGED <<now, box, sent>>

\* No media id came back: a timeout, a lost answer and a refusal look alike.
PublishUnclear(w) ==
    /\ At(w, "await_publish")
    /\ Goto(w, "set_uncertain")
    /\ UNCHANGED <<now, row, box, sent>>

\* Mutant: a publish call that raised is a failure like any other.
SetUncertainAsFailed(w) ==
    /\ At(w, "set_uncertain")
    /\ SetMine(w, [Mine(w) EXCEPT !.status = "failed"])
    /\ Return(w)
    /\ UNCHANGED <<now, box, sent>>

SetUncertain(w) ==
    /\ At(w, "set_uncertain")
    /\ SetMine(w, [Mine(w) EXCEPT !.status = "uncertain"])
    /\ Return(w)
    /\ UNCHANGED <<now, box, sent>>

\* _finish_published(): published_at is the time the operation began.
\* A row without a media id is not read back.
FinishPublished(w) ==
    /\ At(w, "finish")
    /\ SetMine(w, [Mine(w) EXCEPT !.status = "published",
                                  !.publishedAt = op[w].start])
    /\ IF op[w].media = NoContainer THEN Return(w) ELSE Goto(w, "readback")
    /\ UNCHANGED <<now, box, sent>>

\* _readback(): the remote timestamp is stored with the readback attempt; it
\* may be missing or unreadable, and the text may differ from the approved one.
Readback(w) ==
    /\ At(w, "readback")
    /\ \E t \in {box[op[w].media].at, NoTime} :
          SetMine(w, [Mine(w) EXCEPT !.remoteAt = t])
    /\ Return(w) \/ Goto(w, "flag_mismatch")
    /\ UNCHANGED <<now, box, sent>>

\* The published text differs: reconciliation is required.
FlagMismatch(w) ==
    /\ At(w, "flag_mismatch")
    /\ SetMine(w, [Mine(w) EXCEPT !.recon = TRUE])
    /\ Return(w)
    /\ UNCHANGED <<now, box, sent>>

-----------------------------------------------------------------------------
(* reconcile(): settle a row by asking for its container's status.          *)

\* Mutant: only uncertain rows are reconciled.
ReconcileStartUncertain(w, p) ==
    /\ MayStart(w)
    /\ row[p].status = "uncertain"
    /\ op' = [op EXCEPT ![w] =
                [Idle EXCEPT !.pc = "fetch_status", !.prop = p, !.start = now,
                             !.creation = row[p].creation]]
    /\ UNCHANGED <<now, row, box, sent>>

\* The row is loaded; one that is published with a media id is left alone.
ReconcileStart(w, p) ==
    /\ MayStart(w)
    /\ row[p].status # "none"
    /\ ~(row[p].status = "published" /\ row[p].media # NoContainer)
    /\ op' = [op EXCEPT ![w] =
                [Idle EXCEPT !.pc = IF row[p].creation = NoContainer
                                    THEN "no_container" ELSE "fetch_status",
                             !.prop = p, !.start = now,
                             !.creation = row[p].creation,
                             !.media = row[p].media]]
    /\ UNCHANGED <<now, row, box, sent>>

\* fetch_container_status answered.
FetchStatus(w) ==
    /\ At(w, "fetch_status")
    /\ op' = [op EXCEPT ![w].pc = "store_reconcile",
                        ![w].seen = box[op[w].creation].status]
    /\ UNCHANGED <<now, row, box, sent>>

\* Of several reconcile attempts the latest stamp counts.
Later(s, t) == IF s > t THEN s ELSE t

\* Mutants: FINISHED is read as published; FINISHED is read as failed.
StoreReconcileFinished(w) ==
    /\ At(w, "store_reconcile")
    /\ \E t \in OpNow(w) :
          SetMine(w, [Mine(w) EXCEPT !.reconciledAt = Later(Mine(w).reconciledAt, t)])
    /\ Goto(w, IF op[w].seen = "ended" THEN "set_failed" ELSE "finish")
    /\ UNCHANGED <<now, box, sent>>
StoreReconcileGivesUp(w) ==
    /\ At(w, "store_reconcile")
    /\ \E t \in OpNow(w) :
          SetMine(w, [Mine(w) EXCEPT !.reconciledAt = Later(Mine(w).reconciledAt, t)])
    /\ Goto(w, IF op[w].seen = "published" THEN "finish" ELSE "set_failed")
    /\ UNCHANGED <<now, box, sent>>

\* The reconcile attempt is recorded whatever the status was.
StoreReconcile(w) ==
    /\ At(w, "store_reconcile")
    /\ \E t \in OpNow(w) :
          SetMine(w, [Mine(w) EXCEPT !.reconciledAt = Later(Mine(w).reconciledAt, t)])
    /\ CASE op[w].seen = "published" -> Goto(w, "finish")
         [] op[w].seen = "ended"     -> Goto(w, "set_failed")
         [] OTHER                    -> Return(w)
    /\ UNCHANGED <<now, box, sent>>

\* No container was ever created, or it reports ERROR or EXPIRED: nothing
\* reached the readers, and the proposal may be retried.
SetFailed(w) ==
    /\ At(w, "no_container") \/ At(w, "set_failed")
    /\ SetMine(w, [Mine(w) EXCEPT !.status = "failed"])
    /\ Return(w)
    /\ UNCHANGED <<now, box, sent>>

\* The process dies at any point: what was committed stays, memory is lost.
\* A status query or a readback that raises ends its operation the same way.
Crash(w) ==
    /\ ~At(w, "idle")
    /\ Return(w)
    /\ UNCHANGED <<now, row, box, sent>>

-----------------------------------------------------------------------------
(* The Threads service and the clock.                                       *)

\* A publish request takes effect: at once, or long after its sender gave up.
ServerPublishes(c) ==
    /\ c \in sent
    /\ box[c].status = "open"
    /\ sent' = sent \ {c}
    /\ box' = [box EXCEPT ![c].status = "published", ![c].at = now]
    /\ UNCHANGED <<now, row, op>>

\* A publish request is dropped or refused.
ServerDrops(c) ==
    /\ c \in sent
    /\ sent' = sent \ {c}
    /\ UNCHANGED <<now, row, op, box>>

\* An open container (IN_PROGRESS, FINISHED) fails or expires (ERROR, EXPIRED,
\* which reconcile treats alike) and cannot be published afterwards.
ContainerEnds(c) ==
    /\ box[c].status = "open"
    /\ box' = [box EXCEPT ![c].status = "ended"]
    /\ UNCHANGED <<now, row, op, sent>>

Tick ==
    /\ now < MaxTime
    /\ now' = now + 1
    /\ UNCHANGED <<row, op, box, sent>>

-----------------------------------------------------------------------------
PublishStep(w) ==
    \/ Claim(w) \/ ClaimRefused(w) \/ RecordTrigger(w) \/ SetCreating(w)
    \/ \E c \in Containers : CreateSucceeds(w, c)
    \/ CreateFails(w) \/ FlagTopicRejected(w) \/ StoreCreation(w)
    \/ SetContainerCreated(w) \/ SetPublishing(w) \/ SendPublish(w)
    \/ PublishSucceeds(w) \/ PublishUnclear(w) \/ SetUncertain(w)
    \/ FinishPublished(w) \/ Readback(w) \/ FlagMismatch(w)

ReconcileStep(w) == FetchStatus(w) \/ StoreReconcile(w) \/ SetFailed(w)

Start(w) ==
    \E p \in Proposals :
        \/ \E t \in CycleTimes, wantOverride \in BOOLEAN : Plan(w, p, t, wantOverride)
        \/ ReconcileStart(w, p)

Environment ==
    \/ \E c \in Containers : ServerPublishes(c) \/ ServerDrops(c) \/ ContainerEnds(c)
    \/ Tick

Next ==
    \/ \E w \in Workers : Start(w) \/ PublishStep(w) \/ ReconcileStep(w) \/ Crash(w)
    \/ Environment

Spec == Init /\ [][Next]_vars

\* A process that is not killed runs on; somebody keeps running --reconcile
\* for every row, and not every run of it is killed or fails to reach Threads;
\* an open container that nobody publishes expires.
Fairness ==
    /\ \A w \in Workers :
          /\ WF_vars(PublishStep(w))
          /\ \A p \in Proposals :
                /\ SF_vars(ReconcileStart(w, p))
                /\ SF_vars(op[w].prop = p /\ FetchStatus(w))
                /\ SF_vars(op[w].prop = p /\ StoreReconcile(w))
                /\ SF_vars(op[w].prop = p /\ SetFailed(w))
                /\ SF_vars(op[w].prop = p /\ FinishPublished(w))
    /\ \A c \in Containers : WF_vars(ContainerEnds(c))

FairSpec == Spec /\ Fairness

-----------------------------------------------------------------------------
(* Properties.                                                              *)

Time  == 0 .. MaxTime
Stamp == Time \cup {NoTime}

PCs == {"idle", "claim", "record_trigger", "set_creating", "create", "flag_topic",
        "store_creation", "set_container_created", "set_publishing",
        "send_publish", "await_publish", "set_uncertain", "finish", "readback",
        "flag_mismatch", "no_container", "fetch_status", "store_reconcile",
        "set_failed"}

BoxStatus == {"absent", "open", "published", "ended"}

RowType ==
    [status : {"none", "published"} \cup InFlight \cup Retryable,
     creation : Containers \cup {NoContainer},
     media : Containers \cup {NoContainer},
     recon : BOOLEAN, override : BOOLEAN, retries : 0 .. MaxRetries,
     remoteAt : Stamp, returnedAt : Stamp, reconciledAt : Stamp,
     publishedAt : Stamp]

OpType ==
    [pc : PCs, prop : Proposals \cup {NoProposal}, start : Time,
     creation : Containers \cup {NoContainer},
     media : Containers \cup {NoContainer},
     override : BOOLEAN, seen : BoxStatus]

BoxType ==
    [owner : Proposals \cup {NoProposal}, status : BoxStatus, at : Stamp]

\* Every variable has its type.
TypeOK ==
    /\ now \in Time
    /\ row \in [Proposals -> RowType]
    /\ op \in [Workers -> OpType]
    /\ box \in [Containers -> BoxType]
    /\ sent \subseteq Containers

\* The posts of p that readers can see.
Posts(p) == {c \in Containers : box[c].owner = p /\ box[c].status = "published"}
AllPosts == {c \in Containers : box[c].status = "published"}

\* A proposal is never published twice, through any sequence of crashes,
\* lost answers, late requests, retries and reconciliations.
AtMostOnePost ==
    \A c, d \in AllPosts : box[c].owner = box[d].owner => c = d

\* What the row says about the outside is true: a published row has a post,
\* and a media id is the id of a post of that proposal.
PublishedMeansPosted ==
    \A p \in Proposals :
        /\ row[p].status = "published" => Posts(p) # {}
        /\ row[p].media # NoContainer => row[p].media \in Posts(p)

\* "Nothing reached Threads; this proposal may be retried": a row that may be
\* retried has no post, and no request or open container that could become
\* one behind its back.
RetryableMeansNothingOut ==
    \A p \in Proposals :
        row[p].status \in Retryable \cup {"none"} =>
            \A c \in Containers :
                box[c].owner = p =>
                    /\ box[c].status # "published"
                    /\ box[c].status = "open" => c \notin sent

\* How much of the gap can be lost after c: nothing when its own time was read
\* back, else what the clock of its operation was behind.
Slack(c) == IF row[box[c].owner].remoteAt = NoTime THEN MaxLag ELSE 0

\* d comes a gap after c.
Follows(d, c) == box[d].at + Slack(c) >= box[c].at + Gap

\* Any two article posts are really Gap apart, as readers see them, unless
\* the later one was published with a recorded human override.  Only after a
\* post whose time could not be read back is the gap shorter, by no more than
\* the clocks are behind.
GapRespected ==
    \A c, d \in AllPosts :
        /\ box[c].owner \in Articles
        /\ box[d].owner \in Articles
        /\ c # d
        /\ box[c].at <= box[d].at
        => \/ Follows(d, c)
           \/ row[box[d].owner].override
           \/ /\ box[c].at = box[d].at
              /\ row[box[c].owner].override \/ Follows(c, d)

\* Seen by a clock that is behind, a post so soon after midnight may belong to
\* the day before.
AtMidnight(t) == t < Day(t) * DayLength + MaxLag

\* At most one growth post goes out on one JST day, except that one which came
\* just after midnight, by less than the clocks are behind, does not keep the
\* post of its day away.
OneGrowthPostPerDay ==
    \A c, d \in AllPosts :
        /\ box[c].owner \in Growth
        /\ box[d].owner \in Growth
        /\ Day(box[c].at) = Day(box[d].at)
        /\ box[c].at <= box[d].at
        => c = d \/ AtMidnight(box[c].at)

\* A publication that was recorded as published stays so.
PublishedIsFinal ==
    [][\A p \in Proposals :
         row[p].status = "published" => row'[p].status = "published"]_vars

\* A row in flight is settled in the end, if reconciliation is run.
InFlightSettles ==
    \A p \in Proposals :
        row[p].status \in InFlight ~> row[p].status \notin InFlight

-----------------------------------------------------------------------------
(* The promise this module keeps.                                           *)

BeliefOf(r) ==
    CASE r.status = "published"   -> "posted"
      [] r.status \in InFlight    -> "unsettled"
      [] OTHER                    -> "free"

PostTime(p) ==
    IF Posts(p) = {} THEN NoTime ELSE box[CHOOSE c \in Posts(p) : TRUE].at

Promise == INSTANCE PublicationPromise WITH
    clock     <- now,
    belief    <- [p \in Proposals |-> BeliefOf(row[p])],
    postedAt  <- [p \in Proposals |-> PostTime(p)],
    humanSaid <- [p \in Proposals |-> row[p].override]

\* Serialised operations implement PublicationPromise.
KeepsPromise == Promise!Spec

-----------------------------------------------------------------------------
(* Why a proposal is published at most once: the inductive invariant.       *)

Exists(c, p) == c \in Containers /\ box[c].owner = p /\ box[c].status # "absent"

\* A container that is a post, or can still become one.
Live(c) ==
    \/ box[c].status = "published"
    \/ box[c].status = "open" /\ c \in sent

\* A live container is the one its proposal's row names, and the row is in a
\* state from which no new attempt starts.
LiveIsRecorded ==
    \A c \in Containers : Live(c) =>
        /\ box[c].owner \in Proposals
        /\ row[box[c].owner].creation = c
        /\ row[box[c].owner].status \in {"publishing", "uncertain", "published"}

\* Only containers that exist are asked to be published.
SentExists == \A c \in sent : box[c].status # "absent"

\* The row speaks of its own post.
RowIsTrue ==
    \A p \in Proposals :
        /\ row[p].creation # NoContainer => Exists(row[p].creation, p)
        /\ row[p].status = "published" =>
              /\ row[p].creation # NoContainer
              /\ box[row[p].creation].status = "published"
        /\ row[p].media # NoContainer =>
              /\ row[p].media = row[p].creation
              /\ box[row[p].media].status = "published"

\* No two operations overlap.
OneActive == \A v, w \in Workers : At(v, "idle") \/ At(w, "idle") \/ v = w

\* What a process knows of its row at each step.
StepKnows(w) ==
    LET p == op[w].prop
        c == op[w].creation IN
    /\ ~At(w, "idle") => p \in Proposals
    /\ op[w].pc \in {"record_trigger", "set_creating"} => row[p].status = "planned"
    /\ op[w].pc \in {"create", "store_creation", "set_container_created"} =>
          row[p].status = "creating"
    /\ At(w, "store_creation") => Exists(c, p)
    /\ op[w].pc \in {"set_container_created", "set_publishing", "send_publish",
                     "await_publish", "set_uncertain", "fetch_status",
                     "store_reconcile", "set_failed"} =>
          c \in Containers /\ c = row[p].creation
    /\ At(w, "set_publishing") => row[p].status = "container_created"
    /\ op[w].pc \in {"send_publish", "await_publish", "set_uncertain"} =>
          row[p].status = "publishing"
    /\ At(w, "no_container") => row[p].creation = NoContainer
    /\ At(w, "store_reconcile") =>
          /\ op[w].seen = "ended" => box[c].status = "ended"
          /\ op[w].seen = "published" => box[c].status = "published"
    /\ At(w, "set_failed") => box[c].status = "ended"
    /\ At(w, "finish") =>
          /\ row[p].creation \in Containers
          /\ box[row[p].creation].status = "published"
    /\ op[w].pc \in {"flag_topic", "claim"} =>
          row[p].status \in Retryable \cup {"none"}

\* Together with TypeOK, kept by every step of a serialised run.
OnceInv ==
    /\ LiveIsRecorded
    /\ SentExists
    /\ RowIsTrue
    /\ OneActive
    /\ \A w \in Workers : StepKnows(w)

-----------------------------------------------------------------------------
(* Why posts keep their distance: what OnceInv is strengthened with.        *)

\* Articles hold up articles, growth posts hold up growth posts.
SameLane(p, q) == (p \in Growth) = (q \in Growth)
Flying(p) == row[p].status \in InFlight

\* No post is from the future.
PostsArePast == \A c \in AllPosts : box[c].at \in 0 .. now

\* The publish call returned, or a reconcile ran, after the post appeared.
Answered(p) ==
    \/ row[p].returnedAt # NoTime
    \/ /\ row[p].reconciledAt # NoTime
       /\ row[p].reconciledAt + MaxLag >= box[row[p].creation].at

\* What the gap is measured from is before the post by no more than MaxLag, not
\* before it if its time was read back, and not after now.
BasisIsClose(p) ==
    /\ row[p].remoteAt # NoTime =>
          row[p].media # NoContainer /\ row[p].remoteAt = box[row[p].media].at
    /\ row[p].returnedAt # NoTime =>
          /\ row[p].media # NoContainer
          /\ row[p].returnedAt + MaxLag >= box[row[p].media].at
          /\ row[p].returnedAt <= now
    /\ row[p].reconciledAt <= now
    /\ row[p].status = "published" => Answered(p)

\* p may appear now; said is the human's word on the gap.
Clear(p, said) ==
    \A c \in AllPosts : box[c].owner # p =>
        /\ p \in Articles /\ box[c].owner \in Articles =>
              said \/ now + Slack(c) >= box[c].at + Gap
        /\ p \in Growth /\ box[c].owner \in Growth =>
              Day(box[c].at) < Day(now) \/ AtMidnight(box[c].at)

\* The post of an article whose time may still be read back is the newest of
\* its lane, and followed the others.
IsNewest(p) ==
    \A c, d \in AllPosts :
        p \in Articles /\ box[c].owner = p /\ box[d].owner \in Articles \ {p} =>
            /\ box[d].at <= box[c].at
            /\ Follows(c, d) \/ row[p].override

LaneIsFree(p) == \A q \in Proposals \ {p} : SameLane(p, q) => ~Flying(q)

\* A process on its way to an attempt found its lane free and its post late
\* enough; what it remembers of the media id is what the row says.
AttemptKnows(w) ==
    LET p == op[w].prop IN
    /\ ~At(w, "idle") => op[w].media \in {NoContainer, row[p].media}
    /\ At(w, "finish") => Answered(p)
    /\ /\ op[w].pc \in {"fetch_status", "store_reconcile", "finish"}
       /\ op[w].media # NoContainer
       => Flying(p)
    /\ op[w].pc \in {"claim", "record_trigger"} =>
          LaneIsFree(p) /\ Clear(p, op[w].override)
    /\ At(w, "set_creating") => LaneIsFree(p) /\ Clear(p, row[p].override)
    /\ At(w, "readback") => LaneIsFree(p) /\ IsNewest(p)

LaneInv ==
    /\ PostsArePast
    /\ \A p \in Proposals :
          /\ BasisIsClose(p)
          /\ Flying(p) => LaneIsFree(p) /\ Clear(p, row[p].override) /\ IsNewest(p)
    /\ GapRespected
    /\ OneGrowthPostPerDay
    /\ \A w \in Workers : AttemptKnows(w)

-----------------------------------------------------------------------------
(* What the documentation says and the code does not do.                    *)

\* Past the claim, before the answer.
Publishing(w, p) ==
    /\ op[w].prop = p
    /\ op[w].pc \in {"record_trigger", "set_creating", "create", "store_creation",
                     "set_container_created", "set_publishing", "send_publish",
                     "await_publish"}

\* The docstring of _claim: of concurrent runs only one gets the row.  A second
\* run that finds the row the first has just inserted, still planned, takes it
\* as one that may be retried.
ClaimIsExclusive ==
    \A p \in Proposals : \A v, w \in Workers :
        Publishing(v, p) /\ Publishing(w, p) => v = w

=============================================================================
