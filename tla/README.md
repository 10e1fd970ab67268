# affiliate-ai in TLA+

affiliate-ai plans articles, publishes them to WordPress, changes them after a
human has approved the change, and posts about them on Threads. It is a set of
Python scripts and a few long-lived processes around one SQL database, and it
talks to two services it does not control: WordPress (with a small approval
relay installed in it) and the Threads API.

What is hard in it is always the same thing. **A write to the outside cannot be
taken back and its answer may be lost, and the process may die between any two
commits.** The services answer this with durable rows: the row is committed
before the network is touched, and whoever comes next must conclude from the row
alone what may be done. These modules model those protocols commit by commit,
check them with TLC and prove the central properties with TLAPS.

Paths below are relative to the repository. `service:N` is a line of the service
under discussion.

## 1. Inventory

### 1.1 The parts with a protocol

| Part | State it keeps | Operations | What is hard |
|---|---|---|---|
| **Threads publication** `threads_publication_service.py` | `threads_publications` (one row per proposal: status, creation id, media id, `reconciliation_required`), its attempts | `plan`, `publish`, `reconcile`, `_readback` | a publish request whose answer is lost, or that takes effect after its sender gave up; crashes between any two of its commits; two command lines; a gap and a daily limit measured from times that may be unknown |
| **Operations lock** `operations/lock.py` | one row of `operations_locks` per name: owner token, heartbeat | `acquire`, `heartbeat`, `release` | a stale row seen and swapped in two steps; an owner that was only slow and comes back |
| **Threads worker** `threads_worker_service.py` | nothing durable but the lock; in memory a token and the cycle's budget | `run`, `run_cycle`, `stop` | the heartbeat is sent last, with the cycle's start time; the lock gate asks memory, not the row |
| **WordPress content update** `wordpress_content_update_{preflight,execution,reconciliation}_service.py` | append-only `wordpress_content_update_runs` and reconciliations; the post itself | `classify`, `execute`, `reconcile` | the POST's outcome may be unknown; other people edit the post; the baseline an update may overwrite |
| **Change request and application** `change_request_service.py`, `change_application_service.py` | request status, approvals, `change_applications`, editorial revisions | `propose`, `approve`, `reject`, `reopen_for_retry`, `apply` | sessions of its own for every step, each of which can fail or die, and a retry after each |
| **Publication artifacts** `article_publication_*_service.py` | artifacts and their one-time approval | `prepare`, `persist`, `approve` | the artifact is made of whatever the body is at that moment |
| **Mobile approval** `mobile_approval_service.py` and the relay plugin | session rows here, session rows in WordPress | `issue`, mail, `revoke`, expire, `sync`; at the relay create, decide, list, acknowledge, revoke | two databases, no common transaction, and a person who decides at a third place |
| **Account posts and queue** `threads_auto_publisher.py`, `threads_account_post_service.py`, `social/threads/queue.py`, `threads_queue_control_service.py` | `threads_account_posts` (the ledger), the hold, preference and times of a proposal | `publish_one`, `publish_growth_one`, `refresh`, `reconcile`, `hold`, `release`, `prefer_next`, `set_timing` | a person posts, edits and decides between any two steps of the publisher; a post of our own that looks like theirs |
| **Operations pipeline** `operations_runner_service.py` | `operations_runs` and their step rows, the lock | daily and weekly runs | run row, lock, steps and notification in separate commits; a lock nobody refreshes |
| **Alerts and notifications** `operations_alert_service.py`, `operations_notification_service.py`, `system_health_service.py` | deduplicated alerts, deliveries | `record_and_notify`, `acknowledge`, `resolve`, `sync_alerts`, the daily and weekly mail | a message between two commits |
| **Articles, WordPress draft and publication runs** `draft_generation_run_service.py`, `wordpress_draft_run_service.py`, `wordpress_publication_run_service.py` | article status and text, generation runs, revisions, run rows | `promote`, `revise`, `prepare`, `execute`, `approve`, `cancel` | the pattern of the content update without its guards; a session writes what it read before |
| **Affiliate links** `affiliate_link_target_service.py`, `article_link_substitution_service.py`, `affiliate_target_projection_push_service.py`, the runtime plugin | link targets, mappings, push runs; in WordPress the projection | `create_target`, `disable_target`, `supersede_target`, mappings, `push`, the readiness gate | pushes that overlap or are late; what an acknowledgement proves about a table elsewhere |
| **Click import** `affiliate_click_import_service.py`, the runtime plugin | import runs, `affiliate_outbound_clicks` | `import_next_page` | two cursors that must agree; rows that appear out of order |
| **Synthetic click probe** `affiliate/synthetic_probe.py` | a state file | ten actions of a script | attempts whose outcome only a person or an export can tell |
| **Meta description application** `meta_description_apply_service.py` | a row of `change_applications` | `apply` | a transaction held open across the POST |

### 1.2 How they interact

```
 task scheduler ──> Threads worker ──(holds)──> operations lock <──(holds)── operations pipeline
                         │ one post per lane and cycle                            │ steps
                         v                                                        v
   ledger, queue ─> auto publisher ─┐                                  importers, alerts ──> mail
   command line ────────────────────┴─> Threads publication ──HTTP──> Threads API <── a person

   desk ──────────> change request ──approved──> change application
   phone ─> relay ─> mobile approval ──^             │ revise, prepare, approve, update
                                                     v
   draft run ─> publication run ──────> content update ──HTTP──> WordPress <── editors
                                                     ^               │ runtime plugin
   link targets ──push──HTTP──────────> readiness gate               │ /go/{token}
   clicks <──import──HTTP────────────────────────────────────────────┘
```

Everything on the left shares one database; each arrow down is a call in the same
process, each `HTTP` is a request that can be lost, delayed or answered twice.
The worker's lock protects the worker against other workers only: the scripts
`publish_threads_post.py`, `apply_approved_change.py` and the imports take no
lock.

### 1.3 The parts without one

Plans, facts and sources; keywords and the content queue; the other importers
(Search Console, GA4, commissions, Google Ads); metrics over clicks; SEO and
revenue candidates; growth actions and their digest; the Threads proposal stock,
author pool, generation, observer, insights and learning; the note ledger;
reports and project state; the HTTP API; models and migrations. Each is one
session with one commit per call, or reads rows into a report, or parses text.
`PROJECT.json` lists each with its reason.

### 1.4 What makes each part correct

* Publication: a proposal appears on Threads at most once; the row never says
  less than what readers can see; a row that may be retried has nothing out and
  nothing under way; posts keep the gap and the day limit *as readers see them*,
  but for what the clock of an operation is behind; every row in flight is
  settled in the end.
* Lock and worker: one holder, except where a heartbeat really grew stale; the
  old owner never touches the new one's row; a dead owner is replaced; a worker
  that lost its lock does bounded harm.
* Content update: one unresolved run at a time; the baseline is what WordPress
  has; a recorded outcome is true; a POST overwrites only what was expected.
* Change application: what is sent was approved; a request is sent once; the
  attempt is on record first; `applied` means it reached WordPress.
* Mobile approval: what is recorded was pressed, once; both ends agree when they
  call a session done; a closed session records nothing.
* Publisher and ledger: what the program posted is not taken for the work of a
  person; what a person posted is not posted again, and gets its distance.
* Pipeline: an alert keeps its cooldown, a week is mailed once unless a mail that
  went out was reported as failed, and a run that ended in trouble has said so.
* Article: no two posts with one slug; a public post has a run that knows of it;
  a published article has a public page.
* Links: what the database believes served is served; a live link is gone only
  if a person retired it; a retired link never comes back.
* Clicks: the cursor passes over none; the cursors agree, so the next import may
  begin. Probe: its file says what is true, its evidence stays evidence.

The hazards behind these, each at its line, are the `hazards` of `PROJECT.json`.

## 2. Modules

| Module | Models | Composes |
|---|---|---|
| `ThreadsPublication` | the publication service with the Threads service around it | |
| `PublicationPromise` | what that service promises, without rows, containers or processes | refined by `ThreadsPublication` (`KeepsPromise`) |
| `OperationsLock` | the lock, its clients and the clock | |
| `ThreadsWorker` | the worker's cycles and gated posts | extends `OperationsLock`; implements it (`WorkerUsesLock`) |
| `ContentUpdate` | one WordPress post, its update runs and their reconciliation | |
| `ChangeApplication` | requests, approvals and the application that drives an update | extends `ContentUpdate`; implements it (`ApplicationImplementsUpdate`) |
| `MobileApproval` | review sessions here and at the relay, the phone, the desk | |
| `ThreadsAccount` | the automatic publisher, the ledger of the account's posts and the queue's controls | the publication in fewer steps |
| `OperationsPipeline` | a daily or weekly run, its alerts and its mail | the lock, without heartbeats |
| `ArticlePublication` | one article from plan to public page | draft and publication runs over one post |
| `AffiliateLinks` | targets, mappings, pushes, the plugin's projection, one guarded update | |
| `ClickImport` | the plugin's clicks and the import into the database | |
| `SyntheticProbe` | the probe and the plugin's side of its requests | extends `ClickImport`; implements it (`ProbeImplementsClickImport`) |
| `*_proofs` | theorems about the module of that name; those of the lock are in `ThreadsWorker_proofs`, of the update in `ChangeApplication_proofs`, of the click import in `SyntheticProbe_proofs`, of affiliate links and mobile approval in `WordPressPlugins_proofs` | |
| `MC*` | symmetry sets and constants a `.cfg` cannot express | |

Definitions named `...Unchecked`, `...ByState`, `...Anyway` and the like, marked
*Mutant* in a comment, are wrong variants of the definition below them. They are
used by nothing; substituting one for its original must break a property, and
`PROJECT.json` says which.

### 2.1 ThreadsPublication

`row` is the table with the attempts whose times the gap is measured from; `op`
is the local memory of a process inside `publish` or `reconcile`; `box` is the
containers as Threads knows them, `sent` the publish requests under way, `now`
the true clock. An operation does not read that clock again: it carries on from
the time it was given, which the worker read when its cycle began
(`social/threads/worker.py:290`), with what a monotonic clock has counted since (`_op_now`,
service:940), and that clock stops while the machine sleeps. So a plan is judged
at one of `CycleTimes` and an attempt is stamped with one of `OpNow`, both at most
`MaxLag` behind `now`. The time read back from Threads is the true one.

A step of a process is one `session.commit()` or one request:

| Action | Code |
|---|---|
| `Plan` | `plan()` with `_check_gap`, `_check_growth`, `_check_other_publications` |
| `Claim`, `ClaimRefused` | `_claim()`: insert the row, or take one that is planned or failed |
| `RecordTrigger` | who began it, and a human's gap override, before anything leaves |
| `SetCreating`, `CreateSucceeds`, `CreateFails`, `FlagTopicRejected` | the container is created or not; a rejected topic tag needs a human |
| `StoreCreation`, `SetContainerCreated`, `SetPublishing` | three commits, each of which the next run may find |
| `SendPublish`, `PublishSucceeds`, `PublishUnclear`, `SetUncertain` | the request and its answer: no answer is never a failure |
| `FinishPublished`, `Readback`, `FlagMismatch` | the row is published, then read back |
| `ReconcileStart`, `FetchStatus`, `StoreReconcile`, `SetFailed` | `reconcile()`: the container's status decides |
| `Crash` | the process dies anywhere |
| `ServerPublishes`, `ServerDrops`, `ContainerEnds` | Threads |

Assumed of Threads, because the code assumes it: a container that is `ERROR` or
`EXPIRED` is not published afterwards, a published one stays published, a
container whose id never reached us is published by nobody, and the timestamp it
returns is the time readers saw the post. Approval, staleness, configuration and
the publication window only ever refuse, so they are the choice not to take `Plan`.

`Serialised` says that operations on publications do not overlap. That is how the
worker and a person are meant to use the scripts; nothing enforces it (finding 1),
so it is a constant, TRUE where a property needs it.

### 2.2 OperationsLock and ThreadsWorker

A client reads the clock and the row (`Observe`), inserts or swaps
(`Insert`, `Swap`) or finds that somebody was faster (`InsertLost`, `SwapLost`),
and reads the row once more (`Confirm`). Any time may pass between two of these.
`Heartbeat` writes the time read by `ReadClock`, as `run_cycle` does, and not the
time of the write. `beat` and `since` are history the code does not keep.

A worker adds `BeginCycle`, `Post(lane)`, `EndCycle` (heartbeat, or the discovery
that the row is gone), `Stop` and `Crash`. `stray` counts the posts made while
the row belonged to somebody else. What a post does is `ThreadsPublication`.

### 2.3 ContentUpdate

`runs` is the table, `live` the post's raw content in WordPress, `sent` the POSTs
on their way, `landed` those that took effect, `exec` the memory of each call.
An artifact is identified with the content it was made from. `Raw(c)` is what
WordPress stores when we post `c`: deterministic, because the next classification
compares raw forms and the code relies on that. An edit made by somebody else
has any text but always another raw form.

`Resolve`, `Observe`, `Decline` are `classify()`; `Begin` and `BeginRefused` the
insert with its unique idempotency key; `Send`, `Answered`, `AnsweredUnseen`,
`Unclear` the POST; `ReadBack`, `ReadBackFails`, `MarkSucceeded`, `MarkUnknown`
the end; `Judge`, `Record` the reconciliation; `Abandon` a call that raises or
dies. `OneAtATime` says that calls do not overlap. The execution reads the
blocking runs while classifying and does not look again at the insert, so two
overlapping executions are not protected from each other, and nothing is claimed
for them.

Only the publish mode is modelled. The draft-preserving mode, taxonomies and
featured images of the request are left out.

### 2.4 ChangeApplication

`request`, `revisions`, `apps` are the tables; `apply` is the memory of one
`apply()`. Its steps are the sessions of `_execute`: `Freeze` (read and check the
request), `AppendApplication` (the row, before any write), `Revise` or
`ReviseAlready`, `Persist`, `ApprovePrepared`, `Execute` and `Update` (the calls
of `ContentUpdate`), `UpdateSucceeded`, `UpdateUnknown`, `Compare`, `Compared`,
`AlreadyCompared` (the immediate reconciliation), `Fail` and `Raises`, and
`Finalize`. The run's idempotency key is the request. `Propose`, `Approve`,
`Reject`, `Reopen` and `Patch` are people.

Left out: the gates about the kind of text (so more proposals pass than in the
code), the meta description branch, revisions and updates made by hand, the
read-only `rollback_plan`, `mark_stale`, which nothing calls.

### 2.5 MobileApproval

`row` is the session here, `relay` the session in WordPress, `created` the order in
which the relay stored them, `phone` a decision between the relay's check and its
write, `job` the memory of a local process, `pressed` what people pressed.
`BeginIssue`, `CreateSession` or `CreateFails`, `StoreSession`, `Mail` are
`issue`; `Revoke`, `StoreRevoked` and `Expire` are themselves; `sync` is `Fetch`, then for
each listed decision `Skip`, `SyncExpires`, `SyncRaises`, `SyncStale` or
`SyncAccepts`, `Record`, `Receive`, `Finish`, `Acknowledge`. `Press` and `Decide`
are the phone, `DeskDecides` a decision with the script, `Edit` makes a proposal
unsound, `Passes` lets a session lapse.

Assumptions: one local process at a time (`Processes` has one member: with two, a
revocation between a sync's check and its commit is overwritten by
`synchronized`, and two syncs can record a decision twice; that what is recorded
was pressed, `WasPressed`, is proved for any number of them); the clocks of both
sides agree; only the person with the link decides, and once per page; the
relay sends back the envelope it was given. Hashes, signatures, cookies and
nonces are therefore one identity.

The row state `failed` is left out because no execution enters it: the error
that would is raised by checks that have just passed on the same cached objects.

### 2.6 ThreadsAccount

`proposal` is the row of a proposal with what the queue control writes, `row` its
publication, `posts` the account as Threads shows it, `ledger` the table
`threads_account_posts`, `job` the worker between two commits or requests. A post
of a proposal is identified with the proposal, and a text with the proposal it
duplicates. `Discover` and `List` are the two ways to a listing, `Store` the
session that records it: `Origin` and `NextOrigin` are `_origin_for` and the changes
an origin may make, `Unnecessary` is `resolve_collisions`. `Evaluate` is the queue's verdict, `GiveUp` a
listing that fails, `Reevaluate` and `Preflight` are the rest of `publish_one`; `Claim` to `Finish`, `Lost`,
`ObserveInsights` and `ReconcilePublication` the publication as far as the ledger
can see it. `Hold` to `SetTiming` are the queue control, `PostByHand` and `EditPost` a person.

One worker runs, which the lock sees to (2.2). Manual posts fit one listing and
are younger than `COLLISION_WINDOW`. The window, stale articles and weak signals
of the order only remove or reorder candidates.

### 2.7 OperationsPipeline

`runs` holds the rows of `operations_runs` with their step rows, `alerts` one row per
fingerprint, `weekly` the delivery rows of the weekly report, `proc` the process
of each run. `Begin` commits the run row and reads the clock, `Acquire` or `Conflict`
follow; `RunStep`, `SkipStep` and `PersistStep` are the loop with its dependencies;
`Evaluate`, `Send`, `Mark` are `record_and_notify`, a batch at a time; `SyncHealth`,
`ResolveCleared`, `SyncFails` the system health; then `Release`, `Finalize`,
`NotifyDaily` or `NotifyWeekly`, `SendMail`, `RecordMail`. What the notifier answers
(`told`) and whether the mail went out (`mailed`) are two things: any exception counts as not
delivered (`operations/email.py:269`), also one after the server has taken the mail. `Dies` and `StepsRaise` end a run
early, `Acknowledge` and `Resolve` are people. The clock is `now`, the last time
it was read: an evaluation uses the time its run began.

What an importer does is a free status. Which facts alert is the free choice
of `Observed` and `Health`. Mail is configured; the log notifier never fails.

### 2.8 ArticlePublication

`article`, `gens`, `promo`, `revs`, `drafts`, `pubs` are tables; `posts` is WordPress,
`wire` the requests nobody waits for any more; `proc` is what each session has
read, which it later writes back over whatever is there, because no UPDATE
compares and `SessionLocal` keeps what it has loaded. Operations that contact
nobody are one step, except the two prepares, which look for an active run before
they insert theirs. `PrepareDraft` to `SaveDraft` and `FailDraft` are the draft
run with its lookup by slug; `PreparePub` to `FinishPub` and `FailPub` the
publication run with its read-back; `BeginCancel` and `WriteCancel` the cancellation; `Stops` death.
`overlapped` is history: which kinds of execution met.

A name is a title with its slug (`SlugOf`); posts are looked up by slug, and the runs
carry the name they were prepared with. `Patch` writes text, title and slug at any
status. In WordPress itself only the content of a post is edited.

### 2.9 AffiliateLinks

`target`, `mappings`, `runs` are tables, `push` a push run with its process and its request,
`runtime` the plugin's table, `update` one content update with its artifact's links,
`live` what the public post links to. `ReadTargets`, `StoreRun`, `Post`, then `Succeed`,
`Fail` or `OutcomeUnknown` are `push`; `PlanBatch`, `RefuseBatch`, `CommitBatch`, `LoseRequest` the plugin,
which decides before its transaction. `Acknowledged` is what a reader
may conclude from the newest run, `Eligible` the readiness of a target; `Prepare`,
`Approve`, `Classify`, `Execute`, `Land`, `Settle` the update that the gate lets pass.

One article and one programme; a target is its token, and its URL and hashes
never change. What only refuses (hosts, text checks, drift) is left out. A
COMMIT whose statements all succeeded is assumed to succeed.

### 2.10 ClickImport and SyntheticProbe

A click is its id. `BeginClick` takes the next id, `StoreClick` makes the row visible
or `LoseClick` does not: the reader is redirected in either case. `Preflight` reads the two
cursors, `StoreImport` commits the run, `Fetch` is the signed GET of one page, `Load` the
look at rows that are there already, `Insert` the transaction with its check of
the cursor; `Fail` is any error and any death.

`SyntheticProbe` adds the state file (`probe`), the process that holds the
script's lock (`job`), the requests on their way (`request`) and the synthetic row of
the plugin (`runtime`). `ExecuteActive`, `ExecuteGo` and `ExecuteDisable` write
`*_attempted` before `Send`; `ConfirmActive`, `ConfirmGo`, `ConfirmDisable` are the only answers
that count; `Abandon` is every other answer, none, and death. `Look` is a person
who sees the runtime, `ReconcileActive` and `ReconcileDisable` what they say later;
`CountClicks` and `ReconcileGo` ask the export. `RecordImport` looks for the evidence.
The token is the probe's own; all other tokens resolve.

## 3. Model checking

`tlc -config X.cfg M` with the module named in `PROJECT.json`. State counts are
of distinct states after symmetry.

| Run | Instance | States | Question |
|---|---|---|---|
| `threads_publication` | 2 articles, or 1 beside 2 growth posts of different days; 1 process, 2 containers, gap 2, days of 2, clock 0..3, lag 1, 1 retry | 1,310,164 | no second post; the row is true; gap and day limit hold for readers up to the lag; the promise is kept |
| `threads_settles` | 1 article, 2 overlapping processes, 1 container, fair | 11,883 | every row in flight is settled in the end |
| `threads_worker` | 2 workers, 3 tokens, stale after 1, clock 0..4, 1 lane, fair | 93,449 | exclusion, bounded stray posts, takeover |
| `threads_account` | 1 article, 1 growth and 1 manual post, clock 0..1 | 2,111,357 | ours is known; duplicates and distance |
| `change_application` | 3 contents, 2 operators, 2 requests, 2 runs, 3 applications, 1 PATCH, 1 outside edit | 3,213,752 | approved content, one POST per request, true status; true outcomes and baseline of the update under it |
| `mobile_approval` | 2 sessions, 2 proposals, 1 process, 1 crash, 1 edit, a list of 1 | 3,202,788 | recorded is pressed, once; both ends agree |
| `operations_pipeline` | 2 runs, 3 steps, 5 alerts, 1 death, clock 0..2 | 6,112,313 | cooldown, one weekly mail, trouble is told |
| `article_publication` | 2 sessions, 2 texts, 3 names of 2 slugs, 2 runs of each kind, 2 posts, 1 patch, 1 edit | 4,529,836 | one post per slug; public is recorded; published is public |
| `affiliate_links` | 2 targets, 2 pushes, 1 link, 2 mappings, 1 update | 3,931,280 | eligible is served; live is served; retired stays retired |
| `synthetic_probe` | 4 requests, 2 clicks, 2 imports, pages of 1 and 2 | 3,630,176 | the file is true, its evidence stands, no click is skipped, the cursors agree |
| `threads_claim` | 1 article, 2 overlapping processes | | finding 1 |
| `change_published` | 2 contents, 2 requests, 1 operator | | finding 2 |

The type invariants of `ThreadsPublication`, `OperationsLock`, `ThreadsWorker`,
`ContentUpdate`, `ChangeApplication`, `ThreadsAccount`, `AffiliateLinks` and
`ClickImport` are theorems (section 4) and not run again. Those of
`MobileApproval`, `OperationsPipeline`, `ArticlePublication` and `SyntheticProbe`
are run and proved.

### 3.1 What the properties say

*Publication.* `AtMostOnePost`: no sequence of crashes, lost answers, late
requests, retries and reconciliations shows readers a proposal twice.
`PublishedMeansPosted`, `RetryableMeansNothingOut`: the row errs in neither
direction; in particular when it permits a retry there is no request on its way.
`GapRespected`: two articles appear `Gap` apart unless a human overrode it; only after
a post whose time could not be read back is the distance shorter, by at most `MaxLag`.
`OneGrowthPostPerDay`: the day is the one in which readers see the post; a second one is
possible only if the earlier came within `MaxLag` after midnight, when a clock that is
behind still says yesterday. `InFlightSettles` is
liveness. `KeepsPromise` maps a row to `free`, `unsettled` or `posted` and the
first visible post to `postedAt`, and then requires every step of the service to
be a step of the promise or a stutter; that no second article is begun while the
outcome of one is unknown is part of it.

*Lock and worker.* `ExclusiveUnlessStale`: two holders only if the first one's
heartbeat was older than the limit when the second took the row.
`StrayPostsBounded`: a worker that lost its lock posts at most once more per
lane. `DeadOwnerIsReplaced` is liveness. Proved and not run: a row is swapped
only when it is really stale at that moment (`LiveLockStays`), only the owner
touches it (`OnlyTheOwnerTouches`), stray posts come only after a cycle longer
than the limit (`StrayNeedsStaleness`).

*Content update.* Checked under `change_application`, whose every step is a step
of the update, and proved for `ContentUpdate` by itself. `BaselineTracksLive`:
drift is never reported for what the system did itself. `SuccessIsOurs`,
`ReconciledLanded`: recorded outcomes are true. `OverwritesItsBaseline`: a POST
that lands late still replaces what its run expected to replace. Proved and not
run: an unresolved run blocks the post (`OneOpenRunCorrect`,
`NoNewRunWhileOpenCorrect`).

*Change application.* `PublishedContentWasApproved`: what is sent is some
approved text, word for word (finding 2 is that it need not be *this* request's).
`PostedAtMostOnce` and `AppliedMeansLanded` hold through every retry, reopening
and crash; that the attempt is on record first is proved (`AttemptsAreRecorded`).

*Mobile approval.* `PhoneDecidesOnce`: a recorded decision was pressed in the
session it is recorded for, on its proposal, and no proposal is decided twice by
phone. `SettledIsRecorded`: consumed at the relay implies synchronized here
implies the decision is on the proposal. `ClosedRecordsNothing`: a revoked,
expired, stale or synchronized session records nothing any more.

*Account.* `OursIsKnown`: a post of the program is `manual` in the ledger only
when its publication was settled by reconciliation, which does not learn the
media id (section 5). `DuplicatesAreExplained`: a publication of a text
the ledger knows as a manual post is begun only while the origin is unknown, or
for a proposal whose earlier attempt failed. `ManualKeepsDistance`: no
publication begins within the cooldown of a post its own listing saw.

*Pipeline.* `CooldownKept` relates what two runs marked as notified to when they
began, across acknowledgement, resolution and reopening; runs that worked side by
side are excepted, because nothing stops them. `WeeklyMailedOnce`: a second mail for a day only
after a death between mail and delivery row, a mail that went out and was reported as
failed, or an overlap. `TroubleIsReported`:
an ended run with a failed, partial or skipped step, or with a lost mail about an
alert, has sent its own mail or stored why not.

*Article.* `OnePost`, `LiveIsRecorded`, `PublishedIsLive` hold through lost answers, late
requests, deaths, new runs and changes of the name: posts of the article differ in
slug, so a second one takes a PATCH of the slug (section 5). What they except is two executions of one kind
that meet, for which the code has no guard (section 5).

*Links.* `EligibleIsServed`: what the database concludes from the newest run is
what the plugin does now. `LiveLinkIsServed`: a live link is never unknown to the plugin, and gone
only when a person retired its target. `RetiredStaysRetired`: no late or older
batch makes a disabled entry active.

*Clicks and probe.* `NothingSkipped`: below the cursor every stored row is in the
database, unless it was stored after a larger id had been exported.
`CursorsAgree`: the two cursors part only if two imports overlapped.
`RecordIsTrue`: whenever the state file names a state of the plugin, that is
the plugin's state, also when requests arrive long after they were given up.
`EvidenceStands`: the recorded click stays the probe's own, imported by the
recorded run, and the only one that run could have seen.

### 3.2 Bounds, and why they are enough

* **Two of everything that competes**: two articles, two workers, two operators,
  two requests, two sessions, two pushes, two imports, two runs of each kind. Each
  property relates at most two of them. Three contents and three tokens are
  needed where the third is what both others must differ from (old, new, somebody
  else's; the dead owner's, the slow one's, the new one's).
* **Containers** = attempts: two are what one retry can create. `MaxRetries` 1 is
  the first retry, after which the row is in the state it was in before.
* **Clocks** run one or more ticks past the limit they are compared with: a gap
  of 2 in 0..3 (and so two days of 2), staleness after 1 in 0..4 (take, grow stale, be taken, find out,
  grow stale again), a cooldown of 2 in 0..2. A lag of
  1 is half the gap and half a day: both exceptions occur, and neither covers every case.
* **Runs, applications, requests**: three applications of two requests are a crash
  of each and a retry; four requests of the probe are its three and one retry.
* **`Batch` 1** stands for the relay's `LIMIT 100`, `ExportMax` 2 for the export's
  1000: with two sessions, or two clicks, the list is full.
* **Constraints** (`MCScope`, `ChangeScope` in the `MC` modules) cut what the
  actions would allow, and each says so in its comment. `threads_publication`:
  two articles with a retry until 2, two growth posts until 3, or one of each until
  1, never more. `change_application`: three applications without an outside edit or
  two with one. `operations_pipeline`: alerts one at a time but for the one about
  the runs, runs of one profile. `article_publication`: the promoted text comes
  from the second generation run, a post is not edited besides a change of the name, the name before it
  shares its slug with one of the other two, and nothing is followed once executions
  of any kind have met. `threads_account`: one control of the queue in force at a time.
  `affiliate_links`: one target is retired, and the programme pauses only while an
  update is under way. `synthetic_probe`: imports begin after the first click was
  answered and not while the script waits for a click that has not begun, one
  request at a time is late after it was given up, one click is another
  reader's, and imports that overlap do not fail as well.
* In `threads_settles` the processes overlap (`Serialised` FALSE), the harder case;
  time stands still, because no settling step reads the clock.

The bounded clocks, rows, containers and sessions let the systems run out of
steps, so only `threads_worker` checks deadlock.

### 3.3 Fairness

`FairSpec` (publication). Weak fairness of a process's publishing steps: a
process that is not killed runs on. Strong fairness of starting and of each step
of a reconciliation of each row: `--reconcile` is run again and again and is not
killed *every* time at the same place (with weak fairness it may be, and nothing
would ever be settled). Weak fairness of `ContainerEnds`: Threads expires
containers that nobody publishes. Nothing is assumed of requests, which may be
dropped for ever, and nothing of `Plan`.

`FairWorkerSpec`. Strong fairness of `Observe` and `Acquire`: the scheduler keeps
starting workers (`plan_threads_worker_schedule.py`) and not every start dies
between two steps. Weak fairness of beginning and ending a cycle, and of time.
No fairness of `Stop`, `Post` or `Crash`. `DeadOwnerIsReplaced` is claimed only
while the bounded clock leaves room for the row to become stale.

The other modules state no fairness: nothing in the code keeps calling them, and
the two violations are states.

## 4. Proofs

`tlapm M_proofs.tla`. Every theorem below holds for every value of the constants
that satisfies the `ASSUME`s of its module, so for any number of proposals,
containers, processes, contents, requests, runs, crashes and retries.

| Module | Theorems | Under |
|---|---|---|
| `ThreadsPublication_proofs` | `TypeCorrect` | |
| | `OnceInvariant`, `NeverPublishedTwice`, `RetryIsSafe`, `PublishedIsPosted`, `PublishedStays`, `LaneInvariant`, `GapKept`, `GrowthOncePerDay`, `KeepsPromiseCorrect` | `Serialised` |
| `ThreadsWorker_proofs` | of the lock: `LockTypeCorrect`, `LockInvariant`, `LockIsExclusive`, `LiveLockStays`, `OnlyTheOwnerTouches` | |
| | of the worker: `WorkerUsesLock`, `WorkerTypeCorrect`, `StrayPostsAreFew`, `StrayNeedsStaleness` | |
| `ChangeApplication_proofs` | of the update: `ContentTypeCorrect`, `ContentInvariant` | |
| | `OneOpenRunCorrect`, `BaselineTracksLiveCorrect`, `SuccessIsOursCorrect`, `ReconciledLandedCorrect`, `NoNewRunWhileOpenCorrect`, `OverwritesItsBaselineCorrect` | `OneAtATime` |
| | of the application: `EverythingHolds`, `ChangeTypeCorrect`, `ApplicationImplementsUpdate`, `ChangeInvariant`, `OnlyApprovedContent`, `AttemptsAreRecorded`, `NeverPostedTwice` | |
| | `AppliedHasLanded` | `OneAtATime` |
| `ThreadsAccount_proofs` | `AccountTypeCorrect`, `AccountInvariant`, `OursIsKnownCorrect`, `DuplicatesAreExplainedCorrect`, `ManualKeepsDistanceCorrect` | |
| `OperationsPipeline_proofs` | `PipelineInvariant`, `PipelineTypeCorrect`, `CooldownKeptCorrect`, `WeeklyMailedOnceCorrect`, `TroubleIsReportedCorrect` | |
| `ArticlePublication_proofs` | `ArticleInvariant`, `ArticleTypeCorrect`, `OnePostCorrect`, `LiveIsRecordedCorrect`, `PublishedIsLiveCorrect` | |
| `WordPressPlugins_proofs` | of the links: `AffiliateTypeCorrect`, `AffiliateInvariant`, `EligibleIsServedCorrect`, `LiveLinkIsServedCorrect`, `RetiredStaysRetiredCorrect` | |
| | of mobile approval: `OverlapInvariant`, `MobileTypeCorrect`, `WasPressedCorrect` | |
| | `MobileInvariant`, `PhoneDecidesOnceCorrect`, `SettledIsRecordedCorrect`, `ClosedRecordsNothingCorrect` | `OneProcess` |
| `SyntheticProbe_proofs` | of the import: `ClickInvariant`, `CursorsAgreeOfImports` | |
| | of the probe: `ProbeImplementsClickImport`, `NothingSkippedCorrect`, `CursorsAgreeCorrect`, `ProbeInvariant`, `ProbeTypeCorrect`, `RecordIsTrueCorrect`, `EvidenceStandsCorrect` | |

`Serialised` and `OneAtATime` are constants of their modules: the worker's lock, or
one person at one terminal, keeps executions apart (2.1, 2.3). `OneProcess` says
that any two members of `Processes` are the same; without it the three properties
proved from it are false (2.5). Nothing of the kind is assumed of crashes, lost
answers, late requests, the phone, the desk or the clock.

**Why an invariant of its own is needed, each time.**

*Publication.* "No two posts of one proposal" says nothing of the next publish
request. `OnceInv` says where a post can still come from: a container that is
published or has a request under way is the one its proposal's row names
(`LiveIsRecorded`), the request is for a container that exists (`SentExists`), the row's
status is then one from which no attempt starts (`RowIsTrue`), one operation is
active (`OneActive`), and what it holds in memory is what the row holds
(`StepKnows`). A new attempt needs a planned or failed row, so nothing is out;
an old container's id is overwritten only by such an attempt.

*Publication, in time.* The gap is measured from what rows say, and rows are
stamped by clocks that are behind. `LaneInv` relates the two: what a row says is the real
time of the post if it was read back, and else at most `MaxLag` before it (`BasisIsClose`); a
row in flight has its lane to itself, may appear now and at any later time (`LaneIsFree`,
`Clear`), and its post is the newest of its lane (`IsNewest`), so that reading its time
back, which takes the lag away, falsifies nothing. With
`OnceInv` it also gives `KeepsPromiseCorrect`: every step of the service maps to a
step of `PublicationPromise` or to a stutter.

*Lock.* Exclusion under pauses of any length needs history. `TokensDiffer`: a
token has one client. `BeatIsKept`: the row holds its owner's last heartbeat.
`StaleBefore`: whoever believes it has the row and has not was stale when the row's present
owner took it. `OwnerTookLast`: that owner took it after everybody else.
`ClocksPast`: remembered times are not in the future, which is why a stale
observation stays true until a heartbeat falsifies the swap's condition.

*Worker.* The worker implements the lock (`WorkerUsesLock`), so `LockInv` holds in it.
`StrayInv` adds that stray posts belong to the cycle under way, at most one
for each lane that cycle has used.

*Content update.* "One unresolved run" is not inductive, because a call between
classification and insert is about to add one. `ContentInv`: only the newest run
can be open (`LastIsOpen`), only one call is under way (`Alone`), it knows that
nothing is open and what the baseline is (`CallKnows`), a POST under way belongs
to an open run (`PostsAreOpen`), and the post is what the last landed run wrote or the last
run expected (`LiveIsLast`, `PostedIsBaseline`). `SucceededRows` and `CallRows`
hold also when calls overlap, and so does `ContentInv` itself, which promises the
rest of it only under `OneAtATime`.

*Change application.* `ApplicationImplementsUpdate` is step simulation: every action
leaves the update's variables alone or is an action of `ContentUpdate`. `ContentInv` therefore
carries over. `ChangeInv` adds what each step of an application knows of its request, row,
artifact and run (`ApplyKnows`), that approvals were given (`ApprovalsExist`), that
after the first revision the body is approved text (`BodyIsApproved`) and
that every run has a request as its key (`RunsAreKeyed`).

*Account.* What the ledger says of a post is decided from a listing that is
already old. `AccountInv`: what is listed is public (`ListedIsPublic`), a container that
posted belongs to a row that was sent (`BoxTells`), the job holds what its row holds
(`JobKnows`), an entry of ours is not manual unless its row has lost the id (`OursIsKnown`,
`LedgerKnows`), and after the second evaluation the listed manual posts are
known and cooled (`JobSaw`). The two action properties follow from it step by step.

*Links.* `AffiliateInv`: what an artifact links to are mapping rows (`LinksAreRows`); an
entry of the plugin is a target that exists, and disabled only if retired (`RuntimeTells`); a
request, a plan and a success say what the plugin had or has (`PushTells`); linked
targets of an update under way are known to the plugin (`LinksTell`), and so are
live ones (`LiveTells`). A newest run that succeeded with an active entry for a
target that is still active leaves no state but served.

*Clicks.* "Nothing below the cursor is missing" needs what an import knows.
`ClickInv`: what is below the cursor an import starts from is settled (`BehindIsIn`), what is
between it and its next place is on its page (`PageIsIn`, from the page being a beginning
of what is above the cursor), the export has never gone past a stored row
(`ExportedIsStored`), and no cursor is past the export (`ImportBounds`,
`ReplicatedIsExported`). `CursorInv`: while nothing has overlapped, an import under way
is the only one and the newest row, so it wrote what both cursors are read from. `ProbeImplementsClickImport` is step simulation, and
carries both over to `SyntheticProbe`.

*Probe.* A request may arrive long after it was given up. `ProbeInv`: nothing is sent
before the first attempt and nothing is retired before the import was confirmed
(`RequestsFollow`), what the plugin decided fits its request and what it answered is
true for good (`AnswersAreTrue`), only a request to retire retires
(`RetiredByRequest`), and a row a person saw is still there (`SeenIsPast`).
`EvidenceInv`: pages and the replica hold stored clicks, and rows of the three tables
never change.

*Pipeline.* The exception "runs that worked side by side" has to be known to the runs:
`OverlapsNoted`. Then what a run is about to mark is a cooldown after every run that met
nobody (`PendingIsApart`, from `LastIsKept`: the alert remembers them), and so is what
is marked (`MarksAreApart`); a run that waits has marked nothing (`WaitersAreFresh`).
`MailOrder` and `SendersMet`: a mail that was reported as sent is followed by its delivery
row, and a second sender for a day has met the first; so two mails of one day that
were both reported as sent met or lost a row (`ToldOnce`). `FailuresTell`: a lost mail is in the monitoring step's row and
then in the run's.

*Article.* `Related` says what rows, sessions and WordPress have to do with each other
as long as executions of a kind have not met: one draft execution at a time, on an article
without a post, and none between lookup and POST while a lost POST may land (`DraftsAlone`); the publication run of a session is in the
status its next step takes for granted, and a public post has the run that
published it (`PubsAlone`); a published article is finished (`Finished`). `SlugsApart` carries `OnePost`: the slug of a run is free
from its lookup until its POST made the post, and as long as a lost one may still make it.

*Mobile approval.* Two databases, no common transaction: each is known to the other only
through what can no longer change. `RelayTells`: a decision at the relay was pressed and
is the last that can be, because no other one is between the relay's check and its write.
`RowTells`: a row that took its decision has its record, and a consumed session its
synchronized row. `RecordsTell`: a record by phone is the decision its session holds at
the relay, the only one by phone of its proposal, and the proposal waits no more; that is
why a sync after a crash finds it blocked. `Knows`: what a process takes for granted at each
step, of its session and of the rest of its list. `OverlapInv` is the part of this
that no other process can take away: rows keep their proposal, the relay its
decision, and no two processes issue one id (`Steady`, `IssuesApart`).

**Model-checked only.** Liveness: `InFlightSettles` and `DeadOwnerIsReplaced`, which rest on
fairness and on what is enabled, and this prover reasons about neither. Every
other property a passing run checks is a theorem. The two violations are
not theorems of anything: TLC shows an execution.
## 5. Where the code and its documents differ

Two runs are expected to find a violation. Each states a sentence of a document,
docstring or comment; `PROJECT.json` quotes it.

1. `threads_claim`. `_claim` promises that of two concurrent runs only one gets
   the row. Both runs plan a proposal that has none; the second's `_claim` comes
   after the first's commit, finds the planned row the first has just inserted and
   takes it as one that may be retried. Both go on to publish.
2. `change_published`. An approval "is bound to one exact proposal". After a
   revision that was already applied, the artifact is made of whatever the body is, approved by
   the application itself and posted in the request's name.

Met while modelling, and not runs of their own. The models behave as the code
does in each of these, and the properties except what they must.

*Publication, worker, account.*

* `docs/operations/threads-worker.md:167` says that `--reconcile` ends the wait for
  reconciliation. Nothing resets `reconciliation_required`, and `reconcile`
  returns at once for a published row with a media id (service:590): one differing read-back blocks
  the article lane for good.
* `docs/operations/threads-manual-posts.md:7,35` says that our own post is never taken for a
  manual one. A publication settled by reconciliation is published without a
  media id (service:622; `_readback` returns at once without one, service:680), so
  the next listing finds a post nobody knows, records it as manual, holds both
  lanes up and retires proposals like it. `OursIsKnown` excepts exactly this.
* "The worker has its lock" is a condition of an automatic post; the gate asks a
  remembered token. `StrayPostsBounded` says how far it can go wrong.
* The documented gap of 120 minutes and the one growth post of a day can be missed by
  what a cycle's clock is behind: what ran earlier in the cycle, and the time the
  machine slept (`worker.py:290`, service:940). For the gap the read-back must
  have failed as well; for the day the publication must fall just after midnight, which the
  window of 07 to 23 hours, not modelled, makes rare.
* `resolve_collisions` does not touch a proposal that has a failed row, so a text
  a person has posted meanwhile may be tried again. `_controllable` refuses the
  same proposals, although they are candidates. `publish()` does not look at hold,
  cooldown or times again.

* `threads-autopublish.md:75` says that an uncertain publication holds every other
  proposal up; growth rows do not hold articles up (service:794). `PublicationPromise`
  states what the code does.
* `lock.py` promises never to take a lock silently; a takeover of a row that was not
  stale when observed and is when swapped is not reported as one (`reclaimed_stale`).

*Content update, changes, articles.*

* A reconciled run "blocks no new update", but its raw content never becomes the
  baseline, so every later update is refused as drift.
* Two executions of a content update classify before either inserts its row
  (execution service:254); nothing is claimed for them.
* `_finalize` writes the request's status unconditionally: a request rejected
  meanwhile becomes applied, a transition the model's table does not have.
* A request that failed before its POST can often not be retried, because its own
  revision changed the body and made it stale. `reopen_for_retry` asks for a
  reconciliation only if the last application row has a run id, which a crash leaves empty.
* A→B→C and back to B: the content has a revision, `already_applied` is ignored, the
  body stays C.
* `meta_description_apply_service.py:133` holds an uncommitted row across the POST, and a
  reopened request meets its own unique key.
* After a draft's POST whose answer was lost, a PATCH of the slug
  (`article_service.py:79-97`) hides the post from the lookup of the next draft run,
  which goes by that run's slug, and the article has two posts.
* Two executions of one draft run that overlap create two posts
  (`wordpress_draft_run_service.py:225` reads, then writes). A second execution of a
  publication run takes it from succeeded back to running. A cancellation that
  races an execution leaves a cancelled run with a public post. A late end of
  a draft run writes its post id over the article's. Finalisation makes an
  article archived meanwhile published again. Back in review after a rewrite an
  article has no way to its post. Draft runs that stay running have no
  reconciliation.

*Mobile approval.*

* *Collection*. "A decision is collected by the next sync" holds if nothing fails.
  It does not hold after one crash: a row left in
  `approved_remote` (the commit before `synchronized`) that lapses before
  the next sync can neither expire nor proceed, `_transition` raises, and this
  sync and each later one ends there, before the decisions listed behind it. It
  also fails without a crash: decisions of closed sessions are skipped and never
  acknowledged, the relay lists the oldest hundred, and a hundred of them hide
  every newer one. `SyncRaises`, `Skip` and `Batch` model both, so no such liveness
  property is claimed. Related: a crash between the commit of the decision and that of the row leaves a row
  that can still be revoked although its decision was recorded; a decision at the
  desk between a sync's check and its commit is overwritten by the phone's.
* `models/mobile_approval.py:88` promises a `failed` row that can be retried; no
  execution enters that state and `pending` may not move to it.

*Pipeline.*

* A run that meets a held lock returns before its notification (runner:231), so
  the weekly mail that is to be sent in any case is not. For the same reason the
  monitoring never sees a lock conflict.
* One weekly mail per period (notification service:187) assumes that a mail reported as
  failed has not gone out. An SMTP error after the server took the mail
  (`operations/email.py:269`) is stored as failed without its key, and the next
  run mails the week again.
* A run row stays running after a crash; nothing finishes it. The lock has no
  heartbeat: a run longer than the stale time has company.
* An alert that its cooldown suppresses is still in the mail: `_notifiable_alerts`
  (notification service:490) asks only whether it was ever notified. The test that
  says otherwise (`tests/integration/test_operations_notification_service.py:199`) sets up an alert that
  never was.
* The log notifier always delivers, so an alert of the system health whose mail
  failed counts as notified and is not sent again for `renotify_after_hours`.

*Links, clicks, probe.*

* The gate before an update (execution service:194) is a look, not a lock: a push or a
  retirement may come between it and the POST. The readiness module says so, and
  `LiveLinkIsServed` says what remains true.
* The plugin ignores the result of COMMIT (plugin:393) and answers 200. The model
  takes such a COMMIT as successful; a failed one would break `EligibleIsServed`.
* Command line and pipeline import clicks without a common lock
  (click import:124, runner:419). If two overlap and the newer run commits a smaller
  page before the older one, the run cursor and the replica cursor differ for
  ever, every later import is refused, and nothing reconciles them. This is what
  `CursorsAgree` excepts.
* A click stored after a larger id was exported is never imported; this is what
  `NothingSkipped` excepts.
* The probe has dead ends: a click that arrives after `--reconcile-go` found none makes
  two, and with none, two, or an import that another one has overtaken
  (synthetic probe:911) `--record-import` refuses for ever; `--disable` then never comes, and the
  synthetic target stays active. `--reconcile-go` reads the first 1000 clicks
  only. A target that was reported absent too early may be disabled while the
  file says `disable_prepared`.

## 6. Not modelled

*Meta description application* is the one protocol of 1.1 without a module. It is a second way
from an approved request to WordPress: it POSTs inside an open transaction, so a
crash after the POST loses the row, and its key (`c10-meta-{id}-v{version}`) is unique,
so a request that failed and was reopened meets its own key and raises.

Within modelled parts: the account snapshot, insights and growth proposals of a
worker's cycle; the draft-preserving content update, taxonomies and featured
images; how proposals are written and drawn from the stock; missing posts and
classification by hand in the ledger; several articles and programmes in
`ArticlePublication` and `AffiliateLinks`. Executions that overlap are followed
only as far as something is promised for them.

The parts of 1.3 have no interleaving to check: one session, one commit, no
network write. The relay's cookies, nonces and headers, the rendering and
parsing of HTML, prompts, statistics and reports are not state this project's
properties tell apart.

Threads and WordPress are environments: what is assumed of them is in 2.1 and 2.3.

## 7. Plan

Written and checked, in this order: publication and its promise, lock, worker,
content update, change application, mobile approval, operations pipeline, article
publication, the account's ledger and queue, affiliate links, click import and
probe. What follows, by weight:

1. Proofs: an abstract statement of mobile approval (a proposal and its one decision
   by phone) that `MobileApproval` refines; what of publication holds without
   `Serialised`, and of an update without `OneAtATime`.
2. Meta descriptions in `ChangeApplication`, as the second way to WordPress.
3. A composition of `ThreadsWorker` and `ThreadsPublication`, in which `Serialised` is
   no longer assumed but follows from the lock while no heartbeat is stale.
4. The link from a published post in `ArticlePublication` to the first baseline of
   `ContentUpdate`, and from `AffiliateLinks`' update to the same module.
5. The proposal stock and the growth proposals in front of `ThreadsAccount`.
