-------------------------- MODULE OperationsPipeline --------------------------
(***************************************************************************)
(* The daily and weekly operations run: OperationsRunner.execute with the  *)
(* lock it takes, its steps, the monitoring step that records alerts and   *)
(* notifies (OperationsMonitoringService, OperationsAlertService,          *)
(* SystemHealthService) and the mail at the end (OperationsNotification-   *)
(* Service).  Every commit and every message to a notifier is a step; a    *)
(* run may die between any two of them, and runs may overlap, because the  *)
(* lock is never refreshed while the steps run.                            *)
(*                                                                         *)
(* What the importers do is left out: a step ends with any status.  Which  *)
(* facts alert (freshness, article health, monetisation, candidates) is    *)
(* the free choice of Observed alerts; texts and severities are left out   *)
(* but for which alerts are worth notifying.  Mail is configured, and the  *)
(* log notifier, which is always among the notifiers, never fails.         *)
(***************************************************************************)
EXTENDS Integers, Sequences, FiniteSets

CONSTANTS
    StepList,      \* DAILY_STEPS, which are the WEEKLY_STEPS too
    Needs,         \* STEP_DEPENDENCIES: step -> steps that must succeed
    Monitoring,    \* evaluate_monitoring, the last step
    Automation,    \* the alert about consecutive failures
    Observed,      \* alerts about what the database and the sites show
    Health,        \* alerts of the system health (source c10_health)
    Notable,       \* alerts at or above notify_min_severity
    Stale,         \* stale_lock_after_minutes, in ticks
    Cooldown,      \* cooldown_hours, in ticks
    Renotify,      \* renotify_after_hours of the system health, in ticks
    DayLength,     \* ticks in a day of the reporting time zone
    Limit,         \* max_consecutive_failures
    Handled,       \* bound: the alerts people look at
    MaxRuns,       \* bound: rows of operations_runs
    MaxDead,       \* bound: runs that die or raise
    MaxTime        \* bound: the clock stops here

StepNames == {StepList[k] : k \in DOMAIN StepList}
Alerts == StepNames \cup {Automation} \cup Observed \cup Health

ASSUME PipelineAssumption ==
    /\ StepList \in Seq(StepNames)
    /\ StepList # << >> /\ StepList[Len(StepList)] = Monitoring
    /\ Needs \in [StepNames -> SUBSET (StepNames \ {Monitoring})]
    /\ Notable \subseteq Alerts /\ Handled \subseteq Alerts
    /\ {Stale, Cooldown, Renotify, MaxRuns, MaxDead, MaxTime} \subseteq Nat
    /\ {DayLength, Limit} \subseteq Nat \ {0}

VARIABLES
    now,       \* the clock, when it was last read
    runs,      \* operations_runs with their step rows, oldest first
    lock,      \* the row of operations_locks
    alerts,    \* operations_alerts, one per fingerprint
    weekly,    \* days whose weekly report has a delivery row that says sent
    proc       \* per run: the process that executes it

vars == <<now, runs, lock, alerts, weekly, proc>>

-----------------------------------------------------------------------------
NoTime == -1
NoRun == 0

RunIds == 1 .. Len(runs)

NoAlert == [status |-> "none", last |-> NoTime, run |-> NoRun]

\* pending, syncing, present and failures are what the process holds in memory;
\* told is what the notifier answered about the mail; the rest is history:
\* alerts marked as notified, mail that went out, delivery row stored, runs met
\* at work.
NewProc ==
    [pc |-> "acquire", k |-> 1, pending |-> {}, syncing |-> FALSE,
     present |-> {}, failures |-> FALSE,
     told |-> FALSE,
     marked |-> {}, mailed |-> FALSE, stored |-> FALSE, met |-> {}]

Init ==
    /\ now = 0
    /\ runs = << >>
    /\ lock = [owner |-> NoRun, at |-> NoTime]
    /\ alerts = [a \in Alerts |-> NoAlert]
    /\ weekly = {}
    /\ proc = << >>

At(i, pc) == proc[i].pc = pc
Goto(i, pc) == proc' = [proc EXCEPT ![i].pc = pc]

Working(i) ==
    proc[i].pc \in {"step", "send", "mark", "health", "resolve", "persist", "release"}
Reporting(i) == proc[i].pc \in {"finalize", "notify", "send_mail", "record_mail"}
Alive(i) == At(i, "acquire") \/ Working(i) \/ Reporting(i)

Started(i) == runs[i].start
Day(i) == Started(i) \div DayLength

-----------------------------------------------------------------------------
(* execute(): the run row, then the lock.                                   *)

\* A run reads the clock here, once, and no other step does.
Begin(profile, t) ==
    /\ Len(runs) < MaxRuns
    /\ t >= now
    /\ now' = t
    /\ runs' = Append(runs, [profile |-> profile, status |-> "running", start |-> t,
                             rows |-> [s \in StepNames |-> "none"]])
    /\ proc' = Append(proc, NewProc)
    /\ UNCHANGED <<lock, alerts, weekly>>

\* Released, or its heartbeat is older than the stale time, seen from the time
\* at which this run was started.
MayTake(i) == lock.owner = NoRun \/ lock.at < Started(i) - Stale

\* acquire(): OperationsLock has its steps; the swap decides.
Acquire(i) ==
    /\ At(i, "acquire")
    /\ MayTake(i)
    /\ lock' = [owner |-> i, at |-> Started(i)]
    /\ LET others == {j \in RunIds : Working(j) \/ Reporting(j)} IN
       proc' = [j \in RunIds |->
                  IF j = i THEN [proc[i] EXCEPT !.pc = "step", !.met = others]
                  ELSE IF j \in others THEN [proc[j] EXCEPT !.met = @ \cup {i}]
                  ELSE proc[j]]
    /\ UNCHANGED <<now, runs, alerts, weekly>>

\* Mutant: the run that found the lock held ends with a status of its own.
ConflictBlocked(i) ==
    /\ At(i, "acquire")
    /\ ~MayTake(i)
    /\ runs' = [runs EXCEPT ![i].status = "blocked"]
    /\ Goto(i, "ended")
    /\ UNCHANGED <<now, lock, alerts, weekly>>

\* The lock is held: the run is skipped and returns before the notification.
Conflict(i) ==
    /\ At(i, "acquire")
    /\ ~MayTake(i)
    /\ runs' = [runs EXCEPT ![i].status = "skipped"]
    /\ Goto(i, "ended")
    /\ UNCHANGED <<now, lock, alerts, weekly>>

-----------------------------------------------------------------------------
(* _run_steps: each step's row is committed before the next step begins.    *)

Step(i) == StepList[proc[i].k]
StepsWith(i, status) == {s \in StepNames : runs[i].rows[s] = status}
Missing(i) == Needs[Step(i)] \ StepsWith(i, "succeeded")

PersistStep(i, status) ==
    /\ runs' = [runs EXCEPT ![i].rows[Step(i)] = status]
    /\ proc' = [proc EXCEPT ![i].k = @ + 1,
                            ![i].pc = IF Step(i) = Monitoring THEN "release" ELSE "step"]

\* A step whose dependency did not succeed is skipped.
SkipStep(i) ==
    /\ At(i, "step")
    /\ Missing(i) # {}
    /\ PersistStep(i, "skipped")
    /\ UNCHANGED <<now, lock, alerts, weekly>>

\* A handler returns, or raises and counts as failed.  One that skips counts
\* like one that is partial.
RunStep(i) ==
    /\ At(i, "step")
    /\ Missing(i) = {}
    /\ Step(i) # Monitoring
    /\ \E status \in {"succeeded", "partial", "failed"} : PersistStep(i, status)
    /\ UNCHANGED <<now, lock, alerts, weekly>>

-----------------------------------------------------------------------------
(* The monitoring step: record the alerts, commit, notify, mark, commit;    *)
(* once for the alerts of the run and once for the system health.           *)

\* The runs after the newest other run that succeeded.
ConsecutiveFailures(i) ==
    {j \in RunIds \ {i} :
        \A h \in RunIds \ {i} : h >= j => runs[h].status # "succeeded"}

\* What evaluate() drafts from the runs themselves.
Drafts(i) ==
    StepsWith(i, "failed")
      \cup (IF Cardinality(ConsecutiveFailures(i)) >= Limit THEN {Automation} ELSE {})

CooldownOf(a) == IF a \in Health THEN Renotify ELSE Cooldown

\* Mutant: an alert that was resolved and comes back is notified like a new one.
WorthReopened(a, t) ==
    /\ a \in Notable
    /\ ~(a \in Health /\ alerts[a].status = "acknowledged")
    /\ \/ alerts[a].last = NoTime
       \/ alerts[a].status = "resolved"
       \/ t - alerts[a].last >= CooldownOf(a)

\* _should_notify.
Worth(a, t) ==
    /\ a \in Notable
    /\ ~(a \in Health /\ alerts[a].status = "acknowledged")
    /\ alerts[a].last = NoTime \/ t - alerts[a].last >= CooldownOf(a)

\* An alert that is seen is opened, or counted again; a resolved one opens.
Seen(a, run) ==
    [alerts[a] EXCEPT !.status = IF @ \in {"none", "resolved"} THEN "open" ELSE @,
                      !.run = run]

\* record_and_notify up to its first commit.
RecordAlerts(i, drafts, run) ==
    /\ alerts' = [a \in Alerts |-> IF a \in drafts THEN Seen(a, run) ELSE alerts[a]]
    /\ proc' = [proc EXCEPT ![i].pc = "send", ![i].syncing = run = NoRun,
                            ![i].present = drafts,
                            ![i].pending = {a \in drafts : Worth(a, Started(i))}]

Evaluate(i) ==
    /\ At(i, "step")
    /\ Step(i) = Monitoring
    /\ \E more \in SUBSET Observed : RecordAlerts(i, Drafts(i) \cup more, i)
    /\ UNCHANGED <<now, runs, lock, weekly>>

\* Every notifier is tried for every pending alert, and some mails may fail.
\* Only the failures among the alerts of the run are counted.
Send(i) ==
    /\ At(i, "send")
    /\ \E fail \in {f \in BOOLEAN : f => proc[i].pending # {} /\ ~proc[i].syncing} :
         proc' = [proc EXCEPT ![i].pc = "mark",
                              ![i].failures = @ \/ fail]
    /\ UNCHANGED <<now, runs, lock, alerts, weekly>>

\* The second commit: last_notified_at is the start of the run.  The log has
\* delivered the alert whatever the mail did.
Mark(i) ==
    /\ At(i, "mark")
    /\ alerts' = [a \in Alerts |->
                    IF a \in proc[i].pending THEN [alerts[a] EXCEPT !.last = Started(i)]
                                             ELSE alerts[a]]
    /\ proc' = [proc EXCEPT ![i].pc = IF proc[i].syncing THEN "resolve" ELSE "health",
                            ![i].marked = @ \cup proc[i].pending,
                            ![i].pending = {}]
    /\ UNCHANGED <<now, runs, lock, weekly>>

\* sync_alerts: the problems there are now.  Their rows belong to no run, so
\* the mail of the run leaves them out.
SyncHealth(i) ==
    /\ At(i, "health")
    /\ \E present \in SUBSET Health : RecordAlerts(i, present, NoRun)
    /\ UNCHANGED <<now, runs, lock, weekly>>

\* Health alerts whose problem is gone are resolved.
ResolveCleared(i) ==
    /\ At(i, "resolve")
    /\ alerts' = [a \in Alerts |->
                    IF a \in Health \ proc[i].present /\ alerts[a].status # "none"
                    THEN [alerts[a] EXCEPT !.status = "resolved"] ELSE alerts[a]]
    /\ proc' = [proc EXCEPT ![i].pc = "persist", ![i].present = {}]
    /\ UNCHANGED <<now, runs, lock, weekly>>

\* The system health raised: the exception is swallowed.
SyncFails(i) ==
    /\ At(i, "health") \/ At(i, "resolve") \/ (At(i, "mark") /\ proc[i].syncing)
    /\ proc' = [proc EXCEPT ![i].pc = "persist", ![i].present = {}, ![i].pending = {}]
    /\ UNCHANGED <<now, runs, lock, alerts, weekly>>

\* Mutant: the step succeeds whatever became of the notifications.
MonitoringEndsWell(i) ==
    /\ At(i, "persist")
    /\ PersistStep(i, "succeeded")
    /\ UNCHANGED <<now, lock, alerts, weekly>>

MonitoringEnds(i) ==
    /\ At(i, "persist")
    /\ PersistStep(i, IF proc[i].failures THEN "partial" ELSE "succeeded")
    /\ UNCHANGED <<now, lock, alerts, weekly>>

\* A commit of record_and_notify failed: the step is one that failed.
MonitoringRaises(i) ==
    /\ \/ At(i, "step") /\ Step(i) = Monitoring
       \/ At(i, "mark") /\ ~proc[i].syncing
    /\ PersistStep(i, "failed")
    /\ UNCHANGED <<now, lock, alerts, weekly>>

-----------------------------------------------------------------------------
(* The end of execute(): release, finalize, notify.                         *)

\* release(): only of the run's own row.
Unlocked(i) == IF lock.owner = i THEN [lock EXCEPT !.owner = NoRun] ELSE lock

Release(i) ==
    /\ At(i, "release")
    /\ lock' = Unlocked(i)
    /\ Goto(i, "finalize")
    /\ UNCHANGED <<now, runs, alerts, weekly>>

\* _finalize.
Verdict(i) ==
    IF StepsWith(i, "failed") # {} /\ StepsWith(i, "succeeded") = {} THEN "failed"
    ELSE IF StepsWith(i, "succeeded") = StepNames THEN "succeeded"
    ELSE "partial"

Finalize(i) ==
    /\ At(i, "finalize")
    /\ runs' = [runs EXCEPT ![i].status = Verdict(i)]
    /\ Goto(i, "notify")
    /\ UNCHANGED <<now, lock, alerts, weekly>>

Unhealthy(i) == runs[i].status \in {"failed", "partial"}

\* _notifiable_alerts.
Notifiable(i) ==
    {a \in Notable : alerts[a].run = i /\ alerts[a].status = "open" /\ alerts[a].last # NoTime}

\* send_daily_incident: nothing to say on a healthy day.  The dedupe key has
\* the run in it, so no other run can have used it.
NotifyDaily(i) ==
    /\ At(i, "notify")
    /\ runs[i].profile = "daily"
    /\ Goto(i, IF Unhealthy(i) \/ Notifiable(i) # {} THEN "send_mail" ELSE "ended")
    /\ UNCHANGED <<now, runs, lock, alerts, weekly>>

\* send_weekly_report: always, but one per day; a second one is stored as a
\* duplicate.
NotifyWeekly(i) ==
    /\ At(i, "notify")
    /\ runs[i].profile = "weekly"
    /\ proc' = IF Day(i) \in weekly
               THEN [proc EXCEPT ![i].pc = "ended", ![i].stored = TRUE]
               ELSE [proc EXCEPT ![i].pc = "send_mail"]
    /\ UNCHANGED <<now, runs, lock, alerts, weekly>>

\* The mail goes out before anything is stored about it.  Every exception of
\* the SMTP session counts as not delivered, also one that comes after the
\* server has taken the mail.
SendMail(i) ==
    /\ At(i, "send_mail")
    /\ \E out, delivered \in BOOLEAN :
         /\ delivered => out
         /\ proc' = [proc EXCEPT ![i].pc = "record_mail", ![i].mailed = out,
                                 ![i].told = delivered]
    /\ UNCHANGED <<now, runs, lock, alerts, weekly>>

\* Mutant: the key is kept for the deliveries of daily mails only.
RecordMailWithoutKey(i) ==
    /\ At(i, "record_mail")
    /\ proc' = [proc EXCEPT ![i].pc = "ended", ![i].stored = TRUE]
    /\ UNCHANGED <<now, runs, lock, alerts, weekly>>

\* _record: a mail reported as failed does not use up the key; a key that is
\* there already rolls the row back.
RecordMail(i) ==
    /\ At(i, "record_mail")
    /\ LET keyed == proc[i].told /\ runs[i].profile = "weekly" IN
       /\ weekly' = IF keyed THEN weekly \cup {Day(i)} ELSE weekly
       /\ proc' = [proc EXCEPT ![i].pc = "ended",
                               ![i].stored = ~(keyed /\ Day(i) \in weekly)]
    /\ UNCHANGED <<now, runs, lock, alerts>>

-----------------------------------------------------------------------------
MayDie == Cardinality({i \in RunIds : At(i, "dead")}) < MaxDead

\* The process is killed: its row stays running, and the lock stays held.  An
\* exception of _finalize or of the notification ends it the same way.
Dies(i) ==
    /\ Alive(i) /\ MayDie
    /\ Goto(i, "dead")
    /\ UNCHANGED <<now, runs, lock, alerts, weekly>>

\* A step's row cannot be stored: the lock is released on the way out.
StepsRaise(i) ==
    /\ Working(i) /\ MayDie
    /\ lock' = Unlocked(i)
    /\ Goto(i, "dead")
    /\ UNCHANGED <<now, runs, alerts, weekly>>

\* People: run_operations.py --acknowledge and --resolve.
Acknowledge(a) ==
    /\ alerts[a].status = "open"
    /\ alerts' = [alerts EXCEPT ![a].status = "acknowledged"]
    /\ UNCHANGED <<now, runs, lock, weekly, proc>>

Resolve(a) ==
    /\ alerts[a].status \in {"open", "acknowledged"}
    /\ alerts' = [alerts EXCEPT ![a].status = "resolved"]
    /\ UNCHANGED <<now, runs, lock, weekly, proc>>

Executes(i) ==
    \/ Acquire(i) \/ Conflict(i) \/ SkipStep(i) \/ RunStep(i)
    \/ Evaluate(i) \/ Send(i) \/ Mark(i) \/ SyncHealth(i) \/ ResolveCleared(i)
    \/ SyncFails(i) \/ MonitoringEnds(i) \/ MonitoringRaises(i)
    \/ Release(i) \/ Finalize(i) \/ NotifyDaily(i) \/ NotifyWeekly(i)
    \/ SendMail(i) \/ RecordMail(i)

PipelineNext ==
    \/ \E profile \in {"daily", "weekly"}, t \in 0 .. MaxTime : Begin(profile, t)
    \/ \E i \in RunIds : Executes(i) \/ Dies(i) \/ StepsRaise(i)
    \/ \E a \in Handled : Acknowledge(a) \/ Resolve(a)

PipelineSpec == Init /\ [][PipelineNext]_vars

-----------------------------------------------------------------------------
(* Properties.                                                              *)

StepStatus == {"none", "succeeded", "partial", "skipped", "failed"}

RunType ==
    [profile : {"daily", "weekly"}, start : Nat, rows : [StepNames -> StepStatus],
     status : {"running", "skipped", "succeeded", "partial", "failed"}]

AlertType ==
    [status : {"none", "open", "acknowledged", "resolved"},
     last : Nat \cup {NoTime}, run : Nat]

ProcType ==
    [pc : {"acquire", "step", "send", "mark", "health", "resolve", "persist", "release",
           "finalize", "notify", "send_mail", "record_mail", "ended", "dead"},
     k : 1 .. Len(StepList) + 1,
     pending : SUBSET Alerts, syncing : BOOLEAN, present : SUBSET Alerts,
     failures : BOOLEAN, told : BOOLEAN, marked : SUBSET Alerts, mailed : BOOLEAN,
     stored : BOOLEAN, met : SUBSET Nat]

\* Every variable has its type.
PipelineTypeOK ==
    /\ now \in Nat
    /\ runs \in Seq(RunType)
    /\ lock \in [owner : Nat, at : Nat \cup {NoTime}]
    /\ alerts \in [Alerts -> AlertType]
    /\ weekly \subseteq Nat
    /\ proc \in Seq(ProcType)
    /\ Len(proc) = Len(runs)

\* Two runs that both notify an alert and mark it so are its cooldown apart,
\* unless they ran beside another run; whatever people acknowledge or resolve
\* in between, and however often the problem goes and comes back.
CooldownKept ==
    \A i, j \in RunIds : i # j /\ Started(i) <= Started(j) =>
        \A a \in proc[i].marked \cap proc[j].marked :
            \/ Started(j) >= Started(i) + CooldownOf(a)
            \/ proc[i].met # {}
            \/ proc[j].met # {}

\* Two weekly mails for one day leave only if a run died between the mail and
\* its delivery row, the notifier reported a mail as failed that had gone out,
\* or the two runs overlapped.
WeeklyMailedOnce ==
    \A i, j \in RunIds :
        /\ i # j
        /\ runs[i].profile = "weekly" /\ runs[j].profile = "weekly"
        /\ proc[i].mailed /\ proc[j].mailed
        /\ Day(i) = Day(j)
        => \/ j \in proc[i].met
           \/ \E r \in {i, j} : ~proc[r].told \/ (At(r, "dead") /\ ~proc[r].stored)

\* A run that came to its end and had a failed, partial or skipped step, or an
\* alert whose mail was reported as failed, has sent its own mail or stored why not.
TroubleIsReported ==
    \A i \in RunIds :
        At(i, "ended") /\ (Unhealthy(i) \/ proc[i].failures) =>
            proc[i].mailed \/ proc[i].stored

=============================================================================
