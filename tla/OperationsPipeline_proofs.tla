------------------------ MODULE OperationsPipeline_proofs ------------------------
(***************************************************************************)
(* Proofs about the operations runs, for any steps, dependencies, alerts,  *)
(* delays and number of runs.  Each promise is about what two runs did and *)
(* did not see of each other: the invariant says that runs at work         *)
(* together have met, and what a run that met nobody has left behind in    *)
(* the alerts and in the weekly deliveries.                                *)
(***************************************************************************)
EXTENDS OperationsPipeline, SequenceTheorems, TLAPS

USE PipelineAssumption

AtWork(i) == Working(i) \/ Reporting(i)

\* A run at its steps has one before it, and the monitoring step is the only
\* one that is more than a moment.
StepsLast ==
    \A i \in RunIds :
        /\ proc[i].pc \in {"acquire", "step", "send", "mark", "health", "resolve", "persist"} =>
             proc[i].k <= Len(StepList)
        /\ proc[i].pc \in {"send", "mark", "health", "resolve", "persist"} => Step(i) = Monitoring

TypeInv == PipelineTypeOK /\ StepsLast

\* Whoever works beside another run knows it.
OverlapsNoted ==
    \A i, j \in RunIds : i # j /\ AtWork(i) /\ AtWork(j) => j \in proc[i].met

Alone(i) == proc[i].met = {}

\* What a run is about to mark is late enough for every run that marked it
\* before and met nobody.
PendingIsApart ==
    \A k \in RunIds : proc[k].pc \in {"send", "mark"} =>
        \A a \in proc[k].pending, i \in RunIds :
            i # k /\ Alone(i) /\ a \in proc[i].marked =>
                Started(k) >= Started(i) + CooldownOf(a)

\* An alert remembers the runs that marked it and met nobody.
LastIsKept ==
    \A i \in RunIds : Alone(i) =>
        \A a \in proc[i].marked : alerts[a].last >= Started(i)

MarksAreApart ==
    \A i, j \in RunIds : i # j /\ Alone(i) /\ Alone(j) =>
        \A a \in proc[i].marked \cap proc[j].marked :
            \/ Started(j) >= Started(i) + CooldownOf(a)
            \/ Started(i) >= Started(j) + CooldownOf(a)

\* A run that waits for the lock has marked nothing.
WaitersAreFresh == \A i \in RunIds : At(i, "acquire") => proc[i].marked = {}

AlertsInv == PendingIsApart /\ LastIsKept /\ MarksAreApart /\ WaitersAreFresh

\* A mail reported as delivered has gone out, is followed by its delivery row,
\* and the row by the end of the run.
MailOrder ==
    \A i \in RunIds :
        /\ proc[i].told =>
             proc[i].mailed /\ proc[i].pc \in {"record_mail", "ended", "dead"}
        /\ proc[i].stored => At(i, "ended")
        /\ runs[i].profile = "weekly" /\ proc[i].told /\ At(i, "ended") => Day(i) \in weekly

\* A weekly run about to send has met those that sent for its day.
SendersMet ==
    \A i, j \in RunIds :
        /\ i # j /\ runs[i].profile = "weekly" /\ runs[j].profile = "weekly" /\ Day(i) = Day(j)
        /\ At(j, "send_mail") /\ proc[i].told /\ At(i, "ended")
        => i \in proc[j].met /\ j \in proc[i].met

\* Two mails for one day that were reported as delivered.
ToldOnce ==
    \A i, j \in RunIds :
        /\ i # j
        /\ runs[i].profile = "weekly" /\ runs[j].profile = "weekly"
        /\ proc[i].told /\ proc[j].told
        /\ Day(i) = Day(j)
        => \/ j \in proc[i].met
           \/ \E r \in {i, j} : At(r, "dead") /\ ~proc[r].stored

MailInv == MailOrder /\ SendersMet /\ ToldOnce

\* A mail that failed is on record in the monitoring step, and then in the run.
FailuresTell ==
    \A i \in RunIds : proc[i].failures =>
        /\ proc[i].pc \notin {"acquire", "step"}
        /\ proc[i].pc \in {"release", "finalize"} =>
             runs[i].rows[Monitoring] \in {"partial", "failed"}
        /\ At(i, "notify") => Unhealthy(i)

PipelineInv ==
    /\ TypeInv /\ OverlapsNoted /\ AlertsInv /\ MailInv
    /\ FailuresTell /\ TroubleIsReported

----------------------------------------------------------------------------
(* Runs and their rows.                                                    *)

WorkPCs == {"step", "send", "mark", "health", "resolve", "persist", "release",
            "finalize", "notify", "send_mail", "record_mail"}

LEMMA WorkIs == \A i : AtWork(i) <=> proc[i].pc \in WorkPCs
BY DEF AtWork, Working, Reporting, WorkPCs

LEMMA Constants ==
    /\ Monitoring \in StepNames /\ Len(StepList) \in Nat /\ Len(StepList) >= 1
    /\ \A k \in 1 .. Len(StepList) : StepList[k] \in StepNames
    /\ Stale \in Nat /\ Cooldown \in Nat /\ Renotify \in Nat
    /\ DayLength \in Nat /\ DayLength # 0
<1>1. Stale \in Nat /\ Cooldown \in Nat /\ Renotify \in Nat
  BY Zenon DEF PipelineAssumption
<1>2. DayLength \in Nat /\ DayLength # 0
  BY Zenon DEF PipelineAssumption
<1>3. StepList \in Seq(StepNames) /\ StepList # <<>> /\ StepList[Len(StepList)] = Monitoring
  BY DEF PipelineAssumption
<1>4. Len(StepList) \in Nat /\ Len(StepList) >= 1
  BY <1>3, EmptySeq
<1>5. \A k \in 1 .. Len(StepList) : StepList[k] \in StepNames
  BY <1>3
<1>6. QED
  BY <1>1, <1>2, <1>3, <1>4, <1>5

LEMMA Rows ==
    ASSUME TypeInv
    PROVE  /\ Len(runs) \in Nat /\ RunIds = 1 .. Len(runs)
           /\ \A i \in RunIds : proc[i] \in ProcType /\ runs[i] \in RunType
           /\ DOMAIN proc = RunIds /\ DOMAIN runs = RunIds
           /\ alerts \in [Alerts -> AlertType]
<1>1. runs \in Seq(RunType) /\ proc \in Seq(ProcType) /\ Len(proc) = Len(runs)
  BY DEF TypeInv, PipelineTypeOK
<1>2. /\ Len(runs) \in Nat /\ DOMAIN runs = 1 .. Len(runs) /\ DOMAIN proc = 1 .. Len(proc)
      /\ \A i \in 1 .. Len(runs) : proc[i] \in ProcType /\ runs[i] \in RunType
  BY <1>1, LenProperties, ElementOfSeq
<1>3. QED
  BY <1>1, <1>2 DEF RunIds, TypeInv, PipelineTypeOK

\* One run moves: its process holds v and its row w, and the others stay.
Moved(i, v, w) ==
    /\ proc' \in Seq(ProcType) /\ runs' \in Seq(RunType)
    /\ Len(proc') = Len(runs') /\ Len(runs') = Len(runs)
    /\ v \in ProcType /\ w \in RunType
    /\ proc'[i] = v /\ runs'[i] = w
    /\ \A j \in RunIds \ {i} : proc'[j] = proc[j] /\ runs'[j] = runs[j]
    /\ w.start = runs[i].start /\ w.profile = runs[i].profile

LEMMA ProcMoves ==
    ASSUME TypeInv, NEW i \in RunIds, NEW v \in ProcType,
           proc' = [proc EXCEPT ![i] = v], UNCHANGED runs
    PROVE  Moved(i, v, runs[i])
<1>1. proc \in Seq(ProcType) /\ runs \in Seq(RunType) /\ Len(proc) = Len(runs)
      /\ i \in 1 .. Len(proc)
  BY DEF TypeInv, PipelineTypeOK, RunIds
<1>2. /\ proc' \in Seq(ProcType) /\ Len(proc') = Len(proc) /\ proc'[i] = v
      /\ \A j \in 1 .. Len(proc) : j # i => proc'[j] = proc[j]
  BY <1>1, ExceptSeq
<1>3. QED
  BY <1>1, <1>2, Rows DEF Moved, RunIds

LEMMA BothMove ==
    ASSUME TypeInv, NEW i \in RunIds, NEW v \in ProcType, NEW w \in RunType,
           proc' = [proc EXCEPT ![i] = v], runs' = [runs EXCEPT ![i] = w],
           w.start = runs[i].start, w.profile = runs[i].profile
    PROVE  Moved(i, v, w)
<1>1. proc \in Seq(ProcType) /\ runs \in Seq(RunType) /\ Len(proc) = Len(runs)
      /\ i \in 1 .. Len(proc)
  BY DEF TypeInv, PipelineTypeOK, RunIds
<1>2. /\ proc' \in Seq(ProcType) /\ Len(proc') = Len(proc) /\ proc'[i] = v
      /\ \A j \in 1 .. Len(proc) : j # i => proc'[j] = proc[j]
  BY <1>1, ExceptSeq
<1>3. /\ runs' \in Seq(RunType) /\ Len(runs') = Len(runs) /\ runs'[i] = w
      /\ \A j \in 1 .. Len(runs) : j # i => runs'[j] = runs[j]
  BY <1>1, ExceptSeq
<1>4. QED
  BY <1>1, <1>2, <1>3 DEF Moved, RunIds

\* No run's start changes when one moves.
LEMMA MovedFacts ==
    ASSUME TypeInv, NEW i \in RunIds, NEW v, NEW w, Moved(i, v, w)
    PROVE  /\ RunIds' = RunIds /\ i \in RunIds'
           /\ \A j \in RunIds : (Started(j))' = Started(j) /\ (Day(j))' = Day(j)
                                /\ (runs[j].profile)' = runs[j].profile
                                /\ Started(j) \in Nat
           /\ \A j \in RunIds : j # i => proc'[j] = proc[j] /\ runs'[j] = runs[j]
           /\ proc'[i] = v /\ runs'[i] = w
<1>1. \A j \in RunIds : (Started(j))' = Started(j) /\ Started(j) \in Nat
  BY Rows DEF Moved, Started, RunType
<1>2. QED
  BY <1>1 DEF Moved, RunIds, Day

\* What is to be shown when one run moves.
LEMMA OneMoves ==
    ASSUME PipelineInv, NEW i \in RunIds, NEW v, NEW w, Moved(i, v, w),
           UNCHANGED now, lock' \in [owner : Nat, at : Nat \cup {NoTime}],
           alerts' \in [Alerts -> AlertType], weekly' \subseteq Nat,
           v.met = proc[i].met, v.pc \in WorkPCs => AtWork(i),
           v.pc \in {"acquire", "step", "send", "mark", "health", "resolve", "persist"} =>
               v.k <= Len(StepList),
           v.pc \in {"send", "mark", "health", "resolve", "persist"} =>
               StepList[v.k] = Monitoring,
           AlertsInv', MailInv',
           v.failures =>
               /\ v.pc \notin {"acquire", "step"}
               /\ v.pc \in {"release", "finalize"} => w.rows[Monitoring] \in {"partial", "failed"}
               /\ v.pc = "notify" => w.status \in {"failed", "partial"},
           v.pc = "ended" /\ (w.status \in {"failed", "partial"} \/ v.failures) =>
               v.told \/ v.stored
    PROVE  PipelineInv'
<1>0. TypeInv
  BY DEF PipelineInv
<1>1. /\ RunIds' = RunIds
      /\ \A j \in RunIds : j # i => proc'[j] = proc[j] /\ runs'[j] = runs[j]
      /\ proc'[i] = v /\ runs'[i] = w
  BY <1>0, MovedFacts
<1>2. TypeInv'
  <2>1. PipelineTypeOK'
    BY <1>0 DEF Moved, TypeInv, PipelineTypeOK
  <2>2. StepsLast'
    BY <1>0, <1>1 DEF TypeInv, StepsLast, Step
  <2>3. QED
    BY <2>1, <2>2 DEF TypeInv
<1>3. OverlapsNoted'
  <2>1. \A j \in RunIds : (AtWork(j))' => AtWork(j)
    BY <1>1, WorkIs DEF AtWork, Working, Reporting, WorkPCs
  <2>2. \A j \in RunIds : (proc[j].met)' = proc[j].met
    BY <1>1
  <2>3. QED
    BY <1>1, <2>1, <2>2 DEF PipelineInv, OverlapsNoted
<1>4. FailuresTell'
  BY <1>1 DEF PipelineInv, FailuresTell, At, Unhealthy
<1>5. TroubleIsReported'
  <2>1. proc'[i].told => proc'[i].mailed
    BY <1>1 DEF MailInv, MailOrder
  <2>2. QED
    BY <1>1, <2>1 DEF PipelineInv, TroubleIsReported, At, Unhealthy
<1>6. QED
  BY <1>2, <1>3, <1>4, <1>5 DEF PipelineInv

\* A move that leaves the alerts' times and what a run marks alone.
LEMMA AlertsFrame ==
    ASSUME TypeInv, AlertsInv, NEW i \in RunIds, NEW v, NEW w, Moved(i, v, w),
           \A a \in Alerts : alerts'[a].last = alerts[a].last,
           v.marked = proc[i].marked, v.met = proc[i].met,
           v.pc \in {"send", "mark"} =>
               proc[i].pc \in {"send", "mark"} /\ v.pending = proc[i].pending,
           v.pc # "acquire"
    PROVE  AlertsInv'
<1>1. /\ RunIds' = RunIds
      /\ \A j \in RunIds : (Started(j))' = Started(j)
      /\ \A j \in RunIds : j # i => proc'[j] = proc[j]
      /\ proc'[i] = v
  BY MovedFacts
<1>2. \A j \in RunIds :
        /\ proc'[j].marked = proc[j].marked /\ (Alone(j))' = Alone(j)
        /\ proc'[j].pc \in {"send", "mark"} =>
             proc[j].pc \in {"send", "mark"} /\ proc'[j].pending = proc[j].pending
        /\ proc[j].marked \subseteq Alerts
  BY <1>1, Rows DEF Alone, ProcType
<1>3. PendingIsApart'
  BY <1>1, <1>2 DEF AlertsInv, PendingIsApart, CooldownOf
<1>4. LastIsKept'
  BY <1>1, <1>2 DEF AlertsInv, LastIsKept
<1>5. MarksAreApart'
  BY <1>1, <1>2 DEF AlertsInv, MarksAreApart, CooldownOf
<1>6. WaitersAreFresh'
  BY <1>1 DEF AlertsInv, WaitersAreFresh, At
<1>7. QED
  BY <1>3, <1>4, <1>5, <1>6 DEF AlertsInv

\* A move that has nothing to do with mail.
LEMMA MailFrame ==
    ASSUME TypeInv, MailInv, NEW i \in RunIds, NEW v, NEW w, Moved(i, v, w),
           UNCHANGED weekly,
           v.told = proc[i].told /\ v.mailed = proc[i].mailed,
           v.stored = proc[i].stored, v.met = proc[i].met,
           v.pc # "send_mail", proc[i].pc \notin {"record_mail", "ended", "dead"}
    PROVE  MailInv'
<1>1. /\ RunIds' = RunIds
      /\ \A j \in RunIds : (Day(j))' = Day(j) /\ (runs[j].profile)' = runs[j].profile
      /\ \A j \in RunIds : j # i => proc'[j] = proc[j]
      /\ proc'[i] = v
  BY MovedFacts
<1>2. ~proc[i].told /\ ~proc[i].stored
  BY DEF MailInv, MailOrder, At
<1>3. MailOrder'
  BY <1>1, <1>2 DEF MailInv, MailOrder, At
<1>4. SendersMet'
  BY <1>1, <1>2 DEF MailInv, SendersMet, At
<1>5. ToldOnce'
  BY <1>1, <1>2 DEF MailInv, ToldOnce, At
<1>6. QED
  BY <1>3, <1>4, <1>5 DEF MailInv

----------------------------------------------------------------------------
(* The steps.                                                              *)

LEMMA ConflictKeeps ==
    ASSUME PipelineInv, NEW i \in RunIds, Conflict(i)
    PROVE  PipelineInv'
<1> DEFINE v == [proc[i] EXCEPT !.pc = "ended"]
           w == [runs[i] EXCEPT !.status = "skipped"]
<1>0. TypeInv /\ proc[i] \in ProcType /\ runs[i] \in RunType /\ proc[i].pc = "acquire"
      /\ UNCHANGED <<now, lock, alerts, weekly>>
  BY Rows DEF PipelineInv, Conflict, At
<1>1. /\ v \in ProcType /\ v.pc = "ended" /\ v.failures = proc[i].failures
      /\ v.told = proc[i].told
      /\ v.mailed = proc[i].mailed /\ v.stored = proc[i].stored /\ v.met = proc[i].met
      /\ v.marked = proc[i].marked
  BY <1>0 DEF ProcType
<1>2. /\ w \in RunType /\ w.status = "skipped" /\ w.start = runs[i].start
      /\ w.profile = runs[i].profile
  BY <1>0 DEF RunType
<1>3. proc' = [proc EXCEPT ![i] = v] /\ runs' = [runs EXCEPT ![i] = w]
  BY DEF Conflict, Goto
<1> HIDE DEF v, w
<1>4. Moved(i, v, w)
  BY <1>0, <1>1, <1>2, <1>3, BothMove
<1>5. AlertsInv'
  BY <1>0, <1>1, <1>4, AlertsFrame DEF PipelineInv
<1>6. MailInv'
  BY <1>0, <1>1, <1>4, MailFrame DEF PipelineInv
<1>7. ~proc[i].failures
  BY <1>0 DEF PipelineInv, FailuresTell
<1>8. QED
  BY <1>0, <1>1, <1>2, <1>4, <1>5, <1>6, <1>7, OneMoves DEF TypeInv, PipelineTypeOK, WorkPCs

\* A step's row is stored and the next one begins, or the run has done its steps.
LEMMA PersistKeeps ==
    ASSUME PipelineInv, NEW i \in RunIds, NEW status \in StepStatus, PersistStep(i, status),
           proc[i].pc \in {"step", "mark", "persist"},
           UNCHANGED <<now, lock, alerts, weekly>>,
           proc[i].failures => Step(i) = Monitoring /\ status \in {"partial", "failed"}
    PROVE  PipelineInv'
<1>a. PICK pc \in {"step", "release"} :
        /\ pc = IF Step(i) = Monitoring THEN "release" ELSE "step"
        /\ pc = "release" <=> Step(i) = Monitoring
  OBVIOUS
<1> DEFINE v == [proc[i] EXCEPT !.k = @ + 1, !.pc = pc]
           w == [runs[i] EXCEPT !.rows[Step(i)] = status]
<1>0. /\ TypeInv /\ proc[i] \in ProcType /\ runs[i] \in RunType
      /\ proc[i].k \in 1 .. Len(StepList) /\ Step(i) \in StepNames
  <2>1. TypeInv /\ proc[i] \in ProcType /\ runs[i] \in RunType
    BY Rows DEF PipelineInv
  <2>2. proc[i].k \in 1 .. Len(StepList)
    BY <2>1, Constants DEF TypeInv, StepsLast, ProcType
  <2>3. QED
    BY <2>1, <2>2, Constants DEF Step
<1>1. /\ v.pc \in {"step", "release"} /\ (v.pc = "release" <=> Step(i) = Monitoring)
      /\ v.k = proc[i].k + 1 /\ v.failures = proc[i].failures
      /\ v.told = proc[i].told
      /\ v.mailed = proc[i].mailed /\ v.stored = proc[i].stored /\ v.met = proc[i].met
      /\ v.marked = proc[i].marked
      /\ v \in ProcType
  <2>1. proc[i].k + 1 \in 1 .. Len(StepList) + 1
    BY <1>0, Constants
  <2>2. v.pc = pc /\ v.k = proc[i].k + 1 /\ v \in ProcType
    BY <1>0, <2>1 DEF ProcType
  <2>3. QED
    BY <1>0, <1>a, <2>2 DEF ProcType
<1>2. /\ w \in RunType /\ w.start = runs[i].start /\ w.profile = runs[i].profile
      /\ w.rows[Step(i)] = status
  BY <1>0 DEF RunType
<1>3. proc' = [proc EXCEPT ![i] = v] /\ runs' = [runs EXCEPT ![i] = w]
  BY <1>a DEF PersistStep
<1>4. v.pc = "step" => v.k <= Len(StepList)
  <2>1. StepList[Len(StepList)] = Monitoring
    BY DEF PipelineAssumption
  <2>2. QED
    BY <1>0, <1>1, <2>1, Constants DEF Step
<1> HIDE DEF v, w
<1>5. Moved(i, v, w)
  BY <1>0, <1>1, <1>2, <1>3, BothMove
<1>6. AlertsInv'
  BY <1>0, <1>1, <1>5, AlertsFrame DEF PipelineInv
<1>7. MailInv'
  BY <1>0, <1>1, <1>5, MailFrame DEF PipelineInv
<1>8. AtWork(i)
  BY WorkIs DEF WorkPCs
<1>9. v.failures =>
        v.pc = "release" /\ w.rows[Monitoring] \in {"partial", "failed"}
  BY <1>1, <1>2
<1>10. QED
  BY <1>0, <1>1, <1>2, <1>4, <1>5, <1>6, <1>7, <1>8, <1>9, OneMoves
  DEF TypeInv, PipelineTypeOK

LEMMA StepKeeps ==
    ASSUME PipelineInv, NEW i \in RunIds,
           SkipStep(i) \/ RunStep(i) \/ MonitoringEnds(i) \/ MonitoringRaises(i)
    PROVE  PipelineInv'
<1>1. proc[i].pc = "step" => ~proc[i].failures
  BY DEF PipelineInv, FailuresTell
<1>2. proc[i].pc \in {"mark", "persist"} => Step(i) = Monitoring
  BY DEF PipelineInv, TypeInv, StepsLast
<1>3. CASE SkipStep(i) \/ RunStep(i)
  BY <1>1, <1>3, PersistKeeps DEF SkipStep, RunStep, At, StepStatus
<1>4. CASE MonitoringEnds(i)
  BY <1>2, <1>4, PersistKeeps DEF MonitoringEnds, At, StepStatus
<1>5. CASE MonitoringRaises(i)
  BY <1>1, <1>2, <1>5, PersistKeeps DEF MonitoringRaises, At, StepStatus
<1>6. QED
  BY <1>3, <1>4, <1>5

\* A move inside the monitoring step that changes no time of an alert and
\* begins no notification.
LEMMA MonitoringKeeps ==
    ASSUME PipelineInv, NEW i \in RunIds, NEW v \in ProcType,
           proc' = [proc EXCEPT ![i] = v], UNCHANGED <<now, runs, lock, weekly>>,
           proc[i].pc \in {"send", "mark", "health", "resolve"},
           v.pc \in {"mark", "persist"}, v.k = proc[i].k,
           v.marked = proc[i].marked, v.met = proc[i].met,
           v.told = proc[i].told /\ v.mailed = proc[i].mailed, v.stored = proc[i].stored,
           v.pc = "mark" => proc[i].pc = "send" /\ v.pending = proc[i].pending,
           alerts' \in [Alerts -> AlertType],
           \A a \in Alerts : alerts'[a].last = alerts[a].last
    PROVE  PipelineInv'
<1>0. TypeInv /\ AlertsInv /\ MailInv
  BY DEF PipelineInv
<1>1. Moved(i, v, runs[i])
  BY <1>0, ProcMoves
<1>2. AlertsInv'
  BY <1>0, <1>1, AlertsFrame
<1>3. MailInv'
  BY <1>0, <1>1, MailFrame
<1>4. AtWork(i)
  BY WorkIs DEF WorkPCs
<1>5. v.k <= Len(StepList) /\ StepList[v.k] = Monitoring
  BY <1>0 DEF TypeInv, StepsLast, Step
<1>6. QED
  BY <1>0, <1>1, <1>2, <1>3, <1>4, <1>5, OneMoves DEF TypeInv, PipelineTypeOK

LEMMA SendKeeps ==
    ASSUME PipelineInv, NEW i \in RunIds, Send(i)
    PROVE  PipelineInv'
<1>0. TypeInv /\ proc[i] \in ProcType /\ proc[i].pc = "send"
      /\ UNCHANGED <<now, runs, lock, alerts, weekly>> /\ alerts \in [Alerts -> AlertType]
  BY Rows DEF PipelineInv, Send, At
<1>1. PICK fail \in BOOLEAN :
        proc' = [proc EXCEPT ![i].pc = "mark", ![i].failures = @ \/ fail]
  BY DEF Send
<1> DEFINE v == [proc[i] EXCEPT !.pc = "mark", !.failures = @ \/ fail]
<1>2. proc' = [proc EXCEPT ![i] = v]
  BY <1>1
<1>3. v \in ProcType /\ v.pc = "mark" /\ v.k = proc[i].k /\ v.marked = proc[i].marked
      /\ v.met = proc[i].met /\ v.told = proc[i].told
      /\ v.mailed = proc[i].mailed /\ v.stored = proc[i].stored
      /\ v.pending = proc[i].pending
  BY <1>0 DEF ProcType
<1> HIDE DEF v
<1>4. QED
  BY <1>0, <1>2, <1>3, MonitoringKeeps

LEMMA ResolveKeeps ==
    ASSUME PipelineInv, NEW i \in RunIds, ResolveCleared(i) \/ SyncFails(i)
    PROVE  PipelineInv'
<1>0. TypeInv /\ proc[i] \in ProcType /\ alerts \in [Alerts -> AlertType]
      /\ UNCHANGED <<now, runs, lock, weekly>>
      /\ proc[i].pc \in {"send", "mark", "health", "resolve"}
  BY Rows DEF PipelineInv, ResolveCleared, SyncFails, At
<1>1. alerts' \in [Alerts -> AlertType] /\ \A a \in Alerts : alerts'[a].last = alerts[a].last
  <2>1. CASE ResolveCleared(i)
    <3>1. alerts' = [a \in Alerts |->
                       IF a \in Health \ proc[i].present /\ alerts[a].status # "none"
                       THEN [alerts[a] EXCEPT !.status = "resolved"] ELSE alerts[a]]
      BY <2>1 DEF ResolveCleared
    <3>2. \A a \in Alerts : [alerts[a] EXCEPT !.status = "resolved"] \in AlertType
                           /\ [alerts[a] EXCEPT !.status = "resolved"].last = alerts[a].last
      BY <1>0 DEF AlertType
    <3>3. QED
      BY <1>0, <3>1, <3>2
  <2>2. CASE SyncFails(i)
    BY <1>0, <2>2 DEF SyncFails
  <2>3. QED
    BY <2>1, <2>2
<1>2. \E v \in ProcType :
        /\ proc' = [proc EXCEPT ![i] = v]
        /\ v.pc = "persist" /\ v.k = proc[i].k /\ v.marked = proc[i].marked
        /\ v.met = proc[i].met /\ v.told = proc[i].told
        /\ v.mailed = proc[i].mailed /\ v.stored = proc[i].stored
  <2>1. CASE ResolveCleared(i)
    <3> DEFINE v == [proc[i] EXCEPT !.pc = "persist", !.present = {}]
    <3>1. proc' = [proc EXCEPT ![i] = v]
      BY <2>1 DEF ResolveCleared
    <3>2. v \in ProcType /\ v.pc = "persist" /\ v.k = proc[i].k /\ v.marked = proc[i].marked
          /\ v.met = proc[i].met /\ v.told = proc[i].told
          /\ v.mailed = proc[i].mailed /\ v.stored = proc[i].stored
      BY <1>0 DEF ProcType
    <3> HIDE DEF v
    <3>3. QED
      BY <3>1, <3>2
  <2>2. CASE SyncFails(i)
    <3> DEFINE v == [proc[i] EXCEPT !.pc = "persist", !.present = {}, !.pending = {}]
    <3>1. proc' = [proc EXCEPT ![i] = v]
      BY <2>2 DEF SyncFails
    <3>2. v \in ProcType /\ v.pc = "persist" /\ v.k = proc[i].k /\ v.marked = proc[i].marked
          /\ v.met = proc[i].met /\ v.told = proc[i].told
          /\ v.mailed = proc[i].mailed /\ v.stored = proc[i].stored
      BY <1>0 DEF ProcType
    <3> HIDE DEF v
    <3>3. QED
      BY <3>1, <3>2
  <2>3. QED
    BY <2>1, <2>2
<1>3. QED
  BY <1>0, <1>1, <1>2, MonitoringKeeps

LEMMA CooldownIsNat == \A a : CooldownOf(a) \in Nat
BY Constants DEF CooldownOf

\* Alerts are recorded: what is worth notifying is late enough for every run
\* that marked it before and met nobody.
LEMMA RecordKeeps ==
    ASSUME PipelineInv, NEW i \in RunIds, NEW drafts \in SUBSET Alerts, NEW run \in Nat,
           RecordAlerts(i, drafts, run), UNCHANGED <<now, runs, lock, weekly>>,
           proc[i].pc \in {"step", "health"}, Step(i) = Monitoring
    PROVE  PipelineInv'
<1> DEFINE pending == {a \in drafts : Worth(a, Started(i))}
           v == [proc[i] EXCEPT !.pc = "send", !.syncing = (run = NoRun), !.present = drafts,
                                !.pending = pending]
<1>0. TypeInv /\ AlertsInv /\ MailInv /\ proc[i] \in ProcType
      /\ alerts \in [Alerts -> AlertType]
      /\ proc[i].k \in 1 .. Len(StepList)
  <2>1. TypeInv /\ AlertsInv /\ MailInv /\ proc[i] \in ProcType
        /\ alerts \in [Alerts -> AlertType]
    BY Rows DEF PipelineInv
  <2>2. QED
    BY <2>1, Constants DEF TypeInv, StepsLast, ProcType
<1>1. /\ v \in ProcType /\ v.pc = "send" /\ v.k = proc[i].k /\ v.marked = proc[i].marked
      /\ v.met = proc[i].met /\ v.told = proc[i].told
      /\ v.mailed = proc[i].mailed /\ v.stored = proc[i].stored
      /\ v.pending = pending /\ v.failures = proc[i].failures
  BY <1>0 DEF ProcType
<1>2. proc' = [proc EXCEPT ![i] = v]
  BY DEF RecordAlerts
<1>3. alerts' \in [Alerts -> AlertType] /\ \A a \in Alerts : alerts'[a].last = alerts[a].last
  <2>1. \A a \in Alerts : Seen(a, run) \in AlertType /\ Seen(a, run).last = alerts[a].last
    BY <1>0 DEF Seen, AlertType
  <2>2. alerts' = [a \in Alerts |-> IF a \in drafts THEN Seen(a, run) ELSE alerts[a]]
    BY DEF RecordAlerts
  <2>3. QED
    BY <1>0, <2>1, <2>2
<1>4. \A a \in pending : alerts[a].last = NoTime \/ Started(i) - alerts[a].last >= CooldownOf(a)
  BY DEF Worth
<1> HIDE DEF v, pending
<1>5. Moved(i, v, runs[i])
  BY <1>0, <1>1, <1>2, ProcMoves
<1>6. /\ RunIds' = RunIds
      /\ \A j \in RunIds : (Started(j))' = Started(j) /\ Started(j) \in Nat
      /\ \A j \in RunIds : j # i => proc'[j] = proc[j]
      /\ proc'[i] = v
  BY <1>0, <1>5, MovedFacts
<1>7. \A j \in RunIds : proc'[j].marked = proc[j].marked /\ (Alone(j))' = Alone(j)
                        /\ proc[j].marked \subseteq Alerts
  BY <1>0, <1>1, <1>6, Rows DEF Alone, ProcType
<1>8. AlertsInv'
  <2>1. \A a \in pending, j \in RunIds :
          Alone(j) /\ a \in proc[j].marked => Started(i) >= Started(j) + CooldownOf(a)
    <3>1. TAKE a \in pending, j \in RunIds
    <3>2. HAVE Alone(j) /\ a \in proc[j].marked
    <3>3. alerts[a].last >= Started(j) /\ alerts[a].last \in Nat \cup {-1}
      BY <1>0, <1>7, <3>2 DEF AlertsInv, LastIsKept, AlertType, NoTime
    <3>4. Started(i) - alerts[a].last >= CooldownOf(a)
      BY <1>4, <1>6, <3>3 DEF NoTime
    <3>5. Started(i) \in Nat /\ Started(j) \in Nat
      BY <1>6
    <3>6. CooldownOf(a) \in Nat
      BY ONLY CooldownIsNat
    <3>7. QED
      BY <3>3, <3>4, <3>5, <3>6, SMTT(30)
  <2>2. PendingIsApart'
    BY <1>0, <1>1, <1>6, <1>7, <2>1, SMTT(30) DEF AlertsInv, PendingIsApart, CooldownOf
  <2>3. LastIsKept'
    BY <1>0, <1>3, <1>6, <1>7 DEF AlertsInv, LastIsKept
  <2>4. MarksAreApart'
    BY <1>0, <1>6, <1>7, SMTT(30) DEF AlertsInv, MarksAreApart, CooldownOf
  <2>5. WaitersAreFresh'
    BY <1>0, <1>1, <1>6 DEF AlertsInv, WaitersAreFresh, At
  <2>6. QED
    BY <2>2, <2>3, <2>4, <2>5 DEF AlertsInv
<1>9. MailInv'
  BY <1>0, <1>1, <1>5, MailFrame
<1>10. AtWork(i)
  BY WorkIs DEF WorkPCs
<1>11. v.k <= Len(StepList) /\ StepList[v.k] = Monitoring
  BY <1>0, <1>1, Constants DEF Step
<1>12. QED
  BY <1>0, <1>1, <1>3, <1>5, <1>8, <1>9, <1>10, <1>11, OneMoves
  DEF TypeInv, PipelineTypeOK

LEMMA EvaluateKeeps ==
    ASSUME PipelineInv, NEW i \in RunIds, Evaluate(i) \/ SyncHealth(i)
    PROVE  PipelineInv'
<1>1. CASE Evaluate(i)
  <2>1. PICK more \in SUBSET Observed : RecordAlerts(i, Drafts(i) \cup more, i)
    BY <1>1 DEF Evaluate
  <2>2. Drafts(i) \cup more \in SUBSET Alerts /\ i \in Nat
    BY Rows DEF Drafts, StepsWith, Alerts, PipelineInv
  <2>3. QED
    BY <1>1, <2>1, <2>2, RecordKeeps DEF Evaluate, At
<1>2. CASE SyncHealth(i)
  <2>1. PICK present \in SUBSET Health : RecordAlerts(i, present, NoRun)
    BY <1>2 DEF SyncHealth
  <2>2. present \in SUBSET Alerts /\ NoRun \in Nat
    BY DEF Alerts, NoRun
  <2>3. Step(i) = Monitoring
    BY <1>2 DEF SyncHealth, At, PipelineInv, TypeInv, StepsLast
  <2>4. QED
    BY <1>2, <2>1, <2>2, <2>3, RecordKeeps DEF SyncHealth, At
<1>3. QED
  BY <1>1, <1>2

\* The alerts notified are marked with the run's start: nobody who works
\* beside the run is alone, and the others were its cooldown before.
LEMMA MarkKeeps ==
    ASSUME PipelineInv, NEW i \in RunIds, Mark(i)
    PROVE  PipelineInv'
<1> DEFINE v == [proc[i] EXCEPT !.pc = IF proc[i].syncing THEN "resolve" ELSE "health",
                                !.marked = @ \cup proc[i].pending, !.pending = {}]
<1>0. TypeInv /\ AlertsInv /\ MailInv /\ proc[i] \in ProcType
      /\ alerts \in [Alerts -> AlertType] /\ proc[i].pc = "mark"
      /\ UNCHANGED <<now, runs, lock, weekly>>
  BY Rows DEF PipelineInv, Mark, At
<1>1. /\ v \in ProcType /\ v.pc \in {"resolve", "health"} /\ v.k = proc[i].k
      /\ v.marked = proc[i].marked \cup proc[i].pending
      /\ v.met = proc[i].met /\ v.told = proc[i].told
      /\ v.mailed = proc[i].mailed /\ v.stored = proc[i].stored
      /\ v.failures = proc[i].failures
  BY <1>0 DEF ProcType
<1>2. proc' = [proc EXCEPT ![i] = v]
  BY DEF Mark
<1> HIDE DEF v
<1>3. Moved(i, v, runs[i])
  BY <1>0, <1>1, <1>2, ProcMoves
<1>4. /\ RunIds' = RunIds
      /\ \A j \in RunIds : (Started(j))' = Started(j) /\ Started(j) \in Nat
      /\ \A j \in RunIds : j # i => proc'[j] = proc[j]
      /\ proc'[i] = v
  BY <1>0, <1>3, MovedFacts
<1>5. /\ alerts' \in [Alerts -> AlertType]
      /\ \A a \in Alerts : alerts'[a].last = IF a \in proc[i].pending THEN Started(i)
                                                                     ELSE alerts[a].last
  <2>1. alerts' = [a \in Alerts |->
                    IF a \in proc[i].pending THEN [alerts[a] EXCEPT !.last = Started(i)]
                                             ELSE alerts[a]]
    BY DEF Mark
  <2>2. \A a \in Alerts : [alerts[a] EXCEPT !.last = Started(i)] \in AlertType
                         /\ [alerts[a] EXCEPT !.last = Started(i)].last = Started(i)
    BY <1>0, <1>4 DEF AlertType
  <2>3. QED
    BY <1>0, <2>1, <2>2
<1>6. \A j \in RunIds : (Alone(j))' = Alone(j) /\ proc[j].marked \subseteq Alerts
  BY <1>0, <1>1, <1>4, Rows DEF Alone, ProcType
<1>7. \A a \in proc[i].pending, j \in RunIds :
        j # i /\ Alone(j) /\ a \in proc[j].marked => Started(i) >= Started(j) + CooldownOf(a)
  BY <1>0 DEF AlertsInv, PendingIsApart
<1>8. AtWork(i)
  BY <1>0, WorkIs DEF WorkPCs
<1>9. AlertsInv'
  <2>1. PendingIsApart'
    <3>1. ASSUME NEW k \in RunIds, proc'[k].pc \in {"send", "mark"}
          PROVE  k # i /\ ~Alone(i) /\ proc'[k] = proc[k]
      <4>1. k # i /\ proc'[k] = proc[k]
        BY <1>1, <1>4, <3>1
      <4>2. AtWork(k)
        BY <3>1, <4>1, WorkIs DEF WorkPCs
      <4>3. QED
        BY <1>8, <4>1, <4>2 DEF PipelineInv, OverlapsNoted, Alone
    <3>2. ASSUME NEW k \in RunIds, proc'[k].pc \in {"send", "mark"},
                 NEW a \in proc'[k].pending, NEW j \in RunIds,
                 j # k, Alone(j), a \in proc'[j].marked
          PROVE  Started(k) >= Started(j) + CooldownOf(a)
      <4>1. j # i /\ proc'[k] = proc[k] /\ proc'[j] = proc[j]
        BY <1>4, <3>1, <3>2
      <4>2. QED
        BY <1>0, <3>2, <4>1 DEF AlertsInv, PendingIsApart
    <3>3. QED
      BY <1>4, <1>6, <3>2 DEF PendingIsApart, CooldownOf
  <2>2. LastIsKept'
    <3>1. ASSUME NEW j \in RunIds, Alone(j), NEW a \in proc'[j].marked
          PROVE  alerts'[a].last >= Started(j)
      <4>1. a \in Alerts
        BY <1>0, <1>1, <1>4, <1>6 DEF ProcType
      <4>2. CASE j = i /\ a \in proc[i].pending
        BY <1>4, <1>5, <4>1, <4>2
      <4>3. CASE j # i /\ a \in proc[i].pending
        <5>1. a \in proc[j].marked
          BY <1>4, <4>3
        <5>2. Started(i) >= Started(j) + CooldownOf(a)
          BY <1>7, <3>1, <4>3, <5>1
        <5>3. QED
          BY <1>4, <1>5, <4>1, <4>3, <5>2, CooldownIsNat
      <4>4. CASE a \notin proc[i].pending
        <5>1. a \in proc[j].marked
          BY <1>1, <1>4, <4>4
        <5>2. QED
          BY <1>0, <1>5, <3>1, <4>1, <4>4, <5>1 DEF AlertsInv, LastIsKept
      <4>5. QED
        BY <4>2, <4>3, <4>4
    <3>2. QED
      BY <1>4, <1>6, <3>1 DEF LastIsKept
  <2>3. MarksAreApart'
    <3>1. ASSUME NEW j \in RunIds, NEW k \in RunIds, j # k, Alone(j), Alone(k),
                 NEW a \in proc'[j].marked \cap proc'[k].marked
          PROVE  \/ Started(k) >= Started(j) + CooldownOf(a)
                 \/ Started(j) >= Started(k) + CooldownOf(a)
      <4>1. CASE a \in proc[j].marked /\ a \in proc[k].marked
        BY <1>0, <3>1, <4>1 DEF AlertsInv, MarksAreApart
      <4>2. CASE a \notin proc[j].marked
        <5>1. j = i /\ a \in proc[i].pending /\ k # i /\ a \in proc[k].marked
          BY <1>1, <1>4, <3>1, <4>2
        <5>2. QED
          BY <1>7, <3>1, <5>1
      <4>3. CASE a \notin proc[k].marked
        <5>1. k = i /\ a \in proc[i].pending /\ j # i /\ a \in proc[j].marked
          BY <1>1, <1>4, <3>1, <4>3
        <5>2. QED
          BY <1>7, <3>1, <5>1
      <4>4. QED
        BY <4>1, <4>2, <4>3
    <3>2. QED
      BY <1>4, <1>6, <3>1 DEF MarksAreApart, CooldownOf
  <2>4. WaitersAreFresh'
    BY <1>0, <1>1, <1>4 DEF AlertsInv, WaitersAreFresh, At
  <2>5. QED
    BY <2>1, <2>2, <2>3, <2>4 DEF AlertsInv
<1>10. MailInv'
  BY <1>0, <1>1, <1>3, MailFrame
<1>11. v.k <= Len(StepList) /\ StepList[v.k] = Monitoring
  BY <1>0, <1>1 DEF TypeInv, StepsLast, Step
<1>12. QED
  BY <1>0, <1>1, <1>3, <1>5, <1>8, <1>9, <1>10, <1>11, OneMoves
  DEF TypeInv, PipelineTypeOK

\* A move after the steps, or one that ends the run: the alerts are as before.
LEMMA EndKeeps ==
    ASSUME PipelineInv, NEW i \in RunIds, NEW v, NEW w, Moved(i, v, w),
           UNCHANGED <<now, alerts>>, lock' \in [owner : Nat, at : Nat \cup {NoTime}],
           weekly' \subseteq Nat,
           v.pc \in {"finalize", "notify", "send_mail", "record_mail", "ended", "dead"},
           v.pc \in WorkPCs => AtWork(i),
           v.marked = proc[i].marked, v.met = proc[i].met,
           MailInv',
           v.failures =>
               /\ v.pc = "finalize" => w.rows[Monitoring] \in {"partial", "failed"}
               /\ v.pc = "notify" => w.status \in {"failed", "partial"},
           v.pc = "ended" /\ (w.status \in {"failed", "partial"} \/ v.failures) =>
               v.told \/ v.stored
    PROVE  PipelineInv'
<1>0. TypeInv /\ AlertsInv /\ alerts' \in [Alerts -> AlertType]
  BY Rows DEF PipelineInv
<1>1. AlertsInv'
  BY <1>0, AlertsFrame
<1>2. QED
  BY <1>0, <1>1, OneMoves

LEMMA UnlockedIsLock ==
    ASSUME TypeInv, NEW i \in RunIds
    PROVE  Unlocked(i) \in [owner : Nat, at : Nat \cup {NoTime}]
BY DEF Unlocked, NoRun, TypeInv, PipelineTypeOK

LEMMA ReleaseKeeps ==
    ASSUME PipelineInv, NEW i \in RunIds, Release(i)
    PROVE  PipelineInv'
<1> DEFINE v == [proc[i] EXCEPT !.pc = "finalize"]
<1>0. TypeInv /\ MailInv /\ proc[i] \in ProcType /\ proc[i].pc = "release" /\ AtWork(i)
      /\ UNCHANGED <<now, runs, alerts, weekly>> /\ weekly \subseteq Nat
      /\ lock' \in [owner : Nat, at : Nat \cup {NoTime}]
  BY Rows, WorkIs, UnlockedIsLock
  DEF PipelineInv, TypeInv, PipelineTypeOK, Release, At, WorkPCs
<1>1. /\ v \in ProcType /\ v.pc = "finalize" /\ v.marked = proc[i].marked
      /\ v.met = proc[i].met /\ v.told = proc[i].told
      /\ v.mailed = proc[i].mailed /\ v.stored = proc[i].stored
      /\ v.failures = proc[i].failures
  BY <1>0 DEF ProcType
<1>2. proc' = [proc EXCEPT ![i] = v]
  BY DEF Release, Goto
<1> HIDE DEF v
<1>3. Moved(i, v, runs[i])
  BY <1>0, <1>1, <1>2, ProcMoves
<1>4. MailInv'
  BY <1>0, <1>1, <1>3, MailFrame
<1>5. v.failures => runs[i].rows[Monitoring] \in {"partial", "failed"}
  BY <1>0, <1>1 DEF PipelineInv, FailuresTell
<1>6. QED
  BY <1>0, <1>1, <1>3, <1>4, <1>5, EndKeeps

\* A monitoring step that is not succeeded keeps the run from being so.
LEMMA FinalizeKeeps ==
    ASSUME PipelineInv, NEW i \in RunIds, Finalize(i)
    PROVE  PipelineInv'
<1> DEFINE v == [proc[i] EXCEPT !.pc = "notify"]
           w == [runs[i] EXCEPT !.status = Verdict(i)]
<1>0. TypeInv /\ MailInv /\ proc[i] \in ProcType /\ runs[i] \in RunType
      /\ proc[i].pc = "finalize" /\ AtWork(i)
      /\ UNCHANGED <<now, lock, alerts, weekly>> /\ weekly \subseteq Nat
      /\ lock' \in [owner : Nat, at : Nat \cup {NoTime}]
  BY Rows, WorkIs DEF PipelineInv, TypeInv, PipelineTypeOK, Finalize, At, WorkPCs
<1>1. /\ v \in ProcType /\ v.pc = "notify" /\ v.marked = proc[i].marked
      /\ v.met = proc[i].met /\ v.told = proc[i].told
      /\ v.mailed = proc[i].mailed /\ v.stored = proc[i].stored
      /\ v.failures = proc[i].failures
  BY <1>0 DEF ProcType
<1>2. Verdict(i) \in {"failed", "succeeded", "partial"}
  BY DEF Verdict
<1>3. w \in RunType /\ w.status = Verdict(i) /\ w.start = runs[i].start
      /\ w.profile = runs[i].profile
  BY <1>0, <1>2 DEF RunType
<1>4. proc' = [proc EXCEPT ![i] = v] /\ runs' = [runs EXCEPT ![i] = w]
  BY DEF Finalize, Goto
<1>5. proc[i].failures => Verdict(i) \in {"failed", "partial"}
  <2>1. SUFFICES ASSUME proc[i].failures
                 PROVE  Verdict(i) \in {"failed", "partial"}
    OBVIOUS
  <2>2. runs[i].rows[Monitoring] \in {"partial", "failed"}
    BY <1>0, <2>1 DEF PipelineInv, FailuresTell
  <2>3. Monitoring \in StepNames /\ Monitoring \notin StepsWith(i, "succeeded")
    BY <2>2, Constants DEF StepsWith
  <2>4. QED
    BY <2>3 DEF Verdict
<1> HIDE DEF v, w
<1>6. Moved(i, v, w)
  BY <1>0, <1>1, <1>3, <1>4, BothMove
<1>7. MailInv'
  BY <1>0, <1>1, <1>6, MailFrame
<1>8. QED
  BY <1>0, <1>1, <1>3, <1>5, <1>6, <1>7, EndKeeps

\* A weekly run whose day is free, or any daily run, may send; the runs that
\* have sent for the day and stored it have kept the day from being free.
LEMMA MayNotifyKeeps ==
    ASSUME PipelineInv, NEW i \in RunIds, At(i, "notify"), UNCHANGED <<now, runs, lock, alerts, weekly>>,
           runs[i].profile = "weekly" => Day(i) \notin weekly,
           Goto(i, "send_mail")
    PROVE  PipelineInv'
<1> DEFINE v == [proc[i] EXCEPT !.pc = "send_mail"]
<1>0. TypeInv /\ MailInv /\ proc[i] \in ProcType /\ proc[i].pc = "notify" /\ AtWork(i)
      /\ weekly \subseteq Nat /\ lock' \in [owner : Nat, at : Nat \cup {NoTime}]
  BY Rows, WorkIs DEF PipelineInv, TypeInv, PipelineTypeOK, At, WorkPCs
<1>1. /\ v \in ProcType /\ v.pc = "send_mail" /\ v.marked = proc[i].marked
      /\ v.met = proc[i].met /\ v.told = proc[i].told
      /\ v.mailed = proc[i].mailed /\ v.stored = proc[i].stored
      /\ v.failures = proc[i].failures
  BY <1>0 DEF ProcType
<1>2. proc' = [proc EXCEPT ![i] = v]
  BY DEF Goto
<1> HIDE DEF v
<1>3. Moved(i, v, runs[i])
  BY <1>0, <1>1, <1>2, ProcMoves
<1>4. /\ RunIds' = RunIds
      /\ \A j \in RunIds : (Day(j))' = Day(j) /\ (runs[j].profile)' = runs[j].profile
      /\ \A j \in RunIds : j # i => proc'[j] = proc[j]
      /\ proc'[i] = v
  BY <1>0, <1>3, MovedFacts
<1>5. ~proc[i].told /\ ~proc[i].stored
  BY <1>0 DEF MailInv, MailOrder, At
<1>6. MailOrder'
  BY <1>0, <1>1, <1>4, <1>5 DEF MailInv, MailOrder, At
<1>7. SendersMet'
  <2>1. \A j \in RunIds : runs[j].profile = "weekly" /\ proc[j].told /\ At(j, "ended")
                          => Day(j) \in weekly
    BY <1>0 DEF MailInv, MailOrder
  <2>2. QED
    BY <1>0, <1>1, <1>4, <1>5, <2>1 DEF MailInv, SendersMet, At
<1>8. ToldOnce'
  BY <1>0, <1>1, <1>4, <1>5, SMTT(30) DEF MailInv, ToldOnce, At
<1>9. MailInv'
  BY <1>6, <1>7, <1>8 DEF MailInv
<1>10. QED
  BY <1>0, <1>1, <1>3, <1>9, EndKeeps

EndsWith(i, stored) == proc' = [proc EXCEPT ![i].pc = "ended", ![i].stored = stored]

\* A run ends without a mail of its own: nobody sees it in the deliveries.
LEMMA EndsUnmailedKeeps ==
    ASSUME PipelineInv, NEW i \in RunIds, At(i, "notify"), UNCHANGED <<now, runs, lock, alerts, weekly>>,
           NEW stored \in BOOLEAN, EndsWith(i, stored),
           stored \/ ~Unhealthy(i)
    PROVE  PipelineInv'
<1> DEFINE v == [proc[i] EXCEPT !.pc = "ended", !.stored = stored]
<1>0. TypeInv /\ MailInv /\ proc[i] \in ProcType /\ proc[i].pc = "notify"
      /\ weekly \subseteq Nat /\ lock' \in [owner : Nat, at : Nat \cup {NoTime}]
  BY Rows DEF PipelineInv, TypeInv, PipelineTypeOK, At
<1>1. /\ v \in ProcType /\ v.pc = "ended" /\ v.marked = proc[i].marked
      /\ v.met = proc[i].met /\ v.told = proc[i].told
      /\ v.mailed = proc[i].mailed /\ v.stored = stored
      /\ v.failures = proc[i].failures
  BY <1>0 DEF ProcType
<1>2. proc' = [proc EXCEPT ![i] = v]
  BY DEF EndsWith
<1> HIDE DEF v
<1>3. Moved(i, v, runs[i])
  BY <1>0, <1>1, <1>2, ProcMoves
<1>4. /\ RunIds' = RunIds
      /\ \A j \in RunIds : (Day(j))' = Day(j) /\ (runs[j].profile)' = runs[j].profile
      /\ \A j \in RunIds : j # i => proc'[j] = proc[j]
      /\ proc'[i] = v
  BY <1>0, <1>3, MovedFacts
<1>5. ~proc[i].told
  BY <1>0 DEF MailInv, MailOrder
<1>6. MailOrder'
  BY <1>0, <1>1, <1>4, <1>5 DEF MailInv, MailOrder, At
<1>a. \A j \in RunIds : proc'[j].told \/ proc'[j].pc = "send_mail" =>
        j # i /\ proc'[j] = proc[j]
  BY <1>1, <1>4, <1>5
<1>7. SendersMet'
  BY <1>0, <1>4, <1>a DEF MailInv, SendersMet, At
<1>8. ToldOnce'
  BY <1>0, <1>4, <1>a DEF MailInv, ToldOnce, At
<1>9. MailInv'
  BY <1>6, <1>7, <1>8 DEF MailInv
<1>10. stored \/ (~v.failures /\ runs[i].status \notin {"failed", "partial"})
  BY <1>0, <1>1 DEF PipelineInv, FailuresTell, At, Unhealthy
<1>11. QED
  BY <1>0, <1>1, <1>3, <1>9, <1>10, EndKeeps DEF WorkPCs

LEMMA NotifyKeeps ==
    ASSUME PipelineInv, NEW i \in RunIds, NotifyDaily(i) \/ NotifyWeekly(i)
    PROVE  PipelineInv'
<1>0. At(i, "notify") /\ UNCHANGED <<now, runs, lock, alerts, weekly>>
      /\ proc[i] \in ProcType /\ ~proc[i].stored
  BY Rows DEF NotifyDaily, NotifyWeekly, PipelineInv, MailInv, MailOrder, At
<1>1. CASE NotifyDaily(i)
  <2>1. CASE Unhealthy(i) \/ Notifiable(i) # {}
    BY <1>0, <1>1, <2>1, MayNotifyKeeps DEF NotifyDaily
  <2>2. CASE ~(Unhealthy(i) \/ Notifiable(i) # {})
    <3>1. proc' = [proc EXCEPT ![i].pc = "ended"]
      BY <1>1, <2>2 DEF NotifyDaily, Goto
    <3>2. [proc[i] EXCEPT !.pc = "ended"] = [proc[i] EXCEPT !.pc = "ended", !.stored = FALSE]
      BY <1>0 DEF ProcType
    <3>3. proc' = [proc EXCEPT ![i].pc = "ended", ![i].stored = FALSE]
      BY <3>1, <3>2
    <3>4. QED
      BY <1>0, <2>2, <3>3, EndsUnmailedKeeps DEF EndsWith
  <2>3. QED
    BY <2>1, <2>2
<1>2. CASE NotifyWeekly(i)
  <2>1. CASE Day(i) \in weekly
    BY <1>0, <1>2, <2>1, EndsUnmailedKeeps DEF NotifyWeekly, EndsWith
  <2>2. CASE Day(i) \notin weekly
    BY <1>0, <1>2, <2>2, MayNotifyKeeps DEF NotifyWeekly, Goto
  <2>3. QED
    BY <2>1, <2>2
<1>3. QED
  BY <1>1, <1>2

LEMMA DayIsNat ==
    ASSUME TypeInv, NEW i \in RunIds
    PROVE  Day(i) \in Nat
<1>1. Started(i) \in Nat
  BY Rows DEF Started, RunType
<1>2. QED
  BY <1>1, Constants DEF Day

\* The mail leaves: whoever sent one for the day before has met this run, or
\* died before it could store it.
LEMMA SendMailKeeps ==
    ASSUME PipelineInv, NEW i \in RunIds, SendMail(i)
    PROVE  PipelineInv'
<1>1. PICK out \in BOOLEAN, delivered \in BOOLEAN :
        /\ delivered => out
        /\ proc' = [proc EXCEPT ![i].pc = "record_mail", ![i].mailed = out,
                                ![i].told = delivered]
  BY DEF SendMail
<1> DEFINE v == [proc[i] EXCEPT !.pc = "record_mail", !.mailed = out, !.told = delivered]
<1>2. proc' = [proc EXCEPT ![i] = v]
  BY <1>1
<1>0. TypeInv /\ MailInv /\ proc[i] \in ProcType /\ proc[i].pc = "send_mail" /\ AtWork(i)
      /\ UNCHANGED <<now, runs, lock, alerts, weekly>>
      /\ weekly \subseteq Nat /\ lock' \in [owner : Nat, at : Nat \cup {NoTime}]
  BY Rows, WorkIs DEF PipelineInv, TypeInv, PipelineTypeOK, SendMail, At, WorkPCs
<1>3. /\ v \in ProcType /\ v.pc = "record_mail" /\ v.marked = proc[i].marked
      /\ v.met = proc[i].met /\ v.stored = proc[i].stored
      /\ v.told => v.mailed
  BY <1>0, <1>1 DEF ProcType
<1> HIDE DEF v
<1>4. Moved(i, v, runs[i])
  BY <1>0, <1>2, <1>3, ProcMoves
<1>5. /\ RunIds' = RunIds
      /\ \A j \in RunIds : (Day(j))' = Day(j) /\ (runs[j].profile)' = runs[j].profile
      /\ \A j \in RunIds : j # i => proc'[j] = proc[j]
      /\ proc'[i] = v
  BY <1>0, <1>4, MovedFacts
<1>6. ~proc[i].stored
  BY <1>0 DEF MailInv, MailOrder, At
<1>7. MailOrder'
  BY <1>0, <1>3, <1>5, <1>6 DEF MailInv, MailOrder, At
<1>8. SendersMet'
  BY <1>0, <1>3, <1>5 DEF MailInv, SendersMet, At
<1>9. ASSUME NEW j \in RunIds, j # i, proc[j].told,
             runs[i].profile = "weekly", runs[j].profile = "weekly", Day(i) = Day(j)
      PROVE  (j \in proc[i].met /\ i \in proc[j].met) \/ (At(j, "dead") /\ ~proc[j].stored)
  <2>1. proc[j].pc \in {"record_mail", "ended", "dead"} /\ (proc[j].stored => At(j, "ended"))
    BY <1>0, <1>9 DEF MailInv, MailOrder
  <2>2. CASE proc[j].pc = "record_mail"
    <3>1. AtWork(j)
      BY <2>2, WorkIs DEF WorkPCs
    <3>2. QED
      BY <1>0, <1>9, <3>1 DEF PipelineInv, OverlapsNoted
  <2>3. CASE proc[j].pc = "ended"
    BY <1>0, <1>9, <2>3 DEF MailInv, SendersMet, At
  <2>4. CASE proc[j].pc = "dead"
    BY <2>1, <2>4 DEF At
  <2>5. QED
    BY <2>1, <2>2, <2>3, <2>4
<1>10. ToldOnce'
  <2>1. ASSUME NEW j \in RunIds, NEW k \in RunIds, j # k,
               runs[j].profile = "weekly", runs[k].profile = "weekly",
               proc'[j].told, proc'[k].told, Day(j) = Day(k)
        PROVE  k \in proc'[j].met \/ \E r \in {j, k} : proc'[r].pc = "dead" /\ ~proc'[r].stored
    <3>1. CASE j = i
      BY <1>3, <1>5, <1>9, <2>1, <3>1 DEF At
    <3>2. CASE k = i
      BY <1>3, <1>5, <1>9, <2>1, <3>2 DEF At
    <3>3. CASE j # i /\ k # i
      BY <1>0, <1>5, <2>1, <3>3 DEF MailInv, ToldOnce, At
    <3>4. QED
      BY <3>1, <3>2, <3>3
  <2>2. QED
    BY <1>0, <1>5, <2>1 DEF ToldOnce, At
<1>11. MailInv'
  BY <1>7, <1>8, <1>10 DEF MailInv
<1>12. QED
  BY <1>0, <1>3, <1>4, <1>11, EndKeeps

\* The delivery is stored: a run that is about to send at this time is at work.
LEMMA RecordMailKeeps ==
    ASSUME PipelineInv, NEW i \in RunIds, RecordMail(i)
    PROVE  PipelineInv'
<1> DEFINE keyed == proc[i].told /\ runs[i].profile = "weekly"
           stored == ~(keyed /\ Day(i) \in weekly)
           v == [proc[i] EXCEPT !.pc = "ended", !.stored = stored]
<1>0. TypeInv /\ MailInv /\ proc[i] \in ProcType /\ proc[i].pc = "record_mail" /\ AtWork(i)
      /\ UNCHANGED <<now, runs, lock, alerts>>
      /\ weekly \subseteq Nat /\ lock' \in [owner : Nat, at : Nat \cup {NoTime}]
  BY Rows, WorkIs DEF PipelineInv, TypeInv, PipelineTypeOK, RecordMail, At, WorkPCs
<1>1. /\ v \in ProcType /\ v.pc = "ended" /\ v.marked = proc[i].marked
      /\ v.met = proc[i].met /\ v.told = proc[i].told
      /\ v.mailed = proc[i].mailed /\ v.stored = stored
  BY <1>0 DEF ProcType
<1>2. proc' = [proc EXCEPT ![i] = v]
  BY DEF RecordMail
<1>3. /\ weekly' = IF keyed THEN weekly \cup {Day(i)} ELSE weekly
      /\ stored \/ proc[i].told
  BY DEF RecordMail
<1>4. weekly' \subseteq Nat /\ weekly \subseteq weekly'
      /\ (runs[i].profile = "weekly" /\ v.told => Day(i) \in weekly')
  BY <1>0, <1>1, <1>3, DayIsNat
<1> HIDE DEF v, stored, keyed
<1>5. Moved(i, v, runs[i])
  BY <1>0, <1>1, <1>2, ProcMoves
<1>6. /\ RunIds' = RunIds
      /\ \A j \in RunIds : (Day(j))' = Day(j) /\ (runs[j].profile)' = runs[j].profile
      /\ \A j \in RunIds : j # i => proc'[j] = proc[j]
      /\ proc'[i] = v
  BY <1>0, <1>5, MovedFacts
<1>7. MailOrder'
  <2>1. ASSUME NEW j \in RunIds, j # i
        PROVE  /\ proc'[j].told =>
                    proc'[j].mailed /\ proc'[j].pc \in {"record_mail", "ended", "dead"}
               /\ proc'[j].stored => proc'[j].pc = "ended"
               /\ runs[j].profile = "weekly" /\ proc'[j].told /\ proc'[j].pc = "ended" =>
                    Day(j) \in weekly'
    <3>1. proc'[j] = proc[j]
      BY <1>6, <2>1
    <3>2. QED
      BY <1>0, <1>4, <3>1 DEF MailInv, MailOrder, At
  <2>2. runs[i].profile = "weekly" /\ proc'[i].told => Day(i) \in weekly'
    BY <1>4, <1>6
  <2>3. proc'[i].pc = "ended" /\ (proc'[i].told => proc'[i].mailed)
    BY <1>0, <1>1, <1>6 DEF MailInv, MailOrder
  <2>4. \A j \in RunIds :
          /\ proc'[j].told =>
               proc'[j].mailed /\ proc'[j].pc \in {"record_mail", "ended", "dead"}
          /\ proc'[j].stored => proc'[j].pc = "ended"
          /\ runs[j].profile = "weekly" /\ proc'[j].told /\ proc'[j].pc = "ended" =>
                    Day(j) \in weekly'
    BY <2>1, <2>2, <2>3
  <2>5. QED
    BY <1>6, <2>4 DEF MailOrder, At
<1>8. SendersMet'
  <2>1. ASSUME NEW j \in RunIds, proc'[j].pc = "send_mail"
        PROVE  j # i /\ proc'[j] = proc[j] /\ i \in proc[j].met /\ j \in proc[i].met
    <3>1. j # i /\ proc'[j] = proc[j]
      BY <1>1, <1>6, <2>1
    <3>2. AtWork(j)
      BY <2>1, <3>1, WorkIs DEF WorkPCs
    <3>3. QED
      BY <1>0, <3>1, <3>2 DEF PipelineInv, OverlapsNoted
  <2>2. QED
    BY <1>0, <1>1, <1>6, <2>1 DEF MailInv, SendersMet, At
<1>9. ToldOnce'
  <2>1. \A j \in RunIds : /\ proc'[j].told = proc[j].told /\ proc'[j].met = proc[j].met
                          /\ proc[j].pc = "dead" => proc'[j] = proc[j]
    BY <1>0, <1>1, <1>6
  <2>2. QED
    BY <1>0, <1>6, <2>1 DEF MailInv, ToldOnce, At
<1>10. MailInv'
  BY <1>7, <1>8, <1>9 DEF MailInv
<1>11. QED
  BY <1>0, <1>1, <1>3, <1>4, <1>5, <1>10, EndKeeps DEF WorkPCs

\* A run dies, or its steps raise: a mail it has sent is one without a row.
LEMMA DiesKeeps ==
    ASSUME PipelineInv, NEW i \in RunIds, Dies(i) \/ StepsRaise(i)
    PROVE  PipelineInv'
<1> DEFINE v == [proc[i] EXCEPT !.pc = "dead"]
<1>0. TypeInv /\ MailInv /\ proc[i] \in ProcType
      /\ proc[i].pc \notin {"ended", "dead"}
      /\ UNCHANGED <<now, runs, alerts, weekly>> /\ weekly \subseteq Nat
      /\ lock' \in [owner : Nat, at : Nat \cup {NoTime}]
  BY Rows, UnlockedIsLock
  DEF PipelineInv, TypeInv, PipelineTypeOK, Dies, StepsRaise, Alive, Working, Reporting, At
<1>1. /\ v \in ProcType /\ v.pc = "dead" /\ v.marked = proc[i].marked
      /\ v.met = proc[i].met /\ v.told = proc[i].told
      /\ v.mailed = proc[i].mailed /\ v.stored = proc[i].stored
  BY <1>0 DEF ProcType
<1>2. proc' = [proc EXCEPT ![i] = v]
  BY DEF Dies, StepsRaise, Goto
<1> HIDE DEF v
<1>3. Moved(i, v, runs[i])
  BY <1>0, <1>1, <1>2, ProcMoves
<1>4. /\ RunIds' = RunIds
      /\ \A j \in RunIds : (Day(j))' = Day(j) /\ (runs[j].profile)' = runs[j].profile
      /\ \A j \in RunIds : j # i => proc'[j] = proc[j]
      /\ proc'[i] = v
  BY <1>0, <1>3, MovedFacts
<1>5. ~proc[i].stored
  BY <1>0 DEF MailInv, MailOrder, At
<1>6. MailOrder'
  BY <1>0, <1>1, <1>4, <1>5 DEF MailInv, MailOrder, At
<1>7. SendersMet'
  BY <1>0, <1>1, <1>4 DEF MailInv, SendersMet, At
<1>8. ToldOnce'
  BY <1>0, <1>1, <1>4, <1>5 DEF MailInv, ToldOnce, At
<1>9. MailInv'
  BY <1>6, <1>7, <1>8 DEF MailInv
<1>10. QED
  BY <1>0, <1>1, <1>3, <1>9, EndKeeps DEF WorkPCs

\* The lock is taken: everybody at work notes it, and it notes everybody.
LEMMA AcquireKeeps ==
    ASSUME PipelineInv, NEW i \in RunIds, Acquire(i)
    PROVE  PipelineInv'
<1> DEFINE others == {j \in RunIds : AtWork(j)}
           next(j) == IF j = i THEN [proc[i] EXCEPT !.pc = "step", !.met = others]
                      ELSE IF j \in others THEN [proc[j] EXCEPT !.met = @ \cup {i}]
                      ELSE proc[j]
<1>0. /\ TypeInv /\ AlertsInv /\ MailInv /\ proc[i].pc = "acquire"
      /\ UNCHANGED <<now, runs, alerts, weekly>>
      /\ i \in Nat /\ RunIds \subseteq Nat /\ RunIds' = RunIds
      /\ RunIds = 1 .. Len(runs) /\ Len(runs) \in Nat
  <2>1. TypeInv /\ AlertsInv /\ MailInv
    BY DEF PipelineInv
  <2>2. proc[i].pc = "acquire" /\ UNCHANGED <<now, runs, alerts, weekly>>
    BY DEF Acquire, At
  <2>3. RunIds = 1 .. Len(runs) /\ Len(runs) \in Nat
    BY <2>1, Rows
  <2>4. RunIds' = RunIds
    BY <2>2 DEF RunIds
  <2>5. i \in Nat /\ RunIds \subseteq Nat
    BY <2>3
  <2>6. QED
    BY <2>1, <2>2, <2>3, <2>4, <2>5
<1>1. \A j \in RunIds : proc[j] \in ProcType
  BY <1>0, Rows
<1>2. proc' = [j \in RunIds |-> next(j)]
  BY DEF Acquire, AtWork
<1>3. i \notin others
  BY <1>0, WorkIs DEF WorkPCs
<1>4. \A j \in RunIds : next(j) \in ProcType
  <2>1. others \subseteq Nat
    BY <1>0
  <2>2. next(i) \in ProcType
    BY <1>1, <2>1 DEF ProcType
  <2>3. ASSUME NEW j \in RunIds
        PROVE  [proc[j] EXCEPT !.met = @ \cup {i}] \in ProcType
    <3>1. proc[j] \in ProcType /\ proc[j].met \subseteq Nat
      BY <1>1 DEF ProcType
    <3>2. proc[j].met \cup {i} \in SUBSET Nat
      BY <1>0, <3>1
    <3>3. QED
      BY <3>1, <3>2 DEF ProcType
  <2>4. QED
    BY <1>1, <2>2, <2>3
<1>5. proc' \in Seq(ProcType) /\ Len(proc') = Len(runs)
  <2>1. proc' \in [1 .. Len(runs) -> ProcType]
    BY <1>0, <1>2, <1>4
  <2>2. proc' \in Seq(ProcType)
    BY <1>0, <2>1, SeqDef, SMTT(30)
  <2>3. QED
    BY <1>0, <2>1, <2>2, LenProperties
<1>6. /\ proc'[i].pc = "step" /\ proc'[i].met = others
      /\ \A j \in RunIds : j # i => /\ proc'[j].pc = proc[j].pc
                                    /\ proc[j].met \subseteq proc'[j].met
                                    /\ j \in others => i \in proc'[j].met
      /\ \A j \in RunIds : /\ proc'[j].k = proc[j].k /\ proc'[j].marked = proc[j].marked
                           /\ proc'[j].pending = proc[j].pending
                           /\ proc'[j].told = proc[j].told
                           /\ proc'[j].mailed = proc[j].mailed
                           /\ proc'[j].stored = proc[j].stored
                           /\ proc'[j].failures = proc[j].failures
  BY <1>1, <1>2 DEF ProcType
<1>7. TypeInv'
  <2>1. PipelineTypeOK'
    BY <1>0, <1>5, Rows DEF TypeInv, PipelineTypeOK, Acquire, Started, RunType
  <2>2. StepsLast'
    BY <1>0, <1>6, SMTT(30) DEF TypeInv, StepsLast, Step
  <2>3. QED
    BY <2>1, <2>2 DEF TypeInv
<1>8. \A j \in RunIds : (AtWork(j))' => j = i \/ AtWork(j)
  BY <1>6, WorkIs DEF AtWork, Working, Reporting
<1> HIDE DEF next
<1>9. OverlapsNoted'
  <2>1. ASSUME NEW j \in RunIds, NEW k \in RunIds, j # k, (AtWork(j))', (AtWork(k))'
        PROVE  k \in proc'[j].met
    <3>1. CASE j = i
      BY <1>6, <1>8, <2>1, <3>1
    <3>2. CASE k = i
      BY <1>6, <1>8, <2>1, <3>2
    <3>3. CASE j # i /\ k # i
      BY <1>6, <1>8, <2>1, <3>3 DEF PipelineInv, OverlapsNoted
    <3>4. QED
      BY <3>1, <3>2, <3>3
  <2>2. QED
    BY <1>0, <2>1 DEF OverlapsNoted
<1> HIDE DEF others
<1>10. AlertsInv'
  <2>1. proc[i].marked = {}
    BY <1>0 DEF AlertsInv, WaitersAreFresh, At
  <2>2. \A j \in RunIds : j # i /\ (Alone(j))' => Alone(j)
    BY <1>6 DEF Alone
  <2>3. \A j \in RunIds : (Started(j))' = Started(j)
    BY <1>0 DEF Started
  <2>4. PendingIsApart'
    BY <1>0, <1>6, <2>1, <2>2, <2>3, SMTT(30) DEF AlertsInv, PendingIsApart, CooldownOf
  <2>5. LastIsKept'
    BY <1>0, <1>6, <2>1, <2>2, <2>3 DEF AlertsInv, LastIsKept
  <2>6. MarksAreApart'
    <3>1. ASSUME NEW j \in RunIds, NEW k \in RunIds, j # k, (Alone(j))', (Alone(k))',
                 NEW a \in proc'[j].marked \cap proc'[k].marked
          PROVE  \/ Started(k) >= Started(j) + CooldownOf(a)
                 \/ Started(j) >= Started(k) + CooldownOf(a)
      <4>1. proc'[j].marked = proc[j].marked /\ proc'[k].marked = proc[k].marked
        BY <1>6
      <4>2. j # i /\ k # i /\ Alone(j) /\ Alone(k)
        BY <2>1, <2>2, <3>1, <4>1
      <4>3. QED
        BY <1>0, <3>1, <4>1, <4>2 DEF AlertsInv, MarksAreApart
    <3>2. QED
      BY <1>0, <2>3, <3>1, SMTT(30) DEF MarksAreApart, CooldownOf
  <2>7. WaitersAreFresh'
    BY <1>0, <1>6 DEF AlertsInv, WaitersAreFresh, At
  <2>8. QED
    BY <2>4, <2>5, <2>6, <2>7 DEF AlertsInv
<1>11. MailInv'
  <2>1. ~proc[i].told /\ ~proc[i].stored
    BY <1>0 DEF MailInv, MailOrder, At
  <2>2. \A j \in RunIds : (Day(j))' = Day(j)
    BY <1>0 DEF Day, Started
  <2>3. MailOrder'
    BY <1>0, <1>6, <2>1, <2>2, SMTT(30) DEF MailInv, MailOrder, At
  <2>4. SendersMet'
    <3>1. ASSUME NEW j \in RunIds, NEW k \in RunIds, j # k,
                 runs[j].profile = "weekly", runs[k].profile = "weekly", Day(j) = Day(k),
                 proc'[k].pc = "send_mail", proc'[j].told, proc'[j].pc = "ended"
          PROVE  j \in proc'[k].met /\ k \in proc'[j].met
      <4>1. j # i /\ k # i
        BY <1>6, <3>1
      <4>2. j \in proc[k].met /\ k \in proc[j].met
        BY <1>0, <1>6, <3>1, <4>1, SMTT(30) DEF MailInv, SendersMet, At
      <4>3. QED
        BY <1>6, <4>1, <4>2
    <3>2. QED
      BY <1>0, <2>2, <3>1, SMTT(30) DEF SendersMet, At
  <2>5. ToldOnce'
    <3>1. ASSUME NEW j \in RunIds, NEW k \in RunIds, j # k,
                 runs[j].profile = "weekly", runs[k].profile = "weekly", Day(j) = Day(k),
                 proc'[j].told, proc'[k].told
          PROVE  \/ k \in proc'[j].met
                 \/ \E r \in {j, k} : proc'[r].pc = "dead" /\ ~proc'[r].stored
      <4>1. j # i /\ k # i
        BY <1>6, <2>1, <3>1
      <4>a. proc[j].told /\ proc[k].told
        BY <1>6, <3>1
      <4>2. \/ k \in proc[j].met
            \/ \E r \in {j, k} : proc[r].pc = "dead" /\ ~proc[r].stored
        BY <1>0, <3>1, <4>a DEF MailInv, ToldOnce, At
      <4>3. QED
        BY <1>6, <4>1, <4>2
    <3>2. QED
      BY <1>0, <2>2, <3>1 DEF ToldOnce, At
  <2>6. QED
    BY <2>3, <2>4, <2>5 DEF MailInv
<1>12. FailuresTell'
  BY <1>0, <1>6, SMTT(30) DEF PipelineInv, FailuresTell, At, Unhealthy
<1>13. TroubleIsReported'
  BY <1>0, <1>6 DEF PipelineInv, TroubleIsReported, At, Unhealthy
<1>14. QED
  BY <1>7, <1>9, <1>10, <1>11, <1>12, <1>13 DEF PipelineInv

\* A new run has done nothing yet.
LEMMA BeginKeeps ==
    ASSUME PipelineInv, NEW profile \in {"daily", "weekly"}, NEW t \in 0 .. MaxTime,
           Begin(profile, t)
    PROVE  PipelineInv'
<1> DEFINE n == Len(runs) + 1
           row == [profile |-> profile, status |-> "running", start |-> t,
                   rows |-> [s \in StepNames |-> "none"]]
<1>0. /\ TypeInv /\ AlertsInv /\ MailInv /\ UNCHANGED <<lock, alerts, weekly>>
      /\ Len(runs) \in Nat /\ RunIds = 1 .. Len(runs)
      /\ runs \in Seq(RunType) /\ proc \in Seq(ProcType) /\ Len(proc) = Len(runs)
      /\ t \in Nat
  <2>1. MaxTime \in Nat
    BY Zenon DEF PipelineAssumption
  <2>2. QED
    BY <2>1, Rows DEF PipelineInv, Begin, TypeInv, PipelineTypeOK
<1>1. NewProc \in ProcType /\ NewProc.pc = "acquire" /\ NewProc.k = 1 /\ NewProc.marked = {}
      /\ ~NewProc.told /\ ~NewProc.stored /\ ~NewProc.failures
  BY Constants DEF NewProc, ProcType
<1>2. row \in RunType
  BY <1>0 DEF RunType, StepStatus
<1> HIDE DEF row
<1>3. runs' = Append(runs, row) /\ proc' = Append(proc, NewProc) /\ now' = t
  BY DEF Begin, row
<1>4. /\ runs' \in Seq(RunType) /\ proc' \in Seq(ProcType)
      /\ Len(runs') = n /\ Len(proc') = n /\ RunIds' = RunIds \cup {n} /\ n \notin RunIds
      /\ runs'[n] = row /\ proc'[n] = NewProc
      /\ \A j \in RunIds : runs'[j] = runs[j] /\ proc'[j] = proc[j]
  <2>1. /\ runs' \in Seq(RunType) /\ Len(runs') = n /\ runs'[n] = row
        /\ \A j \in 1 .. Len(runs) : runs'[j] = runs[j]
    BY <1>0, <1>2, <1>3
  <2>2. /\ proc' \in Seq(ProcType) /\ Len(proc') = n /\ proc'[n] = NewProc
        /\ \A j \in 1 .. Len(runs) : proc'[j] = proc[j]
    BY <1>0, <1>1, <1>3
  <2>3. RunIds' = 1 .. n
    BY <2>1 DEF RunIds
  <2>4. QED
    BY <1>0, <2>1, <2>2, <2>3
<1> HIDE DEF n
<1>5. /\ \A j \in RunIds : (Started(j))' = Started(j) /\ (Day(j))' = Day(j)
      /\ \A j \in RunIds : (Alone(j))' = Alone(j)
  BY <1>4 DEF Started, Day, Alone
<1>6. TypeInv'
  <2>1. PipelineTypeOK'
    BY <1>0, <1>3, <1>4 DEF TypeInv, PipelineTypeOK
  <2>2. StepsLast'
    BY <1>0, <1>1, <1>4, Constants DEF TypeInv, StepsLast, Step
  <2>3. QED
    BY <2>1, <2>2 DEF TypeInv
<1>7. OverlapsNoted'
  <2>1. \A j \in RunIds' : (AtWork(j))' => j \in RunIds /\ AtWork(j)
    BY <1>1, <1>4, WorkIs DEF AtWork, Working, Reporting
  <2>2. QED
    BY <1>4, <2>1 DEF PipelineInv, OverlapsNoted
<1>8. AlertsInv'
  <2>1. PendingIsApart'
    <3>1. ASSUME NEW k \in RunIds', proc'[k].pc \in {"send", "mark"},
                 NEW a \in proc'[k].pending, NEW i \in RunIds', i # k, (Alone(i))',
                 a \in proc'[i].marked
          PROVE  (Started(k) >= Started(i) + CooldownOf(a))'
      <4>1. k \in RunIds /\ proc'[k] = proc[k]
        BY <1>1, <1>4, <3>1
      <4>2. i \in RunIds /\ proc'[i] = proc[i]
        BY <1>1, <1>4, <3>1
      <4>3. Alone(i)
        BY <1>5, <3>1, <4>2
      <4>4. Started(k) >= Started(i) + CooldownOf(a)
        BY <1>0, <3>1, <4>1, <4>2, <4>3 DEF AlertsInv, PendingIsApart
      <4>5. QED
        BY <1>5, <4>1, <4>2, <4>4 DEF CooldownOf
    <3>2. QED
      BY <3>1 DEF PendingIsApart, CooldownOf
  <2>2. LastIsKept'
    <3>1. ASSUME NEW i \in RunIds', (Alone(i))', NEW a \in proc'[i].marked
          PROVE  alerts'[a].last >= (Started(i))'
      <4>1. i \in RunIds /\ proc'[i] = proc[i]
        BY <1>1, <1>4, <3>1
      <4>2. Alone(i)
        BY <1>5, <3>1, <4>1
      <4>3. alerts[a].last >= Started(i)
        BY <1>0, <3>1, <4>1, <4>2 DEF AlertsInv, LastIsKept
      <4>4. QED
        BY <1>0, <1>5, <4>1, <4>3
    <3>2. QED
      BY <3>1 DEF LastIsKept
  <2>3. MarksAreApart'
    <3>1. ASSUME NEW i \in RunIds', NEW j \in RunIds', i # j, (Alone(i))', (Alone(j))',
                 NEW a \in proc'[i].marked \cap proc'[j].marked
          PROVE  (\/ Started(j) >= Started(i) + CooldownOf(a)
                  \/ Started(i) >= Started(j) + CooldownOf(a))'
      <4>1. i \in RunIds /\ proc'[i] = proc[i]
        BY <1>1, <1>4, <3>1
      <4>2. j \in RunIds /\ proc'[j] = proc[j]
        BY <1>1, <1>4, <3>1
      <4>3. Alone(i) /\ Alone(j)
        BY <1>5, <3>1, <4>1, <4>2
      <4>4. \/ Started(j) >= Started(i) + CooldownOf(a)
            \/ Started(i) >= Started(j) + CooldownOf(a)
        BY <1>0, <3>1, <4>1, <4>2, <4>3 DEF AlertsInv, MarksAreApart
      <4>5. QED
        BY <1>5, <4>1, <4>2, <4>4 DEF CooldownOf
    <3>2. QED
      BY <3>1 DEF MarksAreApart, CooldownOf
  <2>4. WaitersAreFresh'
    BY <1>0, <1>1, <1>4 DEF AlertsInv, WaitersAreFresh, At
  <2>5. QED
    BY <2>1, <2>2, <2>3, <2>4 DEF AlertsInv
<1>9. MailInv'
  <2>1. MailOrder'
    BY <1>0, <1>1, <1>4, <1>5 DEF MailInv, MailOrder, At
  <2>2. SendersMet'
    <3>1. ASSUME NEW i \in RunIds', NEW j \in RunIds', i # j,
                 runs'[i].profile = "weekly", runs'[j].profile = "weekly",
                 (Day(i) = Day(j))', proc'[j].pc = "send_mail", proc'[i].told,
                 proc'[i].pc = "ended"
          PROVE  i \in proc'[j].met /\ j \in proc'[i].met
      <4>1. i \in RunIds /\ proc'[i] = proc[i] /\ runs'[i] = runs[i]
        BY <1>1, <1>4, <3>1
      <4>2. j \in RunIds /\ proc'[j] = proc[j] /\ runs'[j] = runs[j]
        BY <1>1, <1>4, <3>1
      <4>3. Day(i) = Day(j)
        BY <1>5, <3>1, <4>1, <4>2
      <4>4. QED
        BY <1>0, <3>1, <4>1, <4>2, <4>3 DEF MailInv, SendersMet, At
    <3>2. QED
      BY <3>1 DEF SendersMet, At
  <2>3. ToldOnce'
    <3>1. ASSUME NEW i \in RunIds', NEW j \in RunIds', i # j,
                 runs'[i].profile = "weekly", runs'[j].profile = "weekly",
                 (Day(i) = Day(j))', proc'[i].told, proc'[j].told
          PROVE  \/ j \in proc'[i].met
                 \/ \E r \in {i, j} : proc'[r].pc = "dead" /\ ~proc'[r].stored
      <4>1. i \in RunIds /\ proc'[i] = proc[i] /\ runs'[i] = runs[i]
        BY <1>1, <1>4, <3>1
      <4>2. j \in RunIds /\ proc'[j] = proc[j] /\ runs'[j] = runs[j]
        BY <1>1, <1>4, <3>1
      <4>3. Day(i) = Day(j)
        BY <1>5, <3>1, <4>1, <4>2
      <4>4. QED
        BY <1>0, <3>1, <4>1, <4>2, <4>3 DEF MailInv, ToldOnce, At
    <3>2. QED
      BY <3>1 DEF ToldOnce, At
  <2>4. QED
    BY <2>1, <2>2, <2>3 DEF MailInv
<1>10. FailuresTell'
  BY <1>1, <1>4 DEF PipelineInv, FailuresTell, At, Unhealthy
<1>11. TroubleIsReported'
  BY <1>1, <1>4 DEF PipelineInv, TroubleIsReported, At, Unhealthy
<1>12. QED
  BY <1>6, <1>7, <1>8, <1>9, <1>10, <1>11 DEF PipelineInv

\* What people do to an alert leaves its time, so its cooldown goes on.
LEMMA PeopleKeep ==
    ASSUME PipelineInv, NEW a \in Handled, Acknowledge(a) \/ Resolve(a)
    PROVE  PipelineInv'
<1>1. /\ TypeInv /\ alerts \in [Alerts -> AlertType] /\ a \in Alerts
      /\ UNCHANGED <<now, runs, lock, weekly, proc>>
  <2>1. Handled \subseteq Alerts
    BY Zenon DEF PipelineAssumption
  <2>2. QED
    BY <2>1, Rows DEF PipelineInv, Acknowledge, Resolve
<1>2. alerts' \in [Alerts -> AlertType] /\ \A b \in Alerts : alerts'[b].last = alerts[b].last
  <2>1. PICK s \in {"acknowledged", "resolved"} :
          alerts' = [alerts EXCEPT ![a] = [alerts[a] EXCEPT !.status = s]]
    BY DEF Acknowledge, Resolve
  <2>2. alerts[a] \in AlertType
    BY <1>1
  <2>3. /\ [alerts[a] EXCEPT !.status = s] \in AlertType
        /\ [alerts[a] EXCEPT !.status = s].last = alerts[a].last
    BY <2>2 DEF AlertType
  <2>4. QED
    BY <1>1, <2>1, <2>3
<1>3. RunIds' = RunIds /\ \A j \in RunIds : proc[j].marked \subseteq Alerts
  BY <1>1, Rows DEF RunIds, ProcType
<1>4. TypeInv'
  BY <1>1, <1>2, <1>3 DEF TypeInv, PipelineTypeOK, StepsLast, Step
<1>5. AlertsInv'
  BY <1>1, <1>2, <1>3
  DEF PipelineInv, AlertsInv, PendingIsApart, LastIsKept, MarksAreApart, WaitersAreFresh,
      Alone, Started, CooldownOf, At
<1>6. OverlapsNoted' /\ FailuresTell' /\ TroubleIsReported'
  BY <1>1, <1>3
  DEF PipelineInv, OverlapsNoted, AtWork, Working, Reporting, FailuresTell, At, Unhealthy,
      TroubleIsReported
<1>7. MailInv'
  BY <1>1, <1>3
  DEF PipelineInv, MailInv, MailOrder, SendersMet, ToldOnce, At, Day, Started
<1>8. QED
  BY <1>4, <1>5, <1>6, <1>7 DEF PipelineInv

----------------------------------------------------------------------------
(* The theorems.                                                           *)

LEMMA PipelineInitially ==
    ASSUME Init
    PROVE  PipelineInv
<1>1. RunIds = {} /\ proc = <<>> /\ runs = <<>>
  BY EmptySeq DEF Init, RunIds
<1>2. PipelineTypeOK
  <2>1. NoAlert \in AlertType
    BY DEF NoAlert, AlertType, NoRun
  <2>2. QED
    BY <1>1, <2>1, EmptySeq DEF Init, PipelineTypeOK, NoRun
<1>3. QED
  BY <1>1, <1>2
  DEF PipelineInv, TypeInv, StepsLast, OverlapsNoted, AlertsInv, PendingIsApart, LastIsKept,
      MarksAreApart, WaitersAreFresh, MailInv, MailOrder, SendersMet, ToldOnce,
      FailuresTell, TroubleIsReported

LEMMA PipelineStep ==
    ASSUME PipelineInv, [PipelineNext]_vars
    PROVE  PipelineInv'
<1>1. ASSUME NEW i \in RunIds, Executes(i)
      PROVE  PipelineInv'
  BY <1>1, AcquireKeeps, ConflictKeeps, StepKeeps, EvaluateKeeps, SendKeeps, MarkKeeps,
     ResolveKeeps, ReleaseKeeps, FinalizeKeeps, NotifyKeeps, SendMailKeeps, RecordMailKeeps
  DEF Executes
<1>2. ASSUME NEW i \in RunIds, Dies(i) \/ StepsRaise(i)
      PROVE  PipelineInv'
  BY <1>2, DiesKeeps
<1>3. ASSUME NEW profile \in {"daily", "weekly"}, NEW t \in 0 .. MaxTime, Begin(profile, t)
      PROVE  PipelineInv'
  BY <1>3, BeginKeeps
<1>4. ASSUME NEW a \in Handled, Acknowledge(a) \/ Resolve(a)
      PROVE  PipelineInv'
  BY <1>4, PeopleKeep
<1>5. CASE UNCHANGED vars
  <2>1. UNCHANGED <<now, runs, lock, alerts, weekly, proc>>
    BY <1>5 DEF vars
  <2>2. RunIds' = RunIds
    BY <2>1 DEF RunIds
  <2>3. TypeInv'
    BY <2>1, <2>2 DEF PipelineInv, TypeInv, PipelineTypeOK, StepsLast, Step
  <2>4. AlertsInv'
    BY <2>1, <2>2
    DEF PipelineInv, AlertsInv, PendingIsApart, LastIsKept, MarksAreApart, WaitersAreFresh,
        Alone, Started, CooldownOf, At
  <2>5. OverlapsNoted' /\ FailuresTell' /\ TroubleIsReported'
    BY <2>1, <2>2
    DEF PipelineInv, OverlapsNoted, AtWork, Working, Reporting, FailuresTell, At, Unhealthy,
        TroubleIsReported
  <2>6. MailInv'
    BY <2>1, <2>2
    DEF PipelineInv, MailInv, MailOrder, SendersMet, ToldOnce, At, Day, Started
  <2>7. QED
    BY <2>3, <2>4, <2>5, <2>6 DEF PipelineInv
<1>6. QED
  BY <1>1, <1>2, <1>3, <1>4, <1>5 DEF PipelineNext

\* Runs at work together have met, and a run that met nobody keeps its cooldown
\* and its delivery for those that come after it.
THEOREM PipelineInvariant == PipelineSpec => []PipelineInv
<1>1. Init => PipelineInv
  BY PipelineInitially
<1>2. PipelineInv /\ [PipelineNext]_vars => PipelineInv'
  BY PipelineStep
<1>3. QED
  BY <1>1, <1>2, PTL DEF PipelineSpec

\* Every run, alert and process holds a value of its type.
THEOREM PipelineTypeCorrect == PipelineSpec => []PipelineTypeOK
<1>1. PipelineInv => PipelineTypeOK
  BY DEF PipelineInv, TypeInv
<1>2. QED
  BY <1>1, PipelineInvariant, PTL

\* Two runs that met nobody and both marked an alert are its cooldown apart,
\* however people handled it in between.
THEOREM CooldownKeptCorrect == PipelineSpec => []CooldownKept
<1>1. PipelineInv => CooldownKept
  <2>1. SUFFICES ASSUME PipelineInv, NEW i \in RunIds, NEW j \in RunIds, i # j,
                        Started(i) <= Started(j), Alone(i), Alone(j),
                        NEW a \in proc[i].marked \cap proc[j].marked
                 PROVE  Started(j) >= Started(i) + CooldownOf(a)
    BY DEF CooldownKept, Alone
  <2>2. \/ Started(j) >= Started(i) + CooldownOf(a)
        \/ Started(i) >= Started(j) + CooldownOf(a)
    BY <2>1 DEF PipelineInv, AlertsInv, MarksAreApart
  <2>3. Started(i) \in Nat /\ Started(j) \in Nat
    BY <2>1, Rows DEF PipelineInv, Started, RunType
  <2>4. QED
    BY <2>1, <2>2, <2>3, CooldownIsNat
<1>2. QED
  BY <1>1, PipelineInvariant, PTL

\* Two weekly mails for one day leave only if a run died before it stored its
\* mail, a mail was reported as failed that had gone out, or the two runs met.
THEOREM WeeklyMailedOnceCorrect == PipelineSpec => []WeeklyMailedOnce
<1>1. PipelineInv => WeeklyMailedOnce
  BY DEF PipelineInv, MailInv, ToldOnce, WeeklyMailedOnce
<1>2. QED
  BY <1>1, PipelineInvariant, PTL

\* A run that ended with anything wrong, a failed mail about an alert included,
\* has sent its own mail or stored why not.
THEOREM TroubleIsReportedCorrect == PipelineSpec => []TroubleIsReported
<1>1. PipelineInv => TroubleIsReported
  BY DEF PipelineInv
<1>2. QED
  BY <1>1, PipelineInvariant, PTL

=============================================================================
