----------------------- MODULE ChangeApplication_proofs -----------------------
(***************************************************************************)
(* Proofs about the managed content update, for any contents, keys,        *)
(* operators and number of runs, and about the application of change       *)
(* requests on top of it.  Updates made one at a time never leave two runs *)
(* open and never lose track of what WordPress has.  An application only   *)
(* ever does to the content update what ContentUpdate allows, so all that  *)
(* is proved of the update carries over.                                   *)
(***************************************************************************)
EXTENDS ChangeApplication, TLAPS

USE ContentAssumption, NoRawAssumption

TypeInv == ContentTypeOK /\ SucceededRows /\ CallRows

LEMMA RawIsRaw == \A c \in Contents : Raw(c) \in Raws
BY DEF Raw, Raws

\* The newest of the succeeded rows exists, so the baselines are values.
LEMMA NewestSucceeded ==
    ASSUME SucceededRows, Succeeded # {}
    PROVE  Newest(Succeeded) \in Succeeded
BY DEF SucceededRows, Newest

LEMMA BaselineType ==
    ASSUME TypeInv
    PROVE  Baseline \in Raws /\ LastSubmitted \in Contents
<1>1. CASE Succeeded = {}
  BY <1>1, RawIsRaw DEF Baseline, LastSubmitted
<1>2. CASE Succeeded # {}
  <2>1. Newest(Succeeded) \in Succeeded
    BY <1>2, NewestSucceeded DEF TypeInv
  <2>2. runs[Newest(Succeeded)] \in Row
    BY <2>1 DEF TypeInv, ContentTypeOK, Succeeded, RunIds
  <2>3. QED
    BY <1>2, <2>1, <2>2 DEF Baseline, LastSubmitted, TypeInv, SucceededRows, Row
<1>3. QED
  BY <1>1, <1>2

\* When the last row has succeeded, it is the baseline.
LEMMA LastSucceeded ==
    ASSUME TypeInv, Len(runs) \in Succeeded
    PROVE  Newest(Succeeded) = Len(runs)
<1>1. Len(runs) \in Nat /\ Succeeded \subseteq 1 .. Len(runs)
  <2>1. runs \in Seq(Row)
    BY DEF TypeInv, ContentTypeOK
  <2>2. QED
    BY <2>1 DEF Succeeded, RunIds
<1>2. \E i \in Succeeded : \A j \in Succeeded : j <= i
  BY DEF TypeInv, SucceededRows
<1>3. Newest(Succeeded) \in Succeeded /\ \A j \in Succeeded : j <= Newest(Succeeded)
  BY <1>2 DEF Newest
<1>4. Newest(Succeeded) \in 1 .. Len(runs) /\ Len(runs) <= Newest(Succeeded)
  BY <1>1, <1>3
<1>5. QED
  BY <1>1, <1>4

LEMMA IdleType == Idle \in Call
BY RawIsRaw DEF Idle, Call, Steps, Verdicts

\* What is said of the rows alone stays when they do.
LEMMA RowlessKeeps ==
    ASSUME runs' = runs
    PROVE  /\ RunIds' = RunIds /\ Succeeded' = Succeeded /\ Blocking' = Blocking
           /\ Baseline' = Baseline /\ LastSubmitted' = LastSubmitted
           /\ (NoneResolved <=> NoneResolved') /\ (SucceededRows => SucceededRows')
BY DEF RunIds, Succeeded, Blocking, Baseline, LastSubmitted, NoneResolved,
       Resolved, SucceededRows, Newest

\* Transaction A adds one running row at the end.
LEMMA AppendedRow ==
    ASSUME TypeInv, NEW e \in Operators, Begin(e)
    PROVE  /\ runs' \in Seq(Row) /\ Len(runs') = Len(runs) + 1 /\ Len(runs) \in Nat
           /\ \A i \in RunIds : runs'[i] = runs[i]
           /\ runs'[Len(runs) + 1].status = "running"
           /\ LET r == runs'[Len(runs')]
              IN  /\ r.status = "running" /\ r.verdict = "none"
                  /\ r.content = exec[e].content /\ r.expected = exec[e].expected
           /\ RunIds' = RunIds \cup {Len(runs')}
           /\ Succeeded' = Succeeded
<1> DEFINE r == [content |-> exec[e].content, expected |-> exec[e].expected,
                 key |-> exec[e].key, status |-> "running",
                 response |-> NoRaw, verdict |-> "none"]
<1>1. exec[e] \in Call /\ runs \in Seq(Row)
  BY DEF TypeInv, ContentTypeOK
<1>2. r \in Row
  BY <1>1 DEF Call, Row, Verdicts
<1>3. runs' = Append(runs, r)
  BY DEF Begin
<1>4. runs' \in Seq(Row) /\ Len(runs') = Len(runs) + 1 /\ Len(runs) \in Nat
  BY <1>1, <1>2, <1>3
<1>5. \A i \in RunIds : runs'[i] = runs[i]
  BY <1>1, <1>2, <1>3 DEF RunIds
<1>6. runs'[Len(runs')] = r
  BY <1>1, <1>2, <1>3
<1>7. RunIds' = RunIds \cup {Len(runs')} /\ Len(runs') \notin RunIds
  BY <1>4 DEF RunIds
<1>8. Succeeded' = Succeeded
  BY <1>5, <1>6, <1>7 DEF Succeeded
<1>9. QED
  BY <1>4, <1>5, <1>6, <1>7, <1>8

\* Transaction B and a verdict change one row in place.
LEMMA ChangedRow ==
    ASSUME TypeInv, NEW n \in RunIds, NEW r \in Row, runs' = [runs EXCEPT ![n] = r]
    PROVE  /\ runs' \in Seq(Row) /\ Len(runs') = Len(runs) /\ RunIds' = RunIds
           /\ runs'[n] = r /\ \A i \in RunIds \ {n} : runs'[i] = runs[i]
<1>1. runs \in Seq(Row) /\ n \in 1 .. Len(runs)
  BY DEF TypeInv, ContentTypeOK, RunIds
<1>2. runs' \in Seq(Row) /\ Len(runs') = Len(runs)
  BY <1>1
<1>3. runs'[n] = r /\ \A i \in RunIds \ {n} : runs'[i] = runs[i]
  BY <1>1 DEF RunIds
<1>4. QED
  BY <1>2, <1>3 DEF RunIds

\* The three actions that change a row in place, and what they make of it.
Closes(e) == MarkSucceeded(e) \/ MarkUnknown(e) \/ Record(e)

Closed(e) ==
    [runs[exec[e].run] EXCEPT
       !.status = IF MarkSucceeded(e) THEN "succeeded"
                  ELSE IF MarkUnknown(e) THEN "outcome_unknown" ELSE @,
       !.response = IF MarkSucceeded(e) THEN exec[e].seen ELSE @,
       !.verdict = IF Record(e) /\ @ = "none" THEN exec[e].verdict ELSE @]

LEMMA ClosedRow ==
    ASSUME TypeInv, NEW e \in Operators, Closes(e)
    PROVE  /\ exec[e].run \in RunIds /\ Closed(e) \in Row
           /\ runs' = [runs EXCEPT ![exec[e].run] = Closed(e)]
           /\ MarkSucceeded(e) => Closed(e).status = "succeeded"
                                 /\ Closed(e).response = exec[e].seen
                                 /\ Closed(e).response \in Raws
                                 /\ Closed(e).verdict = runs[exec[e].run].verdict
           /\ MarkUnknown(e) => Closed(e).status = "outcome_unknown"
                               /\ Closed(e).verdict = runs[exec[e].run].verdict
           /\ Record(e) => /\ Closed(e).status = runs[exec[e].run].status
                           /\ Closed(e).verdict = IF runs[exec[e].run].verdict = "none"
                                                  THEN exec[e].verdict
                                                  ELSE runs[exec[e].run].verdict
           /\ Closed(e).content = runs[exec[e].run].content
           /\ Closed(e).expected = runs[exec[e].run].expected
<1> DEFINE n == exec[e].run
<1>1. exec[e] \in Call /\ runs \in Seq(Row) /\ n \in RunIds
  BY DEF TypeInv, ContentTypeOK, Closes, MarkSucceeded, MarkUnknown, Record
<1>2. runs[n] \in Row /\ n \in DOMAIN runs
  BY <1>1 DEF RunIds
<1>3. MarkSucceeded(e) => exec[e].step = "confirmed" /\ exec[e].seen \in Raws
  BY DEF TypeInv, CallRows, MarkSucceeded
<1>4. /\ MarkSucceeded(e) => ~MarkUnknown(e) /\ ~Record(e)
      /\ MarkUnknown(e) => ~Record(e)
  BY DEF MarkSucceeded, MarkUnknown, Record
<1>5. CASE MarkSucceeded(e)
  <2>1. Closed(e) = [runs[n] EXCEPT !.status = "succeeded", !.response = exec[e].seen]
    BY <1>2, <1>4, <1>5 DEF Closed, Row
  <2>2. runs' = [runs EXCEPT ![n] = Closed(e)]
    BY <1>1, <1>2, <1>5, <2>1 DEF MarkSucceeded
  <2>3. QED
    BY <1>1, <1>2, <1>3, <1>4, <1>5, <2>1, <2>2 DEF Row
<1>6. CASE MarkUnknown(e)
  <2>1. Closed(e) = [runs[n] EXCEPT !.status = "outcome_unknown"]
    BY <1>2, <1>4, <1>6 DEF Closed, Row
  <2>2. runs' = [runs EXCEPT ![n] = Closed(e)]
    BY <1>1, <1>2, <1>6, <2>1 DEF MarkUnknown
  <2>3. QED
    BY <1>1, <1>2, <1>4, <1>6, <2>1, <2>2 DEF Row
<1>7. CASE Record(e)
  <2>1. Closed(e) = [runs[n] EXCEPT !.verdict = IF @ = "none" THEN exec[e].verdict ELSE @]
    BY <1>2, <1>4, <1>7 DEF Closed, Row
  <2>2. runs' = [runs EXCEPT ![n] = Closed(e)]
    BY <1>1, <1>2, <1>7, <2>1 DEF Record, Row
  <2>3. exec[e].verdict \in Verdicts
    BY <1>1 DEF Call
  <2>4. QED
    BY <1>1, <1>2, <1>4, <1>7, <2>1, <2>2, <2>3 DEF Row
<1>8. QED
  BY <1>5, <1>6, <1>7 DEF Closes

\* The rows are otherwise only appended to.
LEMMA RowsChangeTwice ==
    ASSUME [ContentNext]_contentVars
    PROVE  \/ runs' = runs
           \/ \E e \in Operators : Begin(e) \/ Closes(e)
BY DEF ContentNext, contentVars, PatchBody, ApproveArtifact, Outside, EditLive, Land,
       Lose, Resolve, Judge, Executes, Observe, Decline, BeginRefused, Send,
       Answered, Unclear, ReadBack, ReadBackFails, Abandon, Closes

LEMMA TypeKept ==
    ASSUME TypeInv, [ContentNext]_contentVars
    PROVE  ContentTypeOK'
<1>0. ContentTypeOK /\ SucceededRows /\ CallRows
  BY DEF TypeInv
<1>1. CASE UNCHANGED contentVars
  BY <1>0, <1>1, RowlessKeeps DEF contentVars, ContentTypeOK, RunIds
<1>2. ASSUME NEW c \in Contents, PatchBody(c) PROVE ContentTypeOK'
  BY <1>0, <1>2, RowlessKeeps DEF PatchBody, remote, ContentTypeOK, RunIds
<1>3. ASSUME NEW c \in Contents, ApproveArtifact(c) PROVE ContentTypeOK'
  BY <1>0, <1>3, RowlessKeeps DEF ApproveArtifact, remote, ContentTypeOK, RunIds
<1>4. ASSUME NEW c \in Contents, EditLive(c) PROVE ContentTypeOK'
  BY <1>0, <1>4, RowlessKeeps DEF EditLive, ContentTypeOK, RunIds, Raws
<1>5. ASSUME NEW i \in sent, Land(i) PROVE ContentTypeOK'
  <2>1. i \in RunIds /\ runs[i] \in Row
    BY <1>0 DEF ContentTypeOK, RunIds
  <2>2. Raw(runs[i].content) \in Raws
    BY <2>1, RawIsRaw DEF Row
  <2>3. QED
    BY <1>0, <1>5, <2>1, <2>2, RowlessKeeps DEF Land, ContentTypeOK, RunIds
<1>6. ASSUME NEW i \in sent, Lose(i) PROVE ContentTypeOK'
  BY <1>0, <1>6, RowlessKeeps DEF Lose, ContentTypeOK, RunIds
<1>7. ASSUME NEW e \in Operators, NEW c \in Contents, NEW k \in Keys \cup {NoKey},
             Resolve(e, c, k)
      PROVE  ContentTypeOK'
  <2>1. [Idle EXCEPT !.step = "resolved", !.content = c, !.key = k,
                     !.expected = Baseline, !.last = LastSubmitted] \in Call
    BY IdleType, BaselineType DEF Idle, Call, Steps
  <2>2. QED
    BY <1>0, <1>7, <2>1, RowlessKeeps DEF Resolve, remote, ContentTypeOK, RunIds, Idle
<1>8. ASSUME NEW e \in Operators, NEW i \in RunIds, NEW v \in Verdicts \ {"none"},
             Judge(e, i, v)
      PROVE  ContentTypeOK'
  <2>1. runs \in Seq(Row)
    BY <1>0 DEF ContentTypeOK
  <2>2. i \in Nat
    BY <2>1 DEF RunIds
  <2>3. [Idle EXCEPT !.step = "judged", !.run = i, !.verdict = v] \in Call
    BY <2>2, IdleType DEF Idle, Call, Steps
  <2>4. QED
    BY <1>0, <1>8, <2>3, RowlessKeeps DEF Judge, remote, ContentTypeOK, RunIds, Idle
<1>9. ASSUME NEW e \in Operators, Executes(e) PROVE ContentTypeOK'
  <2>0. exec[e] \in Call /\ exec \in [Operators -> Call] /\ runs \in Seq(Row)
    BY <1>0 DEF ContentTypeOK
  <2>1. ASSUME NEW s \in Steps, Goes(e, s), UNCHANGED <<body, approved, remote, runs>>,
               s \in Executing \cup {"judged"} => exec[e].step \in Executing
        PROVE  ContentTypeOK'
    <3>1. [exec[e] EXCEPT !.step = s] \in Call
      BY <2>0 DEF Call
    <3>2. QED
      BY <1>0, <2>0, <2>1, <3>1, RowlessKeeps
      DEF Goes, remote, ContentTypeOK, RunIds, Executing
  <2>2. ASSUME Returns(e), UNCHANGED <<body, approved, remote, runs>>
        PROVE  ContentTypeOK'
    BY <1>0, <2>0, <2>2, IdleType, RowlessKeeps
    DEF Returns, remote, ContentTypeOK, RunIds, Idle
  <2>3. CASE Observe(e)
    BY <2>1, <2>3 DEF Observe, Steps, Executing
  <2>4. CASE Decline(e) \/ BeginRefused(e) \/ Abandon(e)
    BY <2>2, <2>4 DEF Decline, BeginRefused, Abandon
  <2>5. CASE Begin(e)
    <3>1. [exec[e] EXCEPT !.step = "running", !.run = Len(runs) + 1] \in Call
      <4>1. Len(runs) + 1 \in Nat
        BY <2>0
      <4>2. QED
        BY <2>0, <4>1 DEF Call, Steps
    <3>2. exec' = [exec EXCEPT ![e] = [exec[e] EXCEPT !.step = "running",
                                                      !.run = Len(runs) + 1]]
      BY <2>0, <2>5 DEF Begin
    <3>3. RunIds \subseteq RunIds' /\ Len(runs) + 1 \in RunIds' /\ runs' \in Seq(Row)
      BY <2>5, AppendedRow
    <3>4. exec' \in [Operators -> Call]
      BY <2>0, <3>1, <3>2
    <3>5. \A f \in Operators :
            exec'[f].step \in {"running", "sent", "answered", "unclear",
                              "confirmed", "judged"} => exec'[f].run \in RunIds'
      <4> TAKE f \in Operators
      <4>1. CASE f = e
        BY <2>0, <3>1, <3>2, <3>3, <4>1 DEF Call
      <4>2. CASE f # e
        BY <1>0, <2>0, <3>2, <3>3, <4>2 DEF ContentTypeOK
      <4>3. QED
        BY <4>1, <4>2
    <3>6. QED
      BY <1>0, <2>5, <3>3, <3>4, <3>5 DEF Begin, remote, ContentTypeOK
  <2>6. CASE Send(e)
    <3>1. [exec[e] EXCEPT !.step = "sent"] \in Call
      BY <2>0 DEF Call, Steps
    <3>2. exec[e].run \in RunIds
      BY <1>0, <2>6 DEF Send, ContentTypeOK
    <3>3. QED
      BY <1>0, <2>0, <2>6, <3>1, <3>2, RowlessKeeps
      DEF Send, Goes, ContentTypeOK, RunIds
  <2>7. CASE Answered(e) \/ Unclear(e) \/ ReadBackFails(e)
    BY <2>1, <2>7 DEF Answered, Unclear, ReadBackFails, Steps, Executing
  <2>8. CASE ReadBack(e)
    <3>1. [exec[e] EXCEPT !.step = "confirmed", !.seen = live] \in Call
      BY <1>0, <2>0 DEF Call, Steps, ContentTypeOK
    <3>2. exec' = [exec EXCEPT ![e] = [exec[e] EXCEPT !.step = "confirmed",
                                                      !.seen = live]]
      BY <2>0, <2>8 DEF ReadBack
    <3>3. QED
      BY <1>0, <2>0, <2>8, <3>1, <3>2, RowlessKeeps
      DEF ReadBack, remote, ContentTypeOK, RunIds
  <2>9. ASSUME Closes(e) PROVE ContentTypeOK'
    <3>1. runs' \in Seq(Row) /\ RunIds' = RunIds
      BY <2>9, ClosedRow, ChangedRow
    <3>2. exec' = [exec EXCEPT ![e] = Idle] /\ UNCHANGED <<body, approved, remote>>
      BY <2>9 DEF Closes, MarkSucceeded, MarkUnknown, Record, Returns
    <3>3. QED
      BY <1>0, <2>0, <3>1, <3>2, IdleType DEF remote, ContentTypeOK, Idle
  <2>10. QED
    BY <1>9, <2>3, <2>4, <2>5, <2>6, <2>7, <2>8, <2>9 DEF Executes, Closes
<1>10. QED
  BY <1>1, <1>2, <1>3, <1>4, <1>5, <1>6, <1>7, <1>8, <1>9 DEF ContentNext, Outside

\* Only Transaction B with success adds a succeeded row.
LEMMA RowsKept ==
    ASSUME TypeInv, [ContentNext]_contentVars
    PROVE  SucceededRows'
<1>0. ContentTypeOK /\ SucceededRows /\ CallRows
  BY DEF TypeInv
<1>1. CASE runs' = runs
  BY <1>0, <1>1, RowlessKeeps
<1>2. ASSUME NEW e \in Operators, Begin(e) PROVE SucceededRows'
  <2>1. Succeeded' = Succeeded /\ \A i \in RunIds : runs'[i] = runs[i]
    BY <1>2, AppendedRow
  <2>2. QED
    BY <1>0, <2>1 DEF SucceededRows, Succeeded
<1>3. ASSUME NEW e \in Operators, Closes(e) PROVE SucceededRows'
  <2> DEFINE n == exec[e].run
             r == Closed(e)
  <2>1. n \in RunIds /\ r \in Row /\ runs' = [runs EXCEPT ![n] = r]
    BY <1>3, ClosedRow
  <2>2. /\ RunIds' = RunIds /\ RunIds \subseteq Nat /\ n \in Nat
        /\ runs'[n] = r /\ \A i \in RunIds \ {n} : runs'[i] = runs[i]
    <3>1. runs \in Seq(Row)
      BY <1>0 DEF ContentTypeOK
    <3>2. RunIds \subseteq Nat
      BY <3>1 DEF RunIds
    <3>3. QED
      BY <2>1, <3>2, ChangedRow
  <2>3. runs[n].status # "succeeded"
    BY <1>0, <1>3 DEF Closes, MarkSucceeded, MarkUnknown, Record, CallRows, Executing
  <2>4. CASE MarkSucceeded(e)
    <3>1. r.status = "succeeded" /\ r.response \in Raws
      BY <1>3, <2>4, ClosedRow
    <3>2. Succeeded' = Succeeded \cup {n}
      BY <2>1, <2>2, <3>1 DEF Succeeded
    <3>3. \E i \in Succeeded' : \A j \in Succeeded' : j <= i
      <4>1. CASE Succeeded = {}
        BY <2>2, <3>2, <4>1
      <4>2. CASE Succeeded # {}
        <5>1. PICK m \in Succeeded : \A j \in Succeeded : j <= m
          BY <1>0, <4>2 DEF SucceededRows
        <5>2. Succeeded \subseteq Nat /\ m \in Nat
          BY <2>2 DEF Succeeded
        <5>3. CASE n <= m
          BY <3>2, <5>1, <5>2, <5>3
        <5>4. CASE ~(n <= m)
          BY <2>2, <3>2, <5>1, <5>2, <5>4
        <5>5. QED
          BY <5>3, <5>4
      <4>3. QED
        BY <4>1, <4>2
    <3>4. QED
      BY <1>0, <2>2, <3>1, <3>2, <3>3 DEF SucceededRows, Succeeded
  <2>5. CASE MarkUnknown(e) \/ Record(e)
    <3>1. r.status # "succeeded"
      BY <1>3, <2>3, <2>5, ClosedRow
    <3>2. Succeeded' = Succeeded
      BY <2>1, <2>2, <2>3, <3>1 DEF Succeeded
    <3>3. \A i \in Succeeded : i # n
      BY <2>3 DEF Succeeded
    <3>4. QED
      BY <1>0, <2>2, <3>2, <3>3 DEF SucceededRows, Succeeded
  <2>6. QED
    BY <1>3, <2>4, <2>5 DEF Closes
<1>4. QED
  BY <1>1, <1>2, <1>3, RowsChangeTwice

\* A call keeps its row to itself: a row is changed by the call that made it,
\* or by a verdict, which leaves the status alone.
LEMMA CallRowsKept ==
    ASSUME TypeInv, [ContentNext]_contentVars
    PROVE  CallRows'
<1>0. ContentTypeOK /\ SucceededRows /\ CallRows
  BY DEF TypeInv
<1>1. exec \in [Operators -> Call] /\ runs \in Seq(Row)
  BY <1>0 DEF ContentTypeOK
<1>2. ASSUME UNCHANGED <<runs, exec>> PROVE CallRows'
  BY <1>0, <1>2 DEF CallRows
<1>3. ASSUME NEW e \in Operators, NEW r \in Call, runs' = runs,
             exec' = [exec EXCEPT ![e] = r],
             r.step \in Executing => exec[e].step \in Executing /\ r.run = exec[e].run,
             r.step = "confirmed" => r.seen \in Raws,
             r.step = "judged" => runs[r.run].status = "outcome_unknown"
      PROVE  CallRows'
  <2>1. exec'[e] = r /\ \A f \in Operators \ {e} : exec'[f] = exec[f]
    BY <1>1, <1>3
  <2>2. QED
    BY <1>0, <1>3, <2>1 DEF CallRows
<1>4. ASSUME NEW e \in Operators, Begin(e) PROVE CallRows'
  <2>1. /\ exec'[e].step = "running" /\ exec'[e].run = Len(runs) + 1
        /\ \A f \in Operators \ {e} : exec'[f] = exec[f]
    BY <1>1, <1>4 DEF Begin, Call
  <2>2. /\ \A i \in RunIds : runs'[i] = runs[i]
        /\ runs'[Len(runs) + 1].status = "running"
        /\ Len(runs) + 1 \notin RunIds
    <3>1. Len(runs) + 1 \notin RunIds
      BY <1>1 DEF RunIds
    <3>2. /\ runs'[Len(runs) + 1].status = "running"
          /\ \A i \in RunIds : runs'[i] = runs[i]
      BY <1>4, AppendedRow
    <3>3. QED
      BY <3>1, <3>2
  <2>3. \A f \in Operators : exec[f].step \in Executing \cup {"judged"} => exec[f].run \in RunIds
    BY <1>0 DEF ContentTypeOK, Executing
  <2>4. QED
    BY <1>0, <2>1, <2>2, <2>3 DEF CallRows, Executing
<1>5. ASSUME NEW e \in Operators, Closes(e) PROVE CallRows'
  <2> DEFINE n == exec[e].run
  <2>1. /\ n \in RunIds /\ runs'[n] = Closed(e)
        /\ \A i \in RunIds \ {n} : runs'[i] = runs[i]
    BY <1>5, ClosedRow, ChangedRow
  <2>2. exec'[e] = Idle /\ \A f \in Operators \ {e} : exec'[f] = exec[f]
    BY <1>1, <1>5 DEF Closes, MarkSucceeded, MarkUnknown, Record, Returns
  <2>3. \A f \in Operators : exec[f].step \in Executing \cup {"judged"} => exec[f].run \in RunIds
    BY <1>0 DEF ContentTypeOK, Executing
  <2>4. CASE Record(e)
    <3>1. Closed(e).status = runs[n].status
      BY <1>5, <2>4, ClosedRow
    <3>2. QED
      BY <1>0, <2>1, <2>2, <2>3, <3>1 DEF CallRows, Executing, Idle
  <2>5. CASE MarkSucceeded(e) \/ MarkUnknown(e)
    <3>1. exec[e].step \in Executing /\ runs[n].status = "running"
      BY <1>0, <2>5 DEF MarkSucceeded, MarkUnknown, CallRows, Executing
    <3>2. \A f \in Operators \ {e} :
            exec[f].step \in Executing \cup {"judged"} => exec[f].run # n
      BY <1>0, <3>1 DEF CallRows
    <3>3. QED
      BY <1>0, <2>1, <2>2, <2>3, <3>2 DEF CallRows, Executing, Idle
  <2>6. QED
    BY <1>5, <2>4, <2>5 DEF Closes
<1>6. ASSUME NEW e \in Operators, NEW c \in Contents, NEW k \in Keys \cup {NoKey},
             Resolve(e, c, k)
      PROVE  CallRows'
  <2>1. [Idle EXCEPT !.step = "resolved", !.content = c, !.key = k,
                     !.expected = Baseline, !.last = LastSubmitted] \in Call
    BY IdleType, BaselineType DEF Idle, Call, Steps
  <2>2. QED
    BY <1>3, <1>6, <2>1 DEF Resolve, Idle, Executing
<1>7. ASSUME NEW e \in Operators, NEW i \in RunIds, NEW v \in Verdicts \ {"none"},
             Judge(e, i, v)
      PROVE  CallRows'
  <2>1. i \in Nat
    BY <1>1 DEF RunIds
  <2>2. [Idle EXCEPT !.step = "judged", !.run = i, !.verdict = v] \in Call
    BY <2>1, IdleType DEF Idle, Call, Steps
  <2>3. QED
    BY <1>3, <1>7, <2>2 DEF Judge, Open, Idle, Executing
<1>8. ASSUME NEW e \in Operators, Executes(e), ~Begin(e), ~Closes(e) PROVE CallRows'
  <2>0. exec[e] \in Call /\ live \in Raws
    BY <1>0 DEF ContentTypeOK
  <2>1. ASSUME NEW s \in Steps, Goes(e, s), runs' = runs,
               s \in Executing => exec[e].step \in Executing,
               s \notin {"confirmed", "judged"}
        PROVE  CallRows'
    <3>1. [exec[e] EXCEPT !.step = s] \in Call
      BY <2>0 DEF Call
    <3>2. QED
      BY <1>3, <2>0, <2>1, <3>1 DEF Goes, Call
  <2>2. CASE Returns(e) /\ runs' = runs
    BY <1>3, <2>2, IdleType DEF Returns, Idle, Executing
  <2>3. CASE Observe(e)
    BY <2>1, <2>3 DEF Observe, Steps, Executing
  <2>4. CASE Decline(e) \/ BeginRefused(e) \/ Abandon(e)
    BY <2>2, <2>4 DEF Decline, BeginRefused, Abandon
  <2>5. CASE Send(e) \/ Answered(e) \/ Unclear(e) \/ ReadBackFails(e)
    BY <2>1, <2>5 DEF Send, Answered, Unclear, ReadBackFails, Steps, Executing
  <2>6. CASE ReadBack(e)
    <3>1. [exec[e] EXCEPT !.step = "confirmed", !.seen = live] \in Call
      BY <2>0 DEF Call, Steps
    <3>2. exec' = [exec EXCEPT ![e] = [exec[e] EXCEPT !.step = "confirmed",
                                                      !.seen = live]]
      BY <1>1, <2>6 DEF ReadBack
    <3>3. QED
      BY <1>3, <2>0, <2>6, <3>1, <3>2 DEF ReadBack, Call, Executing
  <2>7. QED
    BY <1>8, <2>3, <2>4, <2>5, <2>6 DEF Executes, Closes
<1>9. QED
  BY <1>2, <1>4, <1>5, <1>6, <1>7, <1>8
  DEF ContentNext, Outside, PatchBody, ApproveArtifact, EditLive, Land, Lose, contentVars

LEMMA InitTyped == ContentInit => TypeInv
BY IdleType, RawIsRaw
DEF ContentInit, TypeInv, ContentTypeOK, SucceededRows, CallRows, Executing,
    Succeeded, RunIds, Idle

LEMMA TypeInductive == TypeInv /\ [ContentNext]_contentVars => TypeInv'
BY TypeKept, RowsKept, CallRowsKept DEF TypeInv

\* The variables keep their types, the baselines are always defined, and every
\* call has a row of its own even when calls run concurrently
\* (wordpress_content_update_run_repository.py: the rows and what is read
\* from them; the execution service: what a call holds in memory).
THEOREM ContentTypeCorrect == ContentSpec => []ContentTypeOK
<1>1. TypeInv => ContentTypeOK
  BY DEF TypeInv
<1>2. QED
  BY <1>1, InitTyped, TypeInductive, PTL DEF ContentSpec

-----------------------------------------------------------------------------
(***************************************************************************)
(* Updates one at a time.  ContentInv says who may be unresolved (only the *)
(* newest row), what the one call under way knows, where a POST can be,    *)
(* and what the post therefore contains.                                   *)
(***************************************************************************)
Serial ==
    /\ Alone /\ LastIsOpen /\ CallKnows /\ PostsAreOpen
    /\ LiveIsLast /\ PostedIsBaseline /\ SuccessIsOurs /\ ReconciledLanded

\* With the post untouched, the baseline has the text last submitted.
LEMMA BaselineText ==
    ASSUME TypeInv, SuccessIsOurs, Untouched
    PROVE  Baseline.text = LastSubmitted
<1>1. CASE Succeeded = {}
  BY <1>1 DEF Baseline, LastSubmitted, Raw
<1>2. CASE Succeeded # {}
  <2>1. Newest(Succeeded) \in Succeeded
    BY <1>2, NewestSucceeded DEF TypeInv
  <2>2. runs[Newest(Succeeded)].response = Raw(runs[Newest(Succeeded)].content)
    BY <2>1 DEF SuccessIsOurs, Untouched
  <2>3. Baseline = Raw(LastSubmitted)
    BY <1>2, <2>2 DEF Baseline, LastSubmitted
  <2>4. QED
    BY <2>3 DEF Raw
<1>3. QED
  BY <1>1, <1>2

\* When the rows stay, the parts of the invariant that are about rows only stay.
LEMMA SameRows ==
    ASSUME runs' = runs
    PROVE  /\ LastIsOpen => LastIsOpen'
           /\ SuccessIsOurs /\ edits' >= edits /\ edits \in Nat => SuccessIsOurs'
BY RowlessKeeps DEF LastIsOpen, SuccessIsOurs, Blocking, Succeeded

\* A call that returns leaves no call under way.
LEMMA AllIdle ==
    ASSUME TypeInv, Alone, NEW e \in Operators, exec[e].step # "idle", Returns(e)
    PROVE  (\A f \in Operators : exec'[f] = Idle \/ exec'[f].step = "idle") /\ Alone' /\ CallKnows'
<1>1. exec \in [Operators -> Call]
  BY DEF TypeInv, ContentTypeOK
<1>2. \A f \in Operators : exec'[f].step = "idle"
  BY <1>1 DEF Returns, Alone, Idle
<1>3. QED
  BY <1>2 DEF Alone, CallKnows, Executing

\* A POST on its way belongs to the newest row, and that row is open.
LEMMA PostIsLast ==
    ASSUME TypeInv, LastIsOpen, PostsAreOpen, Untouched \/ NoneResolved, NEW i \in sent
    PROVE  i = Len(runs) /\ i \in Blocking /\ i \notin landed /\ runs # << >>
<1>1. i = Len(runs) /\ i \in Blocking /\ i \notin landed /\ i \in 1 .. Len(runs)
  BY DEF LastIsOpen, PostsAreOpen, Blocking, RunIds
<1>2. runs \in Seq(Row)
  BY DEF TypeInv, ContentTypeOK
<1>3. QED
  BY <1>1, <1>2

\* A step that is only about one call.
LEMMA CallStep ==
    ASSUME TypeInv, Serial, NEW e \in Operators, NEW r \in Call,
           UNCHANGED <<remote, runs>>, exec' = [exec EXCEPT ![e] = r],
           \/ exec[e].step # "idle"
           \/ \A f \in Operators : exec[f].step = "idle",
           /\ r.step \in {"resolved", "clear"} =>
                Blocking = {} /\ r.expected = Baseline /\ r.last = LastSubmitted
           /\ r.step = "clear" =>
                /\ r.content # r.last
                /\ Untouched => live = r.expected
           /\ r.step \in Executing =>
                /\ r.run = Len(runs)
                /\ runs[r.run].verdict = "none"
           /\ r.step # "running"
           /\ r.step \in {"answered", "confirmed"} => r.run \in landed
           /\ r.step = "confirmed" =>
                /\ Untouched => r.seen = Raw(runs[r.run].content)
                /\ NoneResolved /\ live.form = "posted" => live = r.seen
           /\ r.step = "judged" /\ r.verdict = "reconciled_succeeded" /\ Untouched =>
                r.run \in landed
    PROVE  Serial'
<1>1. exec \in [Operators -> Call] /\ edits \in Nat
  BY DEF TypeInv, ContentTypeOK
<1>2. exec'[e] = r /\ \A f \in Operators \ {e} : exec'[f] = exec[f]
  BY <1>1
<1>3. \A f \in Operators \ {e} : exec'[f].step = "idle"
  BY <1>2 DEF Serial, Alone
<1>4. Alone'
  BY <1>3 DEF Alone
<1>5. CallKnows'
  <2>1. \A f \in Operators \ {e} : exec'[f].step \notin Executing \cup {"resolved", "judged"}
    BY <1>3 DEF Executing
  <2>2. Executing' = Executing /\ (Untouched' <=> Untouched)
    BY DEF Executing, Untouched, remote
  <2>3. /\ UNCHANGED <<live, sent, landed, runs>>
        /\ Blocking' = Blocking /\ Baseline' = Baseline
        /\ LastSubmitted' = LastSubmitted /\ (NoneResolved <=> NoneResolved')
    BY RowlessKeeps DEF remote
  <2>4. ASSUME NEW f \in Operators, f # e
        PROVE  exec'[f].step \notin {"resolved", "clear", "running", "sent", "answered",
                                    "unclear", "confirmed", "judged"}
    BY <2>1, <2>4 , <1>3
  <2>5. QED
    BY <1>2, <2>2, <2>3, <2>4 DEF CallKnows, Executing
<1>6. QED
  BY <1>1, <1>4, <1>5, RowlessKeeps, SameRows
  DEF Serial, PostsAreOpen, LiveIsLast, PostedIsBaseline, ReconciledLanded, Untouched,
      RunIds, remote, Resolved

\* A step outside the calls and the rows.
LEMMA OutsideStep ==
    ASSUME TypeInv, Serial, Outside
    PROVE  Serial'
<1>1. runs' = runs /\ exec' = exec /\ edits \in Nat
  BY DEF Outside, EditLive, Land, Lose, TypeInv, ContentTypeOK
<1>2. ASSUME NEW c \in Contents, EditLive(c) PROVE Serial'
  <2>1. ~Untouched' /\ live'.form # "posted" /\ UNCHANGED <<sent, landed>> /\ edits' >= edits
    BY <1>1, <1>2 DEF EditLive, Untouched
  <2>2. CallKnows'
    BY <1>1, <2>1, RowlessKeeps DEF Serial, CallKnows, Executing
  <2>3. QED
    BY <1>1, <2>1, <2>2, RowlessKeeps, SameRows
    DEF Serial, Alone, PostsAreOpen, LiveIsLast, PostedIsBaseline, ReconciledLanded,
        SuccessIsOurs, Untouched, Resolved
<1>3. ASSUME NEW i \in sent, Lose(i) PROVE Serial'
  <2>1. sent' \subseteq sent /\ UNCHANGED <<live, landed, edits>>
    BY <1>3 DEF Lose
  <2>2. CallKnows'
    BY <1>1, <2>1, RowlessKeeps DEF Serial, CallKnows, Executing, Untouched
  <2>3. QED
    BY <1>1, <2>1, <2>2, RowlessKeeps, SameRows
    DEF Serial, Alone, PostsAreOpen, LiveIsLast, PostedIsBaseline, ReconciledLanded,
        Untouched, Resolved
<1>4. ASSUME NEW i \in sent, Land(i) PROVE Serial'
  <2>1. /\ sent' = sent \ {i} /\ landed' = landed \cup {i} /\ edits' = edits
        /\ live' = Raw(runs[i].content) /\ (Untouched' <=> Untouched)
    BY <1>4 DEF Land, Untouched
  <2>2. Untouched \/ NoneResolved =>
           i = Len(runs) /\ i \in Blocking /\ i \notin landed /\ runs # << >>
    BY PostIsLast DEF Serial
  <2>3. CallKnows'
    <3> SUFFICES ASSUME NEW e \in Operators
                 PROVE  (/\ exec[e].step = "clear" /\ Untouched => live' = exec[e].expected
                         /\ exec[e].step = "running" => exec[e].run \notin sent' \cup landed'
                         /\ exec[e].step = "confirmed" =>
                               (NoneResolved /\ live'.form = "posted" => live' = exec[e].seen))
      BY <1>1, <2>1, RowlessKeeps DEF Serial, CallKnows, Executing
    <3>1. exec[e].step = "clear" => Blocking = {}
      BY DEF Serial, CallKnows
    <3>2. exec[e].step = "running" => exec[e].run \notin sent \cup landed
      BY DEF Serial, CallKnows
    <3>3. exec[e].step = "confirmed" => exec[e].run = Len(runs) /\ exec[e].run \in landed
      BY DEF Serial, CallKnows, Executing
    <3>4. QED
      BY <2>1, <2>2, <3>1, <3>2, <3>3
  <2>4. LiveIsLast' /\ PostedIsBaseline'
    BY <1>1, <2>1, <2>2, RowlessKeeps
    DEF Serial, LiveIsLast, PostedIsBaseline, Blocking, Succeeded
  <2>5. PostsAreOpen'
    BY <1>1, <2>1, RowlessKeeps DEF Serial, PostsAreOpen
  <2>6. QED
    BY <1>1, <2>1, <2>3, <2>4, <2>5, RowlessKeeps, SameRows
    DEF Serial, Alone, ReconciledLanded, Untouched, Resolved
<1>5. QED
  BY <1>2, <1>3, <1>4 DEF Outside

\* Transaction A: every earlier row is settled, so the new one is alone.
LEMMA BeginStep ==
    ASSUME TypeInv, Serial, NEW e \in Operators, Begin(e)
    PROVE  Serial'
<1>1. /\ exec \in [Operators -> Call] /\ edits \in Nat /\ runs \in Seq(Row)
      /\ sent \subseteq RunIds /\ landed \subseteq RunIds
  BY DEF TypeInv, ContentTypeOK
<1>2. /\ exec[e].step = "clear" /\ UNCHANGED <<live, edits, sent, landed>>
      /\ exec' = [exec EXCEPT ![e].step = "running", ![e].run = Len(runs) + 1]
      /\ (Untouched' <=> Untouched)
  BY DEF Begin, remote, Untouched
<1>3. /\ Len(runs') = Len(runs) + 1 /\ Len(runs) \in Nat
      /\ \A i \in RunIds : runs'[i] = runs[i]
      /\ RunIds' = RunIds \cup {Len(runs')} /\ Succeeded' = Succeeded
      /\ runs' # << >>
  <2>1. /\ Len(runs') = Len(runs) + 1 /\ Len(runs) \in Nat /\ runs' \in Seq(Row)
        /\ \A i \in RunIds : runs'[i] = runs[i]
        /\ RunIds' = RunIds \cup {Len(runs')} /\ Succeeded' = Succeeded
    BY AppendedRow
  <2>2. QED
    BY <2>1
<1>4. /\ runs'[Len(runs')].status = "running" /\ runs'[Len(runs')].verdict = "none"
      /\ runs'[Len(runs')].content = exec[e].content
      /\ runs'[Len(runs')].expected = exec[e].expected
  BY AppendedRow
<1>5. /\ Blocking = {} /\ exec[e].expected = Baseline /\ exec[e].last = LastSubmitted
      /\ exec[e].content # exec[e].last /\ (Untouched => live = exec[e].expected)
  BY <1>2 DEF Serial, CallKnows
<1>6. Len(runs') \notin RunIds
  BY <1>3 DEF RunIds
<1>7. Blocking' = {Len(runs')}
  BY <1>3, <1>4, <1>5, <1>6 DEF Blocking, Resolved
<1>8. NoneResolved' <=> NoneResolved
  BY <1>3, <1>4, <1>6 DEF NoneResolved, Resolved
<1>9. Alone' /\ CallKnows'
  <2>1. \A f \in Operators \ {e} : exec'[f].step = "idle"
    BY <1>1, <1>2 DEF Serial, Alone
  <2>2. exec'[e].step = "running" /\ exec'[e].run = Len(runs')
    BY <1>1, <1>2, <1>3 DEF Call
  <2>3. Len(runs') \notin sent' \cup landed'
    BY <1>1, <1>2, <1>6
  <2>4. QED
    BY <1>4, <2>1, <2>2, <2>3 DEF Alone, CallKnows, Executing
<1>10. PostsAreOpen'
  <2>1. Untouched \/ NoneResolved => sent = {}
    BY <1>5 DEF Serial, PostsAreOpen
  <2>2. QED
    BY <1>2, <1>3, <1>8, <2>1 DEF Serial, PostsAreOpen
<1>11. LiveIsLast'
  <2> SUFFICES ASSUME Untouched
               PROVE  /\ live' = IF Len(runs') \in landed'
                                 THEN Raw(runs'[Len(runs')].content)
                                 ELSE runs'[Len(runs')].expected
                      /\ \A i \in RunIds' : runs'[i].expected.text # runs'[i].content
    BY <1>2, <1>3 DEF LiveIsLast
  <2>1. Baseline.text = LastSubmitted
    BY BaselineText DEF Serial
  <2>2. \A i \in RunIds : runs[i].expected.text # runs[i].content
    BY DEF Serial, LiveIsLast
  <2>3. \A i \in RunIds' : runs'[i].expected.text # runs'[i].content
    BY <1>3, <1>4, <1>5, <2>1, <2>2
  <2>4. Len(runs') \notin landed'
    BY <1>1, <1>2, <1>6
  <2>5. QED
    BY <1>2, <1>4, <1>5, <2>3, <2>4
<1>12. PostedIsBaseline'
  BY <1>3, <1>6 DEF PostedIsBaseline, Succeeded
<1>13. SuccessIsOurs' /\ ReconciledLanded'
  BY <1>2, <1>3, <1>4 DEF Serial, SuccessIsOurs, ReconciledLanded, Succeeded, Resolved
<1>14. LastIsOpen'
  BY <1>7 DEF LastIsOpen
<1>15. QED
  BY <1>9, <1>10, <1>11, <1>12, <1>13, <1>14 DEF Serial

\* Transaction B or a verdict.
LEMMA CloseStep ==
    ASSUME TypeInv, Serial, NEW e \in Operators, Closes(e)
    PROVE  Serial'
<1> DEFINE n == exec[e].run
           r == Closed(e)
<1>1. /\ n \in RunIds /\ r \in Row /\ Len(runs') = Len(runs) /\ RunIds' = RunIds
      /\ runs'[n] = r /\ \A i \in RunIds \ {n} : runs'[i] = runs[i]
  BY ClosedRow, ChangedRow
<1>2. r.content = runs[n].content /\ r.expected = runs[n].expected
  BY ClosedRow
<1>3. /\ UNCHANGED <<live, edits, sent, landed>> /\ Returns(e)
      /\ exec[e].step # "idle" /\ (Untouched' <=> Untouched)
  BY DEF Closes, MarkSucceeded, MarkUnknown, Record, remote, Untouched
<1>4. Alone' /\ CallKnows'
  BY <1>3, AllIdle DEF Serial
<1>5. runs # << >> /\ runs' # << >> /\ Len(runs) \in RunIds
  <2>1. runs \in Seq(Row) /\ runs' \in Seq(Row)
    BY <1>1, ClosedRow, ChangedRow DEF TypeInv, ContentTypeOK
  <2>2. QED
    BY <1>1, <2>1 DEF RunIds
<1>6. LiveIsLast'
  BY <1>1, <1>2, <1>3, <1>5 DEF Serial, LiveIsLast
<1>7. CASE MarkSucceeded(e)
  <2>1. exec[e].step = "confirmed"
    BY <1>7 DEF MarkSucceeded
  <2>2. /\ n = Len(runs) /\ n \in landed
        /\ runs[n].status = "running" /\ runs[n].verdict = "none"
        /\ Untouched => exec[e].seen = Raw(runs[n].content)
        /\ NoneResolved /\ live.form = "posted" => live = exec[e].seen
    BY <2>1 DEF Serial, CallKnows, TypeInv, CallRows, Executing
  <2>3. r.status = "succeeded" /\ r.response = exec[e].seen /\ r.verdict = "none"
    BY <1>7, <2>2, ClosedRow
  <2>4. Succeeded' = Succeeded \cup {n} /\ n \notin Succeeded
    BY <1>1, <2>2, <2>3 DEF Succeeded
  <2>5. Blocking' = Blocking \ {n} /\ (NoneResolved' <=> NoneResolved)
    BY <1>1, <2>2, <2>3 DEF Blocking, NoneResolved, Resolved
  <2>6. LastIsOpen'
    BY <1>1, <2>5 DEF Serial, LastIsOpen
  <2>7. PostsAreOpen'
    <3>1. Untouched \/ NoneResolved => \A i \in sent : i # n
      BY <2>2 DEF Serial, PostsAreOpen
    <3>2. QED
      BY <1>3, <2>2, <2>4, <2>5, <3>1 DEF Serial, PostsAreOpen
  <2>8. PostedIsBaseline'
    BY <1>1, <1>3, <1>5, <2>2, <2>3, <2>5 DEF PostedIsBaseline
  <2>9. SuccessIsOurs'
    BY <1>1, <1>2, <1>3, <2>2, <2>3, <2>4 DEF Serial, SuccessIsOurs, Untouched, Succeeded
  <2>10. ReconciledLanded'
    BY <1>1, <1>3, <2>2, <2>3 DEF Serial, ReconciledLanded, Resolved
  <2>11. QED
    BY <1>4, <1>6, <2>6, <2>7, <2>8, <2>9, <2>10 DEF Serial
<1>8. CASE MarkUnknown(e) \/ Record(e)
  <2>1. runs[n].status # "succeeded" /\ r.status # "succeeded"
    BY <1>8, ClosedRow DEF MarkUnknown, Record, TypeInv, CallRows, Executing
  <2>2. Succeeded' = Succeeded /\ n \notin Succeeded
    BY <1>1, <2>1 DEF Succeeded
  <2>3. r.verdict = runs[n].verdict \/ runs[n].verdict = "none"
    BY <1>8, ClosedRow
  <2>4. Blocking' \subseteq Blocking /\ (NoneResolved' => NoneResolved)
    BY <1>1, <2>1, <2>3 DEF Blocking, NoneResolved, Resolved
  <2>5. LastIsOpen'
    BY <1>1, <2>4 DEF Serial, LastIsOpen
  <2>6. r.verdict = "reconciled_succeeded" /\ Untouched => n \in landed
    <3>1. CASE r.verdict = runs[n].verdict
      BY <1>1, <3>1 DEF Serial, ReconciledLanded, Resolved, Untouched
    <3>2. CASE r.verdict # runs[n].verdict
      <4>1. Record(e) /\ r.verdict = exec[e].verdict
        BY <1>8, <3>2, ClosedRow
      <4>2. QED
        BY <4>1 DEF Record, Serial, CallKnows
    <3>3. QED
      BY <3>1, <3>2
  <2>7. PostsAreOpen'
    <3>1. \A i \in Blocking : i \in Blocking' \/ (i = n /\ r.verdict = "reconciled_succeeded")
      BY <1>1, <2>1 DEF Blocking, Resolved
    <3>2. NoneResolved' => r.verdict # "reconciled_succeeded"
      BY <1>1 DEF NoneResolved, Resolved
    <3>3. QED
      BY <1>3, <2>2, <2>4, <2>6, <3>1, <3>2 DEF Serial, PostsAreOpen
  <2>8. PostedIsBaseline'
    BY <1>1, <1>3, <1>5, <2>2, <2>4 DEF Serial, PostedIsBaseline
  <2>9. SuccessIsOurs'
    BY <1>1, <1>3, <2>2 DEF Serial, SuccessIsOurs, Succeeded
  <2>10. ReconciledLanded'
    BY <1>1, <1>3, <2>6 DEF Serial, ReconciledLanded, Resolved, Untouched
  <2>11. QED
    BY <1>4, <1>6, <2>5, <2>7, <2>8, <2>9, <2>10 DEF Serial
<1>9. QED
  BY <1>7, <1>8 DEF Closes

\* The one POST: it belongs to the newest row, which is running.
LEMMA SendStep ==
    ASSUME TypeInv, Serial, NEW e \in Operators, Send(e)
    PROVE  Serial'
<1> DEFINE n == exec[e].run
<1>1. exec[e].step = "running" /\ n \in RunIds /\ exec \in [Operators -> Call]
  BY DEF Send, TypeInv, ContentTypeOK
<1>2. /\ n = Len(runs) /\ n \notin sent \cup landed
      /\ runs[n].status = "running" /\ runs[n].verdict = "none"
  BY <1>1 DEF Serial, CallKnows, TypeInv, CallRows, Executing
<1>3. /\ UNCHANGED <<live, edits, landed, runs>> /\ sent' = sent \cup {n}
      /\ (Untouched' <=> Untouched) /\ edits \in Nat
  BY DEF Send, Untouched, TypeInv, ContentTypeOK
<1>4. n \in Blocking
  BY <1>1, <1>2 DEF Blocking, Resolved
<1>5. Alone' /\ CallKnows'
  <2>1. exec'[e].step = "sent" /\ exec'[e].run = n
    BY <1>1 DEF Send, Goes, Call
  <2>2. \A f \in Operators \ {e} : exec'[f].step = "idle"
    BY <1>1 DEF Send, Goes, Serial, Alone
  <2>3. QED
    BY <1>2, <1>3, <2>1, <2>2 DEF Alone, CallKnows, Executing
<1>6. PostsAreOpen'
  BY <1>2, <1>3, <1>4, RowlessKeeps DEF Serial, PostsAreOpen
<1>7. QED
  BY <1>3, <1>5, <1>6, RowlessKeeps, SameRows
  DEF Serial, LiveIsLast, PostedIsBaseline, ReconciledLanded, Resolved, Untouched

\* The steps of a call that touch neither the rows nor the POST.
LEMMA QuietStep ==
    ASSUME TypeInv, Serial, NEW e \in Operators,
           \/ Observe(e) \/ Answered(e) \/ Unclear(e) \/ ReadBack(e)
           \/ ReadBackFails(e) \/ Decline(e) \/ BeginRefused(e) \/ Abandon(e)
    PROVE  Serial'
<1>1. /\ exec[e] \in Call /\ exec \in [Operators -> Call] /\ live \in Raws
  BY DEF TypeInv, ContentTypeOK
<1>2. exec[e].step # "idle" /\ UNCHANGED <<remote, runs>>
  BY DEF Observe, Answered, Unclear, ReadBack, ReadBackFails, Decline, BeginRefused, Abandon
<1>3. /\ exec[e].step \in {"resolved", "clear"} =>
           Blocking = {} /\ exec[e].expected = Baseline /\ exec[e].last = LastSubmitted
      /\ exec[e].step \in Executing =>
           exec[e].run = Len(runs) /\ runs[exec[e].run].verdict = "none"
      /\ exec[e].step = "answered" => exec[e].run \in landed
  BY DEF Serial, CallKnows
<1>4. CASE Observe(e)
  <2>1. [exec[e] EXCEPT !.step = "clear"] \in Call
    BY <1>1 DEF Call, Steps
  <2>2. QED
    BY <1>1, <1>2, <1>3, <1>4, <2>1, CallStep DEF Observe, Goes, Clear, Call, Executing
<1>5. CASE Answered(e)
  <2>1. [exec[e] EXCEPT !.step = "answered"] \in Call
    BY <1>1 DEF Call, Steps
  <2>2. QED
    BY <1>1, <1>2, <1>3, <1>5, <2>1, CallStep DEF Answered, Goes, Call, Executing
<1>6. CASE Unclear(e) \/ ReadBackFails(e)
  <2>1. [exec[e] EXCEPT !.step = "unclear"] \in Call
    BY <1>1 DEF Call, Steps
  <2>2. QED
    BY <1>1, <1>2, <1>3, <1>6, <2>1, CallStep
    DEF Unclear, ReadBackFails, Goes, Call, Executing
<1>7. CASE ReadBack(e)
  <2> DEFINE r == [exec[e] EXCEPT !.step = "confirmed", !.seen = live]
  <2>1. r \in Call
    BY <1>1 DEF Call, Steps
  <2>2. exec' = [exec EXCEPT ![e] = r]
    BY <1>1, <1>7 DEF ReadBack
  <2>3. exec[e].run = Len(runs) /\ exec[e].run \in landed /\ exec[e].run \in RunIds
        /\ runs[exec[e].run].verdict = "none"
    BY <1>3, <1>7 DEF ReadBack, Executing, TypeInv, ContentTypeOK
  <2>4. Untouched => live = Raw(runs[exec[e].run].content)
    <3>1. runs # << >>
      BY <2>3 DEF RunIds
    <3>2. QED
      BY <2>3, <3>1 DEF Serial, LiveIsLast
  <2>5. r.step = "confirmed" /\ r.seen = live /\ r.run = exec[e].run
    BY <1>1 DEF Call
  <2>6. QED
    BY <1>2, <2>1, <2>2, <2>3, <2>4, <2>5, CallStep
<1>8. CASE Decline(e) \/ BeginRefused(e) \/ Abandon(e)
  BY <1>2, <1>8, IdleType, CallStep
  DEF Decline, BeginRefused, Abandon, Returns, Idle, Executing
<1>9. QED
  BY <1>4, <1>5, <1>6, <1>7, <1>8

\* A verdict: with the post untouched, text equal to the run's content can only
\* be there because the run's POST landed.
LEMMA JudgeStep ==
    ASSUME OneAtATime, TypeInv, Serial, NEW e \in Operators, NEW i \in RunIds,
           NEW v \in Verdicts \ {"none"}, Judge(e, i, v)
    PROVE  Serial'
<1> DEFINE r == [Idle EXCEPT !.step = "judged", !.run = i, !.verdict = v]
<1>1. runs \in Seq(Row) /\ i \in 1 .. Len(runs) /\ i \in Nat
  <2>1. runs \in Seq(Row)
    BY DEF TypeInv, ContentTypeOK
  <2>2. QED
    BY <2>1 DEF RunIds
<1>2. r \in Call
  BY <1>1, IdleType DEF Idle, Call, Steps
<1>3. \A f \in Operators : exec[f].step = "idle"
  BY DEF Judge, Free
<1>4. i = Len(runs) /\ runs # << >>
  BY <1>1 DEF Judge, Open, Serial, LastIsOpen, Blocking, Resolved
<1>5. v = "reconciled_succeeded" /\ Untouched => i \in landed
  <2> SUFFICES ASSUME v = "reconciled_succeeded", Untouched, i \notin landed PROVE FALSE
    OBVIOUS
  <2>1. live = runs[i].expected /\ runs[i].expected.text # runs[i].content
    BY <1>4 DEF Serial, LiveIsLast
  <2>2. live.text = runs[i].content
    BY DEF Judge, Equivalent
  <2>3. QED
    BY <2>1, <2>2
<1>6. QED
  BY <1>2, <1>3, <1>5, CallStep DEF Judge, Idle, Executing

LEMMA ResolveStep ==
    ASSUME OneAtATime, TypeInv, Serial, NEW e \in Operators, NEW c \in Contents,
           NEW k \in Keys \cup {NoKey}, Resolve(e, c, k)
    PROVE  Serial'
<1> DEFINE r == [Idle EXCEPT !.step = "resolved", !.content = c, !.key = k,
                             !.expected = Baseline, !.last = LastSubmitted]
<1>1. r \in Call
  BY IdleType, BaselineType DEF Idle, Call, Steps
<1>2. (\A f \in Operators : exec[f].step = "idle") /\ Blocking = {}
  BY DEF Resolve, Free, Gates
<1>3. QED
  BY <1>1, <1>2, CallStep DEF Resolve, Idle, Executing

LEMMA SerialInductive ==
    ASSUME OneAtATime, TypeInv, Serial, [ContentNext]_contentVars
    PROVE  Serial'
<1>1. CASE UNCHANGED <<remote, runs, exec>>
  BY <1>1, RowlessKeeps, SameRows
  DEF Serial, Alone, LastIsOpen, CallKnows, PostsAreOpen, LiveIsLast, PostedIsBaseline,
      SuccessIsOurs, ReconciledLanded, Untouched, remote, Resolved, Executing
<1>2. QED
  BY <1>1, OutsideStep, BeginStep, CloseStep, SendStep, QuietStep, JudgeStep, ResolveStep
  DEF ContentNext, contentVars, Executes, Closes, PatchBody, ApproveArtifact, remote

LEMMA InitSerial == ContentInit => Serial
BY DEF ContentInit, Serial, Alone, LastIsOpen, CallKnows, PostsAreOpen, LiveIsLast,
       PostedIsBaseline, SuccessIsOurs, ReconciledLanded, Untouched, RunIds, Blocking,
       Succeeded, Executing, Idle, Raw

\* The strengthening holds of every state.
THEOREM ContentInvariant == ContentSpec => []ContentInv
<1>1. ContentInit => ContentInv
  BY InitTyped, InitSerial DEF ContentInv, TypeInv, Serial
<1>2. ContentInv /\ [ContentNext]_contentVars => ContentInv'
  BY TypeInductive, SerialInductive DEF ContentInv, TypeInv, Serial
<1>3. QED
  BY <1>1, <1>2, PTL DEF ContentSpec

\* Updates made one at a time never leave two runs of the post unresolved
\* (find_blocking_run_for_post).
THEOREM OneOpenRunCorrect ==
    ASSUME OneAtATime
    PROVE  ContentSpec => []OneOpenRun
<1>1. ContentInv => OneOpenRun
  BY DEF ContentInv, LastIsOpen, OneOpenRun
<1>2. QED
  BY <1>1, ContentInvariant, PTL

\* The stored baseline is what WordPress has until somebody else writes to the
\* post or a lost answer is reconciled (latest_succeeded_for_post, classify).
THEOREM BaselineTracksLiveCorrect ==
    ASSUME OneAtATime
    PROVE  ContentSpec => []BaselineTracksLive
<1>1. ASSUME ContentInv PROVE BaselineTracksLive
  <2>1. PostedIsBaseline /\ TypeInv
    BY <1>1 DEF ContentInv, TypeInv
  <2> SUFFICES ASSUME Blocking = {}, NoneResolved, live.form = "posted"
               PROVE  live = Baseline
    BY DEF BaselineTracksLive, NoneResolved
  <2>2. CASE runs = << >>
    <3>1. Succeeded = {}
      BY <2>2 DEF Succeeded, RunIds
    <3>2. QED
      BY <2>1, <2>2, <3>1 DEF PostedIsBaseline, Baseline
  <2>3. CASE runs # << >>
    <3>1. Len(runs) \in RunIds
      BY <2>1, <2>3 DEF TypeInv, ContentTypeOK, RunIds
    <3>2. Len(runs) \in Succeeded
      BY <3>1 DEF Blocking, NoneResolved, Succeeded
    <3>3. QED
      BY <2>1, <3>2, LastSucceeded DEF PostedIsBaseline, Baseline
  <2>4. QED
    BY <2>2, <2>3
<1>2. QED
  BY <1>1, ContentInvariant, PTL

\* What a succeeded run read back is its own content, as long as nobody else
\* edits the post (_commit_transaction_b).
THEOREM SuccessIsOursCorrect ==
    ASSUME OneAtATime
    PROVE  ContentSpec => []SuccessIsOurs
<1>1. ContentInv => SuccessIsOurs
  BY DEF ContentInv
<1>2. QED
  BY <1>1, ContentInvariant, PTL

\* A run that a person reconciled as succeeded did take effect (reconcile).
THEOREM ReconciledLandedCorrect ==
    ASSUME OneAtATime
    PROVE  ContentSpec => []ReconciledLanded
<1>1. ContentInv => ReconciledLanded
  BY DEF ContentInv
<1>2. QED
  BY <1>1, ContentInvariant, PTL

\* A run begins only when every earlier one is settled (execute, Transaction A).
THEOREM NoNewRunWhileOpenCorrect ==
    ASSUME OneAtATime
    PROVE  ContentSpec => NoNewRunWhileOpen
<1>1. ASSUME ContentInv, [ContentNext]_contentVars, Len(runs') > Len(runs)
      PROVE  Blocking = {}
  <2>1. TypeInv /\ CallKnows /\ Len(runs) \in Nat
    BY <1>1 DEF ContentInv, TypeInv, ContentTypeOK
  <2>2. \A e \in Operators : ~Closes(e)
    BY <1>1, <2>1, ClosedRow, ChangedRow
  <2>3. PICK e \in Operators : Begin(e)
    BY <1>1, <2>1, <2>2, RowsChangeTwice
  <2>4. QED
    BY <2>1, <2>3 DEF Begin, CallKnows
<1>2. QED
  BY <1>1, ContentInvariant, PTL DEF ContentSpec, NoNewRunWhileOpen

\* A POST that lands late still replaces the content its run expected
\* (the timeout path of execute and the block that follows from it).
THEOREM OverwritesItsBaselineCorrect ==
    ASSUME OneAtATime
    PROVE  ContentSpec => OverwritesItsBaseline
<1>1. ASSUME ContentInv, [ContentNext]_contentVars,
             NEW i \in landed' \ landed, Untouched
      PROVE  live = runs[i].expected
  <2>1. TypeInv /\ Serial
    BY <1>1 DEF ContentInv, TypeInv, Serial
  <2>2. i \in sent
    BY <1>1 DEF ContentNext, contentVars, PatchBody, ApproveArtifact, Outside, EditLive, Land,
       Lose, Resolve, Judge, Executes, Observe, Decline, Begin, BeginRefused, Send, remote,
       Answered, Unclear, ReadBack, ReadBackFails, Abandon, MarkSucceeded, MarkUnknown, Record
  <2>3. i = Len(runs) /\ i \notin landed /\ runs # << >>
    BY <1>1, <2>1, <2>2, PostIsLast DEF Serial
  <2>4. QED
    BY <1>1, <2>1, <2>3 DEF Serial, LiveIsLast
<1>2. ASSUME ContentInv, [ContentNext]_contentVars
      PROVE  \A i \in landed' \ landed : edits = 0 => live = runs[i].expected
  BY <1>1, <1>2 DEF Untouched
<1>3. QED
  BY <1>2, ContentInvariant, PTL DEF ContentSpec, OverwritesItsBaseline

-----------------------------------------------------------------------------
(* The application of change requests.                                       *)

USE ChangeAssumption

-----------------------------------------------------------------------------
(* Every step is a step of the content update.                             *)

LEMMA ProposedIsContent ==
    ASSUME ChangeTypeOK, NEW e \in Operators
    PROVE  /\ apply[e] \in Apply
           /\ apply[e].artifact \in Contents /\ apply[e].source \in Contents
           /\ apply[e].app \in Nat /\ apply[e].run \in Nat
           /\ ~At(e, "idle") => /\ apply[e].request \in Requests
                                /\ Mine(e) \in Request
                                /\ Mine(e).proposed \in Contents
<1>1. apply[e] \in Apply /\ request \in [Requests -> Request]
  BY DEF ChangeTypeOK
<1>2. ~At(e, "idle") => apply[e].request \in Requests
  BY DEF ChangeTypeOK
<1>3. ~At(e, "idle") => Mine(e) \in Request
  BY <1>1, <1>2 DEF Mine
<1>4. QED
  BY <1>1, <1>2, <1>3 DEF Apply, Request

LEMMA AppliesIsContent ==
    ASSUME ChangeTypeOK, ChangeInv, NEW e \in Operators, Applies(e)
    PROVE  [ContentNext]_contentVars
<1>1. /\ apply[e].artifact \in Contents
      /\ ~At(e, "idle") => apply[e].request \in Keys /\ Mine(e).proposed \in Contents
  BY ProposedIsContent DEF Requests
<1>2. ASSUME ~At(e, "idle"), PatchBody(Mine(e).proposed) PROVE ContentNext
  BY <1>1, <1>2 DEF ContentNext
<1>3. ASSUME ApproveArtifact(apply[e].artifact) PROVE ContentNext
  BY <1>1, <1>3 DEF ContentNext
<1>4. ASSUME ~At(e, "idle"), Resolve(e, apply[e].artifact, apply[e].request)
      PROVE  ContentNext
  BY <1>1, <1>4 DEF ContentNext
<1>5. ASSUME Executes(e) PROVE ContentNext
  BY <1>5 DEF ContentNext
<1>6. ASSUME Compare(e) PROVE ContentNext
  <2>1. apply[e].run \in RunIds
    BY <1>6 DEF Compare, At, ChangeInv, ApplyKnows, RunsOf
  <2>2. QED
    BY <1>6, <2>1 DEF Compare, ContentNext
<1>7. CASE \/ \E r \in Requests : Freeze(e, r)
           \/ AppendApplication(e) \/ ReviseAlready(e) \/ Persist(e) \/ Fail(e)
           \/ AlreadyCompared(e) \/ Finalize(e)
  BY <1>7 DEF Freeze, AppendApplication, ReviseAlready, Persist, Fail, AlreadyCompared,
              Finalize
<1>8. CASE Revise(e)
  BY <1>2, <1>8 DEF Revise, At
<1>9. CASE ApprovePrepared(e)
  BY <1>3, <1>9 DEF ApprovePrepared
<1>10. CASE Execute(e)
  BY <1>4, <1>10 DEF Execute, At
<1>11. CASE \/ Update(e) \/ Declined(e) \/ Again(e) \/ UpdateSucceeded(e)
            \/ UpdateUnknown(e) \/ Compared(e) \/ Raises(e)
  BY <1>5, <1>11 DEF Update, Declined, Again, UpdateSucceeded, UpdateUnknown, Compared,
                     Raises, Executes
<1>12. CASE Crash(e)
  BY <1>5, <1>12 DEF Crash, Executes
<1>13. QED
  BY <1>6, <1>7, <1>8, <1>9, <1>10, <1>11, <1>12 DEF Applies

LEMMA ChangeIsContent ==
    ASSUME ChangeTypeOK, ChangeInv, [ChangeNext]_changeVars
    PROVE  [ContentNext]_contentVars
<1>1. CASE UNCHANGED changeVars
  BY <1>1 DEF changeVars
<1>2. CASE People
  BY <1>2 DEF People, Propose, Approve, Reject, Reopen, Patch, ContentNext
<1>3. ASSUME NEW e \in Operators, Applies(e) PROVE [ContentNext]_contentVars
  BY <1>3, AppliesIsContent
<1>4. ASSUME NEW e \in Operators, Reconciles(e) PROVE ContentNext
  BY <1>4 DEF Reconciles, ContentNext, Executes
<1>5. CASE Outside
  BY <1>5 DEF ContentNext
<1>6. QED
  BY <1>1, <1>2, <1>3, <1>4, <1>5 DEF ChangeNext

-----------------------------------------------------------------------------
(* Type correctness.                                                       *)

LEMMA StatusType ==
    ASSUME NEW outcome
    PROVE  StatusOf(outcome) \in {"applied", "reconciled", "apply_failed"}
BY DEF StatusOf

\* A new local state of the right type for one operator.
LEMMA ApplyTyped ==
    ASSUME ChangeTypeOK, NEW e \in Operators, NEW a \in Apply,
           apply' = [apply EXCEPT ![e] = a],
           a.step # "idle" => a.request \in Requests
    PROVE  /\ apply' \in [Operators -> Apply]
           /\ \A f \in Operators : apply'[f].step # "idle" => apply'[f].request \in Requests
           /\ apply'[e] = a /\ \A f \in Operators \ {e} : apply'[f] = apply[f]
<1>1. apply \in [Operators -> Apply]
      /\ \A f \in Operators : apply[f].step # "idle" => apply[f].request \in Requests
  BY DEF ChangeTypeOK, At
<1>2. QED
  BY <1>1

\* The local state after each step of apply().
After(e, step, artifact, app, run, outcome) ==
    [apply[e] EXCEPT !.step = step, !.artifact = artifact, !.app = app, !.run = run,
                     !.outcome = outcome]

LEMMA AfterTyped ==
    ASSUME ChangeTypeOK, NEW e \in Operators, ~At(e, "idle"), NEW step \in ApplySteps,
           NEW artifact \in Contents, NEW app \in Nat, NEW run \in Nat,
           NEW outcome \in Outcomes,
           apply' = [apply EXCEPT ![e] = After(e, step, artifact, app, run, outcome)]
    PROVE  /\ apply' \in [Operators -> Apply]
           /\ \A f \in Operators : apply'[f].step # "idle" => apply'[f].request \in Requests
           /\ apply'[e].step = step /\ apply'[e].request = apply[e].request
           /\ apply'[e].artifact = artifact /\ apply'[e].app = app
           /\ apply'[e].run = run /\ apply'[e].outcome = outcome
           /\ \A f \in Operators \ {e} : apply'[f] = apply[f]
<1> DEFINE a == After(e, step, artifact, app, run, outcome)
<1>1. apply[e] \in Apply /\ apply[e].request \in Requests
  BY DEF ChangeTypeOK, At
<1>2. a \in Apply
  BY <1>1 DEF After, Apply
<1>3. /\ a.step = step /\ a.request = apply[e].request /\ a.artifact = artifact
      /\ a.app = app /\ a.run = run /\ a.outcome = outcome
  BY <1>1 DEF After, Apply
<1> HIDE DEF a
<1>4. apply' = [apply EXCEPT ![e] = a]
  BY DEF a
<1>5. QED
  BY <1>1, <1>2, <1>3, <1>4, ApplyTyped

\* What the forms of assignment in the actions come to.
LEMMA GotoIsAfter ==
    ASSUME ChangeTypeOK, NEW e \in Operators, NEW step, Goto(e, step)
    PROVE  apply' = [apply EXCEPT ![e] = After(e, step, apply[e].artifact, apply[e].app,
                                               apply[e].run, apply[e].outcome)]
<1>1. apply[e] \in Apply
  BY DEF ChangeTypeOK
<1>2. [apply[e] EXCEPT !.step = step] =
        After(e, step, apply[e].artifact, apply[e].app, apply[e].run, apply[e].outcome)
  BY <1>1 DEF After, Apply
<1>3. QED
  BY <1>2 DEF Goto

LEMMA FinishIsAfter ==
    ASSUME ChangeTypeOK, NEW e \in Operators, NEW outcome, NEW run, Finish(e, outcome, run)
    PROVE  apply' = [apply EXCEPT ![e] = After(e, "done", apply[e].artifact, apply[e].app,
                                               run, outcome)]
<1>1. apply \in [Operators -> Apply]
  BY DEF ChangeTypeOK
<1>2. [apply[e] EXCEPT !.step = "done", !.outcome = outcome, !.run = run] =
        After(e, "done", apply[e].artifact, apply[e].app, run, outcome)
  BY <1>1 DEF After, Apply
<1>3. apply' = [apply EXCEPT ![e] =
                  [apply[e] EXCEPT !.step = "done", !.outcome = outcome, !.run = run]]
  BY <1>1 DEF Finish, Apply
<1>4. QED
  BY <1>2, <1>3

Unknown(e, run) == apply' = [apply EXCEPT ![e].step = "unknown", ![e].run = run]

LEMMA UnknownIsAfter ==
    ASSUME ChangeTypeOK, NEW e \in Operators, NEW run, Unknown(e, run)
    PROVE  apply' = [apply EXCEPT ![e] = After(e, "unknown", apply[e].artifact,
                                               apply[e].app, run, apply[e].outcome)]
<1>1. apply \in [Operators -> Apply]
  BY DEF ChangeTypeOK
<1>2. [apply[e] EXCEPT !.step = "unknown", !.run = run] =
        After(e, "unknown", apply[e].artifact, apply[e].app, run, apply[e].outcome)
  BY <1>1 DEF After, Apply
<1>3. apply' = [apply EXCEPT ![e] = [apply[e] EXCEPT !.step = "unknown", !.run = run]]
  BY <1>1 DEF Unknown, Apply
<1>4. QED
  BY <1>2, <1>3

LEMMA AppendIsAfter ==
    ASSUME ChangeTypeOK, NEW e \in Operators, AppendApplication(e)
    PROVE  apply' = [apply EXCEPT ![e] = After(e, "appended", apply[e].artifact,
                                               Len(apps) + 1, apply[e].run,
                                               apply[e].outcome)]
<1>1. apply \in [Operators -> Apply]
  BY DEF ChangeTypeOK
<1>2. [apply[e] EXCEPT !.step = "appended", !.app = Len(apps) + 1] =
        After(e, "appended", apply[e].artifact, Len(apps) + 1, apply[e].run,
              apply[e].outcome)
  BY <1>1 DEF After, Apply
<1>3. apply' = [apply EXCEPT ![e] =
                  [apply[e] EXCEPT !.step = "appended", !.app = Len(apps) + 1]]
  BY <1>1 DEF AppendApplication, Apply
<1>4. QED
  BY <1>2, <1>3

LEMMA PersistIsAfter ==
    ASSUME ChangeTypeOK, NEW e \in Operators, Persist(e)
    PROVE  apply' = [apply EXCEPT ![e] = After(e, "persisted", body, apply[e].app,
                                               apply[e].run, apply[e].outcome)]
<1>1. apply \in [Operators -> Apply]
  BY DEF ChangeTypeOK
<1>2. [apply[e] EXCEPT !.step = "persisted", !.artifact = body] =
        After(e, "persisted", body, apply[e].app, apply[e].run, apply[e].outcome)
  BY <1>1 DEF After, Apply
<1>3. apply' = [apply EXCEPT ![e] =
                  [apply[e] EXCEPT !.step = "persisted", !.artifact = body]]
  BY <1>1 DEF Persist, Apply
<1>4. QED
  BY <1>2, <1>3

\* The rows of change_applications.
LEMMA AppsTyped ==
    ASSUME ChangeTypeOK, NEW e \in Operators, AppendApplication(e)
    PROVE  /\ apps' \in Seq(Application) /\ Len(apps') = Len(apps) + 1 /\ Len(apps) \in Nat
           /\ \A i \in AppIds : i \in AppIds' /\ apps'[i] = apps[i]
           /\ Len(apps') \in AppIds' /\ apps'[Len(apps')].request = apply[e].request
<1> DEFINE a == [request |-> apply[e].request, outcome |-> "planned", run |-> 0]
<1>1. apps \in Seq(Application) /\ apply[e].request \in Requests
  BY ProposedIsContent DEF ChangeTypeOK, AppendApplication, At
<1>2. a \in Application /\ a.request = apply[e].request
  BY <1>1 DEF Application, Outcomes
<1>3. apps' = Append(apps, a)
  BY DEF AppendApplication
<1> HIDE DEF a
<1>4. QED
  BY <1>1, <1>2, <1>3 DEF AppIds

LEMMA FinalizedTyped ==
    ASSUME ChangeTypeOK, ChangeInv, NEW e \in Operators, Finalize(e)
    PROVE  /\ apps' \in Seq(Application) /\ AppIds' = AppIds
           /\ \A i \in AppIds : apps'[i].request = apps[i].request
<1> DEFINE n == apply[e].app
           a == [apps[n] EXCEPT !.outcome = apply[e].outcome, !.run = apply[e].run]
<1>1. apply[e] \in Apply /\ apps \in Seq(Application)
  BY DEF ChangeTypeOK
<1>2. n \in 1 .. Len(apps)
  BY DEF Finalize, At, ChangeInv, ApplyKnows, AppIds
<1>3. apps[n] \in Application
  BY <1>1, <1>2
<1>4. a \in Application /\ a.request = apps[n].request
  BY <1>1, <1>3 DEF Application, Apply
<1>5. apps' = [apps EXCEPT ![n] = a]
  BY <1>1, <1>2, <1>3 DEF Finalize, Application
<1> HIDE DEF a, n
<1>6. apps' \in Seq(Application) /\ Len(apps') = Len(apps)
  BY <1>1, <1>2, <1>4, <1>5
<1>7. \A i \in 1 .. Len(apps) : apps'[i].request = apps[i].request
  BY <1>1, <1>2, <1>4, <1>5
<1>8. QED
  BY <1>6, <1>7 DEF AppIds

\* apply() keeps its local state typed.
LEMMA ApplyKept ==
    ASSUME ChangeTypeOK, TypeInv, ChangeInv, NEW e \in Operators, Applies(e)
    PROVE  /\ apply' \in [Operators -> Apply]
           /\ \A f \in Operators : apply'[f].step # "idle" => apply'[f].request \in Requests
           /\ \A f \in Operators \ {e} : apply'[f] = apply[f]
<1> DEFINE Goal == /\ apply' \in [Operators -> Apply]
                   /\ \A f \in Operators :
                        apply'[f].step # "idle" => apply'[f].request \in Requests
                   /\ \A f \in Operators \ {e} : apply'[f] = apply[f]
<1>0. /\ apply[e] \in Apply /\ apply[e].artifact \in Contents /\ apply[e].app \in Nat
      /\ apply[e].run \in Nat /\ apply[e].outcome \in Outcomes /\ body \in Contents
      /\ exec[e].run \in Nat /\ \A i \in RunIds : i \in Nat
      /\ First \in Contents
  <2>1. exec[e] \in Call /\ apply[e] \in Apply
    BY DEF TypeInv, ContentTypeOK, ChangeTypeOK
  <2>2. QED
    BY <2>1 DEF Call, Apply, RunIds, TypeInv, ContentTypeOK
<1>1. ASSUME ~At(e, "idle"), NEW step \in ApplySteps, Goto(e, step) PROVE Goal
  BY <1>0, <1>1, GotoIsAfter, AfterTyped
<1>2. ASSUME ~At(e, "idle"), NEW outcome \in Outcomes, NEW run \in Nat,
             Finish(e, outcome, run)
      PROVE  Goal
  <2>1. "done" \in ApplySteps
    BY DEF ApplySteps
  <2>2. QED
    BY <1>0, <1>2, <2>1, FinishIsAfter, AfterTyped
<1>3. ASSUME ~At(e, "idle"), NEW run \in Nat, Unknown(e, run) PROVE Goal
  <2>1. "unknown" \in ApplySteps
    BY DEF ApplySteps
  <2>2. QED
    BY <1>0, <1>3, <2>1, UnknownIsAfter, AfterTyped
<1>4. ASSUME apply' = [apply EXCEPT ![e] = NoApply] PROVE Goal
  <2>1. NoApply \in Apply /\ NoApply.step = "idle"
    BY <1>0 DEF NoApply, Apply, ApplySteps, Outcomes
  <2>2. QED
    BY <1>4, <2>1, ApplyTyped
<1>5. CASE \E r \in Requests : Freeze(e, r)
  <2>1. PICK r \in Requests : Freeze(e, r)
    BY <1>5
  <2> DEFINE a == [NoApply EXCEPT !.step = "frozen", !.request = r, !.source = body]
  <2>2. a \in Apply /\ a.request = r
    BY <1>0 DEF NoApply, Apply, ApplySteps, Outcomes
  <2>3. apply' = [apply EXCEPT ![e] = a]
    BY <2>1 DEF Freeze
  <2>4. QED
    BY <2>2, <2>3, ApplyTyped
<1>6. CASE AppendApplication(e)
  <2>1. Len(apps) + 1 \in Nat /\ "appended" \in ApplySteps /\ ~At(e, "idle")
    BY <1>6, AppsTyped DEF ApplySteps, AppendApplication, At
  <2>2. QED
    BY <1>0, <1>6, <2>1, AppendIsAfter, AfterTyped
<1>7. CASE Persist(e)
  <2>1. "persisted" \in ApplySteps /\ ~At(e, "idle")
    BY <1>7 DEF ApplySteps, Persist, At
  <2>2. QED
    BY <1>0, <1>7, <2>1, PersistIsAfter, AfterTyped
<1>8. CASE Revise(e) \/ ReviseAlready(e) \/ ApprovePrepared(e) \/ Execute(e)
  BY <1>1, <1>8
  DEF Revise, ReviseAlready, ApprovePrepared, Execute, At, ApplySteps
<1>9. CASE Fail(e) \/ Declined(e) \/ UpdateSucceeded(e) \/ Raises(e)
  BY <1>0, <1>2, <1>9 DEF Fail, Declined, UpdateSucceeded, Raises, At, Outcomes
<1>10. CASE Again(e)
  <2>0. ~At(e, "idle")
    BY <1>10 DEF Again, At
  <2>1. CASE \E i \in RunIds :
               CASE runs[i].status = "succeeded" -> Finish(e, "succeeded", i)
                 [] runs[i].status = "outcome_unknown" -> Unknown(e, i)
                 [] OTHER -> Finish(e, "failed", i)
    BY <1>0, <1>2, <1>3, <2>0, <2>1 DEF Outcomes
  <2>2. CASE Finish(e, "failed", 0)
    BY <1>2, <2>0, <2>2 DEF Outcomes
  <2>3. QED
    BY <1>10, <2>1, <2>2 DEF Again, Unknown
<1>11. CASE UpdateUnknown(e)
  BY <1>0, <1>3, <1>11 DEF UpdateUnknown, Unknown, At
<1>12. CASE Compared(e) \/ AlreadyCompared(e)
  BY <1>0, <1>2, <1>12 DEF Compared, AlreadyCompared, Settle, At, Outcomes
<1>13. CASE Update(e) \/ Compare(e)
  BY <1>13 DEF Update, Compare, ChangeTypeOK, At
<1>14. CASE Finalize(e) \/ Crash(e)
  BY <1>4, <1>14 DEF Finalize, Crash
<1>15. QED
  BY <1>5, <1>6, <1>7, <1>8, <1>9, <1>10, <1>11, <1>12, <1>13, <1>14 DEF Applies

LEMMA ChangeTypeKept ==
    ASSUME ChangeTypeOK, TypeInv, ChangeInv, [ChangeNext]_changeVars
    PROVE  ChangeTypeOK'
<1>1. ContentTypeOK'
  BY ChangeIsContent, TypeKept
<1>2. CASE UNCHANGED changeVars
  BY <1>1, <1>2 DEF changeVars, ledger, ChangeTypeOK, At
<1>3. CASE People
  <2> DEFINE Typed == /\ request' \in [Requests -> Request] /\ patches' \in Nat
                      /\ UNCHANGED <<revisions, apps, apply>>
  <2>0. request \in [Requests -> Request] /\ patches \in Nat /\ body \in Contents
    BY DEF ChangeTypeOK, ContentTypeOK
  <2>1. ASSUME \E r \in Requests, c \in Contents : Propose(r, c) PROVE Typed
    <3>1. PICK r \in Requests, c \in Contents : Propose(r, c)
      BY <2>1
    <3> DEFINE q == [status |-> "awaiting_approval", source |-> body,
                     proposed |-> c, approved |-> FALSE]
    <3>2. q \in Request
      BY <2>0 DEF Request, Statuses
    <3>3. request' = [request EXCEPT ![r] = q]
      BY <3>1 DEF Propose
    <3>4. request' \in [Requests -> Request]
      BY <2>0, <3>2, <3>3
    <3>5. QED
      BY <2>0, <3>1, <3>4 DEF Propose
  <2>2. ASSUME \E r \in Requests : Approve(r) \/ Reject(r) \/ Reopen(r) PROVE Typed
    <3>1. PICK r \in Requests : Approve(r) \/ Reject(r) \/ Reopen(r)
      BY <2>2
    <3>2. request[r] \in Request
      BY <2>0
    <3>3. \A q \in Statuses : /\ [request[r] EXCEPT !.status = q] \in Request
                             /\ [request[r] EXCEPT !.status = q, !.approved = TRUE] \in Request
      BY <3>2 DEF Request
    <3>4. \/ request' = [request EXCEPT ![r] = [request[r] EXCEPT !.status = "approved",
                                                               !.approved = TRUE]]
          \/ \E q \in Statuses : request' = [request EXCEPT ![r] =
                                              [request[r] EXCEPT !.status = q]]
      <4>1. CASE Approve(r)
        BY <2>0, <3>2, <4>1 DEF Approve, Request
      <4>2. CASE Reject(r)
        BY <4>2 DEF Reject, SetStatus, Statuses
      <4>3. CASE Reopen(r)
        BY <4>3 DEF Reopen, SetStatus, Statuses
      <4>4. QED
        BY <3>1, <4>1, <4>2, <4>3
    <3>5. request' \in [Requests -> Request]
      <4>1. "approved" \in Statuses
        BY DEF Statuses
      <4>2. QED
        BY <2>0, <3>3, <3>4, <4>1
    <3>6. QED
      BY <2>0, <3>1, <3>5 DEF Approve, Reject, Reopen
  <2>3. ASSUME \E c \in Contents : Patch(c) PROVE Typed
    BY <2>0, <2>3 DEF Patch, ledger
  <2>4. QED
    BY <1>1, <1>3, <2>1, <2>2, <2>3 DEF People, ChangeTypeOK, At
<1>4. ASSUME NEW e \in Operators, Applies(e) PROVE ChangeTypeOK'
  <2>1. patches' = patches
    BY <1>4 DEF Applies, Freeze, AppendApplication, Revise, ReviseAlready, Persist,
                ApprovePrepared, Execute, Fail, Update, Declined, Again, UpdateSucceeded,
                UpdateUnknown, Compare, Compared, AlreadyCompared, Raises, Finalize, Crash
  <2>2. request' \in [Requests -> Request]
    <3>1. CASE Finalize(e)
      <4>1. StatusOf(apply[e].outcome) \in Statuses
        BY StatusType DEF Statuses
      <4>2. QED
        BY <3>1, <4>1 DEF Finalize, SetStatus, ChangeTypeOK, Request
    <3>2. CASE ~Finalize(e)
      <4>1. request' = request
        BY <1>4, <3>2
        DEF Applies, Freeze, AppendApplication, Revise, ReviseAlready, Persist,
            ApprovePrepared, Execute, Fail, Update, Declined, Again, UpdateSucceeded,
            UpdateUnknown, Compare, Compared, AlreadyCompared, Raises, Crash, ledger
      <4>2. QED
        BY <4>1 DEF ChangeTypeOK
    <3>3. QED
      BY <3>1, <3>2
  <2>3. revisions' \subseteq Revision
    <3>1. CASE Revise(e)
      BY <3>1, ProposedIsContent DEF Revise, At, ChangeTypeOK, Revision
    <3>2. CASE ~Revise(e)
      <4>1. revisions' = revisions
        BY <1>4, <3>2
        DEF Applies, Freeze, AppendApplication, ReviseAlready, Persist,
            ApprovePrepared, Execute, Fail, Update, Declined, Again, UpdateSucceeded,
            UpdateUnknown, Compare, Compared, AlreadyCompared, Raises, Finalize, Crash,
            ledger
      <4>2. QED
        BY <4>1 DEF ChangeTypeOK
    <3>3. QED
      BY <3>1, <3>2
  <2>4. apps' \in Seq(Application)
    <3>1. CASE AppendApplication(e)
      BY <3>1, AppsTyped
    <3>2. CASE Finalize(e)
      BY <3>2, FinalizedTyped
    <3>3. CASE ~AppendApplication(e) /\ ~Finalize(e)
      <4>1. apps' = apps
        BY <1>4, <3>3
        DEF Applies, Freeze, Revise, ReviseAlready, Persist, ApprovePrepared, Execute,
            Fail, Update, Declined, Again, UpdateSucceeded, UpdateUnknown, Compare,
            Compared, AlreadyCompared, Raises, Crash, ledger
      <4>2. QED
        BY <4>1 DEF ChangeTypeOK
    <3>4. QED
      BY <3>1, <3>2, <3>3
  <2>5. QED
    BY <1>1, <1>4, <2>1, <2>2, <2>3, <2>4, ApplyKept DEF ChangeTypeOK, At
<1>5. CASE (\E e \in Operators : Reconciles(e))
           \/ (Outside /\ UNCHANGED <<ledger, apply, patches>>)
  BY <1>1, <1>5 DEF Reconciles, ledger, ChangeTypeOK, At
<1>6. QED
  BY <1>2, <1>3, <1>4, <1>5 DEF ChangeNext

-----------------------------------------------------------------------------
(* What every step leaves as it is.                                        *)

\* Rows of runs keep their key and content; nothing that landed is undone.
RunsGrow ==
    /\ \A i \in RunIds : /\ i \in RunIds'
                         /\ runs'[i].key = runs[i].key
                         /\ runs'[i].content = runs[i].content
    /\ landed \subseteq landed'
    /\ edits' = 0 => edits = 0

\* Approvals and attempts are never forgotten.
LedgerGrows ==
    /\ \A r \in Requests : request[r].approved =>
         request'[r].approved /\ request'[r].proposed = request[r].proposed
    /\ \A i \in AppIds : i \in AppIds' /\ apps'[i].request = apps[i].request
    /\ revisions \subseteq revisions'
    /\ patches' = 0 => patches = 0

LEMMA ClosedKey ==
    ASSUME TypeInv, NEW e \in Operators, Closes(e)
    PROVE  Closed(e).key = runs[exec[e].run].key
<1>1. exec[e].run \in RunIds /\ runs \in Seq(Row)
  BY ClosedRow DEF TypeInv, ContentTypeOK
<1>2. runs[exec[e].run] \in Row
  BY <1>1 DEF RunIds
<1>3. QED
  BY <1>2 DEF Closed, Row

LEMMA BegunRow ==
    ASSUME TypeInv, NEW e \in Operators, Begin(e)
    PROVE  /\ Len(runs') \in RunIds' /\ RunIds' = RunIds \cup {Len(runs')}
           /\ Len(runs') \notin RunIds
           /\ \A i \in RunIds : runs'[i] = runs[i]
           /\ runs'[Len(runs')].key = exec[e].key
           /\ runs'[Len(runs')].content = exec[e].content
           /\ exec'[e].run = Len(runs') /\ exec'[e].step = "running"
<1>1. exec \in [Operators -> Call] /\ runs \in Seq(Row)
  BY DEF TypeInv, ContentTypeOK
<1> DEFINE r == [content |-> exec[e].content, expected |-> exec[e].expected,
                 key |-> exec[e].key, status |-> "running",
                 response |-> NoRaw, verdict |-> "none"]
<1>2. r \in Row
  BY <1>1 DEF Call, Row, Verdicts
<1>3. runs' = Append(runs, r)
  BY DEF Begin
<1>4. r.key = exec[e].key /\ r.content = exec[e].content
  OBVIOUS
<1> HIDE DEF r
<1>5. runs'[Len(runs')] = r /\ Len(runs') = Len(runs) + 1 /\ Len(runs) \in Nat
  BY <1>1, <1>2, <1>3
<1>6. exec'[e].run = Len(runs') /\ exec'[e].step = "running"
  BY <1>1, <1>5 DEF Begin, Call
<1>7. QED
  BY <1>4, <1>5, <1>6, AppendedRow DEF RunIds

LEMMA RunsGrowing ==
    ASSUME TypeInv, [ContentNext]_contentVars
    PROVE  RunsGrow
<1>1. landed \subseteq landed' /\ (edits' = 0 => edits = 0)
  <2>1. edits \in Nat
    BY DEF TypeInv, ContentTypeOK
  <2>2. ASSUME NEW c \in Contents, EditLive(c) PROVE landed' = landed /\ edits' = edits + 1
    BY <2>2 DEF EditLive
  <2>3. ASSUME NEW i \in sent, Land(i) \/ Lose(i)
        PROVE  landed \subseteq landed' /\ edits' = edits
    BY <2>3 DEF Land, Lose
  <2>4. Outside \/ UNCHANGED <<landed, edits>>
    BY DEF ContentNext, contentVars, remote, PatchBody, ApproveArtifact, Resolve, Judge,
           Executes, Observe, Decline, Begin, BeginRefused, Send, Answered, Unclear,
           ReadBack, ReadBackFails, MarkSucceeded, MarkUnknown, Abandon, Record
  <2>5. QED
    BY <2>1, <2>2, <2>3, <2>4 DEF Outside
<1>2. CASE runs' = runs
  BY <1>1, <1>2 DEF RunsGrow, RunIds
<1>3. ASSUME NEW e \in Operators, Begin(e) PROVE RunsGrow
  BY <1>1, <1>3, BegunRow DEF RunsGrow
<1>4. ASSUME NEW e \in Operators, Closes(e) PROVE RunsGrow
  <2>1. /\ exec[e].run \in RunIds /\ Closed(e) \in Row
        /\ runs' = [runs EXCEPT ![exec[e].run] = Closed(e)]
        /\ Closed(e).content = runs[exec[e].run].content
        /\ Closed(e).key = runs[exec[e].run].key
    BY <1>4, ClosedRow, ClosedKey
  <2>2. /\ RunIds' = RunIds /\ runs'[exec[e].run] = Closed(e)
        /\ \A i \in RunIds \ {exec[e].run} : runs'[i] = runs[i]
    BY <2>1, ChangedRow
  <2>3. QED
    BY <1>1, <2>1, <2>2 DEF RunsGrow
<1>5. QED
  BY <1>2, <1>3, <1>4, RowsChangeTwice

LEMMA LedgerGrowing ==
    ASSUME ChangeTypeOK, ChangeInv, [ChangeNext]_changeVars
    PROVE  LedgerGrows
<1>0. request \in [Requests -> Request] /\ patches \in Nat
  BY DEF ChangeTypeOK
<1>1. patches' = 0 => patches = 0
  <2>1. ASSUME NEW c \in Contents, Patch(c) PROVE patches' # 0
    BY <1>0, <2>1 DEF Patch
  <2>2. (\E c \in Contents : Patch(c)) \/ patches' = patches
    BY DEF ChangeNext, changeVars, People, Applies, Reconciles, Propose, Approve, Reject,
           Reopen, Freeze, AppendApplication, Revise, ReviseAlready, Persist,
           ApprovePrepared, Execute, Fail, Update, Declined, Again, UpdateSucceeded,
           UpdateUnknown, Compare, Compared, AlreadyCompared, Raises, Finalize, Crash
  <2>3. QED
    BY <2>1, <2>2
<1>2. revisions \subseteq revisions'
  BY DEF ChangeNext, changeVars, ledger, People, Applies, Reconciles, Propose, Approve,
         Reject, Reopen, Patch, Freeze, AppendApplication, Revise, ReviseAlready, Persist,
         ApprovePrepared, Execute, Fail, Update, Declined, Again, UpdateSucceeded,
         UpdateUnknown, Compare, Compared, AlreadyCompared, Raises, Finalize, Crash
<1>3. \A i \in AppIds : i \in AppIds' /\ apps'[i].request = apps[i].request
  <2>1. ASSUME NEW e \in Operators, AppendApplication(e) \/ Finalize(e)
        PROVE  \A i \in AppIds : i \in AppIds' /\ apps'[i].request = apps[i].request
    BY <2>1, AppsTyped, FinalizedTyped
  <2>2. (\E e \in Operators : AppendApplication(e) \/ Finalize(e)) \/ apps' = apps
    BY DEF ChangeNext, changeVars, ledger, People, Applies, Reconciles, Propose, Approve,
           Reject, Reopen, Patch, Freeze, Revise, ReviseAlready, Persist, ApprovePrepared,
           Execute, Fail, Update, Declined, Again, UpdateSucceeded, UpdateUnknown, Compare,
           Compared, AlreadyCompared, Raises, Crash
  <2>3. QED
    BY <2>1, <2>2 DEF AppIds
<1>4. ASSUME NEW r \in Requests, request[r].approved
      PROVE  request'[r].approved /\ request'[r].proposed = request[r].proposed
  <2>1. CASE request' = request
    BY <1>4, <2>1
  <2>2. ASSUME NEW q \in Requests, NEW c \in Contents, Propose(q, c)
        PROVE  request'[r] = request[r]
    BY <1>0, <1>4, <2>2 DEF Propose, ChangeInv, ApprovalsExist
  <2>3. ASSUME NEW q \in Requests, Approve(q)
        PROVE  request'[r].approved /\ request'[r].proposed = request[r].proposed
    BY <1>0, <1>4, <2>3 DEF Approve, Request
  <2>4. ASSUME NEW q \in Requests, NEW status, SetStatus(q, status)
        PROVE  request'[r].approved /\ request'[r].proposed = request[r].proposed
    BY <1>0, <1>4, <2>4 DEF SetStatus, Request
  <2>5. ASSUME NEW e \in Operators, Finalize(e)
        PROVE  apply[e].request \in Requests
    BY <2>5, ProposedIsContent DEF Finalize, At
  <2>6. \/ request' = request
        \/ \E q \in Requests : \E c \in Contents : Propose(q, c)
        \/ \E q \in Requests : Approve(q) \/ Reject(q) \/ Reopen(q)
        \/ \E e \in Operators : Finalize(e)
    BY DEF ChangeNext, changeVars, ledger, People, Applies, Reconciles, Patch, Freeze,
           AppendApplication, Revise, ReviseAlready, Persist, ApprovePrepared, Execute, Fail,
           Update, Declined, Again, UpdateSucceeded, UpdateUnknown, Compare, Compared,
           AlreadyCompared, Raises, Crash
  <2>7. QED
    BY <2>1, <2>2, <2>3, <2>4, <2>5, <2>6, <1>4 DEF Reject, Reopen, Finalize
<1>5. QED
  BY <1>1, <1>2, <1>3, <1>4 DEF LedgerGrows

-----------------------------------------------------------------------------
(* What an application knows.                                              *)

LEMMA KnowsElsewhere ==
    ASSUME ChangeTypeOK, TypeInv, ChangeInv, RunsGrow, LedgerGrows, NEW f \in Operators,
           apply'[f] = apply[f], exec'[f] = exec[f]
    PROVE  ApplyKnows(f)'
<1> DEFINE r == apply[f].request
<1>1. ApplyKnows(f)
  BY DEF ChangeInv
<1>2. /\ ~At(f, "idle") => r \in Requests /\ request'[r].approved
      /\ apply[f].step \notin {"idle", "frozen"} =>
           apply[f].app \in AppIds' /\ apps'[apply[f].app].request = r
  BY <1>1 DEF ApplyKnows, LedgerGrows
<1>3. \A c \in Contents : ApprovedContent(c) => ApprovedContent(c)'
  BY DEF ApprovedContent, LedgerGrows, Requests
<1>4. patches' = 0 =>
        /\ At(f, "revised") => revisions' # {}
        /\ apply[f].step \in {"persisted", "executable", "executing"} =>
             ApprovedContent(apply[f].artifact)'
  BY <1>1, <1>3, ProposedIsContent DEF ApplyKnows, LedgerGrows, ApprovedContent
<1>5. exec[f].step \in Executing => runs'[exec[f].run].key = r
  <2>1. exec[f].step \in Executing => exec[f].run \in RunIds
    BY DEF TypeInv, ContentTypeOK, Executing
  <2>2. QED
    BY <1>1, <2>1 DEF ApplyKnows, RunsGrow
<1>6. RunsOf(r) \subseteq RunsOf(r)'
  BY DEF RunsOf, RunsGrow
<1>7. /\ At(f, "unknown") => apply[f].run \in RunsOf(r)'
      /\ At(f, "done") /\ apply[f].outcome \in {"succeeded", "reconciled"} =>
           /\ apply[f].run \in RunsOf(r)'
           /\ OneAtATime /\ edits' = 0 => apply[f].run \in landed'
  BY <1>1, <1>6 DEF ApplyKnows, RunsGrow
<1>8. QED
  BY <1>1, <1>2, <1>4, <1>5, <1>7 DEF ApplyKnows, At, RunsOf, ApprovedContent, Requests

\* The steps of apply() that do not touch the update of the content.
LEMMA KnowsLocally ==
    ASSUME ChangeTypeOK, TypeInv, ChangeInv, RunsGrow, LedgerGrows, NEW e \in Operators,
           ~At(e, "idle"), exec'[e].step = "idle",
           apply'[e].request = apply[e].request,
           apply'[e].app \in AppIds', apps'[apply'[e].app].request = apply[e].request,
           \/ apply'[e].step = "appended"
           \/ apply'[e].step = "revised" /\ (patches' = 0 => revisions' # {})
           \/ /\ apply'[e].step \in {"persisted", "executable"}
              /\ patches' = 0 => ApprovedContent(apply[e].artifact)'
           \/ apply'[e].step = "unknown" /\ apply'[e].run \in RunsOf(apply[e].request)'
           \/ /\ apply'[e].step = "done"
              /\ apply'[e].outcome \in {"succeeded", "reconciled"} =>
                   /\ apply'[e].run \in RunsOf(apply[e].request)'
                   /\ OneAtATime /\ edits' = 0 => apply'[e].run \in landed'
    PROVE  ApplyKnows(e)'
<1>1. apply[e].request \in Requests /\ request'[apply[e].request].approved
  BY DEF ChangeInv, ApplyKnows, LedgerGrows
<1>2. QED
  BY <1>1 DEF ApplyKnows, At, Executing

\* The steps of the content update under way.
LEMMA KnowsExecuting ==
    ASSUME ChangeTypeOK, TypeInv, ChangeInv, RunsGrow, LedgerGrows, NEW e \in Operators,
           At(e, "executing") \/ At(e, "executable"),
           apply'[e].step = "executing",
           apply'[e].request = apply[e].request, apply'[e].app = apply[e].app,
           apply'[e].artifact = apply[e].artifact,
           exec'[e].step \in Executing \cup {"resolved", "clear"},
           exec'[e].step \in {"resolved", "clear"} =>
             exec'[e].key = apply[e].request /\ exec'[e].content = apply[e].artifact,
           exec'[e].step \in Executing =>
             runs'[exec'[e].run].key = apply[e].request
    PROVE  ApplyKnows(e)'
<1>1. ApplyKnows(e) /\ apply[e].artifact \in Contents
  BY ProposedIsContent DEF ChangeInv
<1>2. /\ apply[e].request \in Requests /\ request'[apply[e].request].approved
      /\ apply[e].app \in AppIds' /\ apps'[apply[e].app].request = apply[e].request
  BY <1>1 DEF ApplyKnows, LedgerGrows, At
<1>3. patches' = 0 => ApprovedContent(apply[e].artifact)'
  BY <1>1 DEF ApplyKnows, LedgerGrows, At, ApprovedContent
<1>4. QED
  BY <1>2, <1>3 DEF ApplyKnows, At, Executing, ApprovedContent

\* An execution that has read or written a row knows whose it is.
LEMMA ExecutionIsMine ==
    ASSUME ChangeTypeOK, TypeInv, ChangeInv, NEW e \in Operators, At(e, "executing")
    PROVE  /\ exec[e].step \in {"resolved", "clear"} =>
                exec[e].key = apply[e].request /\ exec[e].content = apply[e].artifact
           /\ exec[e].step \in Executing =>
                exec[e].run \in RunIds /\ runs[exec[e].run].key = apply[e].request
           /\ exec[e].step \in Executing => exec[e].run \in RunsOf(apply[e].request)
<1>1. ApplyKnows(e)
  BY DEF ChangeInv
<1>2. exec[e].step \in Executing => exec[e].run \in RunIds
  BY DEF TypeInv, ContentTypeOK, Executing
<1>3. QED
  BY <1>1, <1>2 DEF ApplyKnows, RunsOf

LEMMA KnowsUpdate ==
    ASSUME ChangeTypeOK, TypeInv, ChangeInv, RunsGrow, LedgerGrows, NEW e \in Operators,
           Update(e)
    PROVE  ApplyKnows(e)'
<1>0. exec[e] \in Call /\ exec \in [Operators -> Call]
  BY DEF TypeInv, ContentTypeOK
<1>1. At(e, "executing") /\ apply' = apply
  BY DEF Update
<1>2. CASE Begin(e)
  <2>1. /\ exec'[e].step = "running" /\ exec'[e].run = Len(runs')
        /\ runs'[Len(runs')].key = apply[e].request
    BY <1>1, <1>2, BegunRow, ExecutionIsMine DEF Begin
  <2>2. QED
    BY <1>1, <2>1, KnowsExecuting DEF At, Executing
<1>3. CASE Observe(e)
  <2>1. exec'[e].step = "clear" /\ exec'[e].key = apply[e].request
        /\ exec'[e].content = apply[e].artifact
    BY <1>0, <1>1, <1>3, ExecutionIsMine DEF Observe, Goes, Call
  <2>2. QED
    BY <1>1, <2>1, KnowsExecuting DEF At, Executing
<1>4. CASE Send(e) \/ Answered(e) \/ Unclear(e) \/ ReadBack(e) \/ ReadBackFails(e)
  <2>1. /\ exec[e].step \in Executing /\ exec'[e].step \in Executing
        /\ exec'[e].run = exec[e].run
    BY <1>0, <1>4
    DEF Send, Answered, Unclear, ReadBack, ReadBackFails, Goes, Executing, Call
  <2>2. runs'[exec'[e].run].key = apply[e].request
    BY <1>1, <2>1, ExecutionIsMine DEF RunsGrow
  <2>3. QED
    BY <1>1, <2>1, <2>2, KnowsExecuting DEF At, Executing
<1>5. QED
  BY <1>2, <1>3, <1>4 DEF Update

\* Which runs are known to have landed when one application is under way.
LEMMA RunsThatLanded ==
    ASSUME OneAtATime, ContentInv, edits = 0
    PROVE  /\ \A e \in Operators : exec[e].step = "confirmed" => exec[e].run \in landed
           /\ \A e \in Operators :
                exec[e].step = "judged" /\ exec[e].verdict = "reconciled_succeeded" =>
                  exec[e].run \in landed
           /\ \A i \in RunIds :
                runs[i].status = "succeeded" \/ runs[i].verdict = "reconciled_succeeded" =>
                  i \in landed
BY DEF ContentInv, CallKnows, PostsAreOpen, ReconciledLanded, Succeeded, Resolved, Untouched

LEMMA KnowsApplied ==
    ASSUME ChangeTypeOK, ContentInv, ChangeInv, RunsGrow, LedgerGrows, NEW e \in Operators,
           Applies(e)
    PROVE  ApplyKnows(e)'
<1> DEFINE r == apply[e].request
<1>0. /\ TypeInv /\ ApplyKnows(e) /\ apply[e] \in Apply
      /\ exec[e] \in Call /\ exec \in [Operators -> Call]
      /\ ~At(e, "idle") => r \in Requests /\ Mine(e).proposed \in Contents
  BY ProposedIsContent
  DEF ContentInv, TypeInv, ContentTypeOK, ChangeInv
<1> DEFINE Here == /\ apply'[e].request = apply[e].request /\ apply'[e].app = apply[e].app
<1>1. ASSUME ~At(e, "idle"), NEW step \in ApplySteps, Goto(e, step)
      PROVE  Here /\ apply'[e].step = step /\ apply'[e].artifact = apply[e].artifact
  BY <1>0, <1>1, GotoIsAfter, AfterTyped DEF Apply
<1>2. ASSUME ~At(e, "idle"), NEW outcome \in Outcomes, NEW run \in Nat,
             Finish(e, outcome, run)
      PROVE  /\ Here /\ apply'[e].step = "done"
             /\ apply'[e].outcome = outcome /\ apply'[e].run = run
  <2>1. "done" \in ApplySteps
    BY DEF ApplySteps
  <2>2. QED
    BY <1>0, <1>2, <2>1, FinishIsAfter, AfterTyped DEF Apply
<1>3. ASSUME ~At(e, "idle"), NEW run \in Nat, Unknown(e, run)
      PROVE  Here /\ apply'[e].step = "unknown" /\ apply'[e].run = run
  <2>1. "unknown" \in ApplySteps
    BY DEF ApplySteps
  <2>2. QED
    BY <1>0, <1>3, <2>1, UnknownIsAfter, AfterTyped DEF Apply
<1>4. apply[e].step \notin {"idle", "frozen"} =>
        apply[e].app \in AppIds' /\ apps'[apply[e].app].request = r
  BY <1>0 DEF ApplyKnows, LedgerGrows
<1>5. \A i \in RunIds : i \in Nat
  BY DEF RunIds
<1>6. RunsOf(r) \subseteq RunIds /\ \A i \in RunsOf(r) : i \in RunIds' /\ runs'[i].key = r
  BY DEF RunsOf, RunsGrow
\* An application that ends.
<1>7. ASSUME apply[e].step \notin {"idle", "frozen"}, exec'[e].step = "idle",
             NEW outcome \in Outcomes, NEW run \in Nat, Finish(e, outcome, run),
             outcome \in {"succeeded", "reconciled"} =>
               /\ run \in RunsOf(r)
               /\ OneAtATime /\ edits' = 0 => run \in landed'
      PROVE  ApplyKnows(e)'
  <2>1. /\ Here /\ apply'[e].step = "done"
        /\ apply'[e].outcome = outcome /\ apply'[e].run = run
    BY <1>2, <1>7 DEF At
  <2>2. outcome \in {"succeeded", "reconciled"} => run \in RunsOf(r)'
    BY <1>6, <1>7, <2>1 DEF RunsOf
  <2>3. QED
    BY <1>0, <1>4, <1>7, <2>1, <2>2, KnowsLocally DEF At
\* One that has to reconcile.
<1>8. ASSUME apply[e].step \notin {"idle", "frozen"}, exec'[e].step = "idle",
             NEW run \in RunsOf(r), Unknown(e, run)
      PROVE  ApplyKnows(e)'
  <2>1. Here /\ apply'[e].step = "unknown" /\ apply'[e].run = run
    BY <1>3, <1>5, <1>6, <1>8 DEF At
  <2>2. run \in RunsOf(r)'
    BY <1>6, <2>1 DEF RunsOf
  <2>3. QED
    BY <1>0, <1>4, <1>8, <2>1, <2>2, KnowsLocally DEF At
<1>9. CASE \E q \in Requests : Freeze(e, q)
  <2>1. PICK q \in Requests : Freeze(e, q)
    BY <1>9
  <2>2. request[q].approved /\ exec'[e].step = "idle"
    BY <1>0, <2>1 DEF Freeze, Free, contentVars, ChangeInv, ApprovalsExist
  <2>3. apply'[e].step = "frozen" /\ apply'[e].request = q
    BY <2>1 DEF Freeze, NoApply, ChangeTypeOK
  <2>4. QED
    BY <2>1, <2>2, <2>3 DEF ApplyKnows, At, LedgerGrows, Executing
<1>10. CASE AppendApplication(e)
  <2>1. At(e, "frozen") /\ ~At(e, "idle") /\ exec'[e].step = "idle"
    BY <1>0, <1>10 DEF AppendApplication, At, ApplyKnows, contentVars
  <2>2. Len(apps) + 1 \in Nat /\ Len(apps') = Len(apps) + 1
        /\ Len(apps') \in AppIds' /\ apps'[Len(apps')].request = r
    BY <1>10, AppsTyped
  <2>3. apply'[e].step = "appended" /\ apply'[e].app = Len(apps') /\ apply'[e].request = r
    <3>1. "appended" \in ApplySteps
      BY DEF ApplySteps
    <3>2. QED
      BY <1>0, <1>10, <2>1, <2>2, <3>1, AppendIsAfter, AfterTyped DEF Apply
  <2>4. QED
    BY <1>0, <2>1, <2>2, <2>3, KnowsLocally
<1>11. CASE Revise(e)
  <2>1. At(e, "appended") /\ ~At(e, "idle") /\ exec'[e].step = "idle"
    BY <1>0, <1>11 DEF Revise, At, ApplyKnows, PatchBody
  <2>2. apply'[e].step = "revised" /\ Here /\ revisions' # {}
    BY <1>1, <1>11, <2>1 DEF Revise, ApplySteps
  <2>3. QED
    BY <1>0, <1>4, <2>1, <2>2, KnowsLocally DEF At
<1>12. CASE ReviseAlready(e)
  <2>1. At(e, "appended") /\ ~At(e, "idle") /\ exec'[e].step = "idle"
    BY <1>0, <1>12 DEF ReviseAlready, At, ApplyKnows, contentVars
  <2>2. apply'[e].step = "revised" /\ Here /\ revisions' # {}
    BY <1>1, <1>12, <2>1
    DEF ReviseAlready, ApplySteps, KeyUsed, KnownContent, LedgerGrows
  <2>3. QED
    BY <1>0, <1>4, <2>1, <2>2, KnowsLocally DEF At
<1>13. CASE Persist(e)
  <2>1. At(e, "revised") /\ ~At(e, "idle") /\ exec'[e].step = "idle"
    BY <1>0, <1>13 DEF Persist, At, ApplyKnows, contentVars
  <2>2. apply'[e].step = "persisted" /\ Here /\ apply'[e].artifact = body
    <3>1. "persisted" \in ApplySteps /\ body \in Contents
      BY <1>0 DEF ApplySteps, TypeInv, ContentTypeOK
    <3>2. QED
      BY <1>0, <1>13, <2>1, <3>1, PersistIsAfter, AfterTyped DEF Apply
  <2>3. request' = request /\ patches' = patches
    BY <1>13 DEF Persist, ledger
  <2>4. patches' = 0 => ApprovedContent(body)
    BY <1>0, <2>1, <2>3 DEF ChangeInv, BodyIsApproved, ApplyKnows
  <2>5. patches' = 0 => ApprovedContent(apply[e].artifact)'
    BY <2>2, <2>3, <2>4 DEF ApprovedContent, Requests
  <2>6. QED
    BY <1>0, <1>4, <2>1, <2>2, <2>5, KnowsLocally DEF At
<1>14. CASE ApprovePrepared(e)
  <2>1. At(e, "persisted") /\ ~At(e, "idle") /\ exec'[e].step = "idle"
    BY <1>0, <1>14 DEF ApprovePrepared, At, ApplyKnows, ApproveArtifact
  <2>2. apply'[e].step = "executable" /\ Here /\ apply'[e].artifact = apply[e].artifact
    BY <1>1, <1>14, <2>1 DEF ApprovePrepared, ApplySteps
  <2>3. patches' = 0 => ApprovedContent(apply[e].artifact)'
    BY <1>0, <1>14, <2>1, <2>2
    DEF ApprovePrepared, ledger, ApplyKnows, ApprovedContent, Requests, At
  <2>4. QED
    BY <1>0, <1>4, <2>1, <2>2, <2>3, KnowsLocally DEF At
<1>15. CASE Execute(e)
  <2>1. At(e, "executable") /\ ~At(e, "idle")
    BY <1>15 DEF Execute, At
  <2>2. apply'[e].step = "executing" /\ Here /\ apply'[e].artifact = apply[e].artifact
    BY <1>1, <1>15, <2>1 DEF Execute, ApplySteps
  <2>3. /\ exec'[e].step = "resolved" /\ exec'[e].key = r
        /\ exec'[e].content = apply[e].artifact
    BY <1>0, <1>15 DEF Execute, Resolve, Idle
  <2>4. QED
    BY <1>0, <2>1, <2>2, <2>3, KnowsExecuting DEF Executing
<1>16. CASE Fail(e)
  BY <1>0, <1>7, <1>16 DEF Fail, At, contentVars, Outcomes, Apply
<1>17. CASE Update(e)
  BY <1>0, <1>17, KnowsUpdate
<1>18. CASE Declined(e)
  <2>1. exec'[e].step = "idle"
    BY <1>0, <1>18 DEF Declined, Decline, Returns, Idle
  <2>2. QED
    BY <1>7, <1>18, <2>1 DEF Declined, At, Outcomes
<1>19. CASE Again(e)
  <2>1. exec'[e].step = "idle" /\ apply[e].step \notin {"idle", "frozen"}
        /\ UNCHANGED <<runs, landed, edits>>
    BY <1>0, <1>19 DEF Again, At, BeginRefused, Returns, Idle, remote
  <2>2. ASSUME NEW i \in RunIds, runs[i].key = r, runs[i].status = "succeeded",
               Finish(e, "succeeded", i)
        PROVE  ApplyKnows(e)'
    <3>1. i \in RunsOf(r) /\ (OneAtATime /\ edits' = 0 => i \in landed')
      BY <2>1, <2>2, RunsThatLanded DEF RunsOf
    <3>2. QED
      BY <1>5, <1>7, <2>1, <2>2, <3>1 DEF Outcomes
  <2>3. ASSUME NEW i \in RunIds, runs[i].key = r, Unknown(e, i) PROVE ApplyKnows(e)'
    BY <1>8, <2>1, <2>3 DEF RunsOf
  <2>4. ASSUME NEW i \in Nat, Finish(e, "failed", i) PROVE ApplyKnows(e)'
    BY <1>7, <2>1, <2>4 DEF Outcomes
  <2>5. CASE \E i \in RunIds :
               /\ runs[i].key = r
               /\ CASE runs[i].status = "succeeded" -> Finish(e, "succeeded", i)
                    [] runs[i].status = "outcome_unknown" -> Unknown(e, i)
                    [] OTHER -> Finish(e, "failed", i)
    BY <1>5, <2>2, <2>3, <2>4, <2>5
  <2>6. CASE Finish(e, "failed", 0)
    BY <2>4, <2>6
  <2>7. QED
    BY <1>19, <2>5, <2>6 DEF Again, Unknown
<1>20. CASE UpdateSucceeded(e)
  <2>1. /\ At(e, "executing") /\ exec[e].step = "confirmed" /\ exec'[e].step = "idle"
        /\ UNCHANGED <<landed, edits>>
    BY <1>0, <1>20 DEF UpdateSucceeded, MarkSucceeded, Returns, Idle, remote
  <2>2. exec[e].run \in RunsOf(r)
    BY <1>0, <2>1, ExecutionIsMine DEF Executing
  <2>3. OneAtATime /\ edits' = 0 => exec[e].run \in landed'
    BY <2>1, RunsThatLanded
  <2>4. QED
    BY <1>5, <1>6, <1>7, <1>20, <2>1, <2>2, <2>3 DEF UpdateSucceeded, At, Outcomes
<1>21. CASE UpdateUnknown(e)
  <2>1. At(e, "executing") /\ exec[e].step = "unclear" /\ exec'[e].step = "idle"
    BY <1>0, <1>21 DEF UpdateUnknown, MarkUnknown, Returns, Idle
  <2>2. exec[e].run \in RunsOf(r)
    BY <1>0, <2>1, ExecutionIsMine DEF Executing
  <2>3. QED
    BY <1>8, <1>21, <2>1, <2>2 DEF UpdateUnknown, Unknown, At
<1>22. CASE Compare(e)
  <2>1. /\ At(e, "unknown") /\ apply' = apply /\ exec'[e].step = "judged"
        /\ exec'[e].run = apply[e].run
    BY <1>0, <1>22 DEF Compare, Judge, Idle
  <2>2. apply[e].run \in RunsOf(r) /\ apply[e].run \in RunsOf(r)'
    BY <1>0, <1>6, <2>1 DEF ApplyKnows, RunsOf
  <2>3. /\ r \in Requests /\ request'[r].approved
        /\ apply[e].app \in AppIds' /\ apps'[apply[e].app].request = r
    BY <1>0, <1>4, <2>1 DEF At, ApplyKnows, LedgerGrows
  <2>4. QED
    BY <2>1, <2>2, <2>3 DEF ApplyKnows, At, Executing
<1>23. CASE Compared(e)
  <2>1. /\ At(e, "unknown") /\ exec[e].step = "judged" /\ exec'[e].step = "idle"
        /\ UNCHANGED <<landed, edits>>
    BY <1>0, <1>23 DEF Compared, Record, Returns, Idle, remote
  <2>2. apply[e].run \in RunsOf(r) /\ exec[e].run = apply[e].run
    BY <1>0, <2>1 DEF ApplyKnows
  <2>3. exec[e].verdict = "reconciled_succeeded" /\ OneAtATime /\ edits' = 0 =>
          apply[e].run \in landed'
    BY <2>1, <2>2, RunsThatLanded
  <2>4. QED
    BY <1>5, <1>6, <1>7, <1>23, <2>1, <2>2, <2>3 DEF Compared, Settle, At, Outcomes
<1>24. CASE AlreadyCompared(e)
  <2>1. /\ At(e, "unknown") /\ exec'[e].step = "idle" /\ UNCHANGED <<landed, edits>>
    BY <1>0, <1>24 DEF AlreadyCompared, contentVars, remote
  <2>2. apply[e].run \in RunsOf(r) /\ apply[e].run \in RunIds
    BY <1>0, <1>6, <2>1 DEF ApplyKnows
  <2>3. runs[apply[e].run].verdict = "reconciled_succeeded" /\ OneAtATime /\ edits' = 0 =>
          apply[e].run \in landed'
    BY <2>1, <2>2, RunsThatLanded
  <2>4. QED
    BY <1>5, <1>7, <1>24, <2>1, <2>2, <2>3 DEF AlreadyCompared, Settle, At, Outcomes
<1>25. CASE Raises(e)
  <2>1. exec'[e].step = "idle" /\ apply[e].step \notin {"idle", "frozen"}
    BY <1>0, <1>25 DEF Raises, Abandon, Returns, Idle
  <2>2. QED
    BY <1>0, <1>7, <1>25, <2>1 DEF Raises, Outcomes, Apply
<1>26. CASE Finalize(e) \/ Crash(e)
  <2>1. apply'[e].step = "idle"
    BY <1>26 DEF Finalize, Crash, NoApply, ChangeTypeOK
  <2>2. exec'[e].step = "idle" \/ exec'[e].step = "judged"
    <3>1. CASE Finalize(e)
      BY <1>0, <3>1 DEF Finalize, ApplyKnows, At, contentVars
    <3>2. CASE Crash(e)
      BY <1>0, <3>2 DEF Crash, Abandon, Returns, Idle, contentVars
    <3>3. QED
      BY <1>26, <3>1, <3>2
  <2>3. QED
    BY <2>1, <2>2 DEF ApplyKnows, At, Executing
<1>27. QED
  BY <1>9, <1>10, <1>11, <1>12, <1>13, <1>14, <1>15, <1>16, <1>17, <1>18, <1>19, <1>20,
     <1>21, <1>22, <1>23, <1>24, <1>25, <1>26 DEF Applies

\* Somebody who only reconciles.
LEMMA KnowsReconciling ==
    ASSUME ChangeTypeOK, TypeInv, ChangeInv, RunsGrow, LedgerGrows, NEW e \in Operators,
           Reconciles(e)
    PROVE  ApplyKnows(e)'
<1>1. exec \in [Operators -> Call] /\ apply' = apply /\ At(e, "idle")
  BY DEF TypeInv, ContentTypeOK, Reconciles
<1>2. exec'[e].step \in {"idle", "judged"}
  <2>1. ASSUME NEW i \in RunIds, NEW v \in Verdicts, Judge(e, i, v)
        PROVE  exec'[e].step = "judged"
    BY <1>1, <2>1 DEF Judge, Idle
  <2>2. ASSUME Record(e) \/ Abandon(e) PROVE exec'[e].step = "idle"
    BY <1>1, <2>2 DEF Record, Abandon, Returns, Idle
  <2>3. QED
    BY <2>1, <2>2 DEF Reconciles
<1>3. QED
  BY <1>1, <1>2 DEF ApplyKnows, At, Executing

\* A step of one operator leaves the calls of the others alone.
LEMMA OthersUntouched ==
    ASSUME ChangeTypeOK, TypeInv, ChangeInv, NEW e \in Operators,
           Applies(e) \/ Reconciles(e), NEW f \in Operators \ {e}
    PROVE  apply'[f] = apply[f] /\ exec'[f] = exec[f]
<1>1. exec \in [Operators -> Call]
  BY DEF TypeInv, ContentTypeOK
<1>2. CASE Reconciles(e)
  BY <1>1, <1>2 DEF Reconciles, Judge, Record, Abandon, Returns
<1>3. CASE Applies(e)
  <2>1. apply'[f] = apply[f]
    BY <1>3, ApplyKept
  <2>2. \/ exec' = exec
        \/ Update(e) \/ Raises(e) \/ Crash(e)
        \/ \E c \in Contents, k \in Keys : Resolve(e, c, k)
        \/ \E i \in RunIds, v \in Verdicts : Judge(e, i, v)
        \/ Decline(e) \/ BeginRefused(e) \/ MarkSucceeded(e) \/ MarkUnknown(e) \/ Record(e)
    <3>1. /\ apply[e].artifact \in Contents
          /\ ~At(e, "idle") => apply[e].request \in Keys
          /\ At(e, "unknown") => apply[e].run \in RunIds
      BY ProposedIsContent DEF Requests, ChangeInv, ApplyKnows, RunsOf
    <3>2. Execute(e) => \E c \in Contents, k \in Keys : Resolve(e, c, k)
      BY <3>1 DEF Execute, At
    <3>3. Compare(e) => \E i \in RunIds, v \in Verdicts : Judge(e, i, v)
      BY <3>1 DEF Compare
    <3>4. QED
      BY <1>3, <3>2, <3>3
      DEF Applies, Freeze, AppendApplication, Revise, ReviseAlready, Persist,
          ApprovePrepared, Fail, Declined, Again, UpdateSucceeded, UpdateUnknown, Compared,
          AlreadyCompared, Finalize, PatchBody, ApproveArtifact, contentVars
  <2>3. exec'[f] = exec[f]
    BY <1>1, <2>2
    DEF Update, Raises, Crash, Abandon, Returns, Goes, Resolve, Judge, Decline,
        BeginRefused, MarkSucceeded, MarkUnknown, Record, Observe, Begin, Send, Answered,
        Unclear, ReadBack, ReadBackFails, contentVars
  <2>4. QED
    BY <2>1, <2>3
<1>4. QED
  BY <1>2, <1>3

LEMMA KnowsKept ==
    ASSUME ChangeTypeOK, ContentInv, ChangeInv, RunsGrow, LedgerGrows,
           [ChangeNext]_changeVars, NEW f \in Operators
    PROVE  ApplyKnows(f)'
<1>1. TypeInv
  BY DEF ContentInv, TypeInv
<1>2. ASSUME NEW e \in Operators, Applies(e) \/ Reconciles(e) PROVE ApplyKnows(f)'
  BY <1>1, <1>2, OthersUntouched, KnowsElsewhere, KnowsApplied, KnowsReconciling
<1>3. CASE UNCHANGED <<apply, exec>>
  BY <1>1, <1>3, KnowsElsewhere
<1>4. (\E e \in Operators : Applies(e) \/ Reconciles(e)) \/ UNCHANGED <<apply, exec>>
  BY DEF ChangeNext, changeVars, contentVars, People, Propose, Approve, Reject, Reopen,
         Patch, PatchBody, Outside, EditLive, Land, Lose
<1>5. QED
  BY <1>2, <1>3, <1>4

-----------------------------------------------------------------------------
(* The rows of the update and the requests.                                *)

\* The four parts of the invariant that only a new run can disturb.
LEMMA RunsKept ==
    ASSUME ChangeTypeOK, TypeInv, ChangeInv, RunsGrow, LedgerGrows, [ContentNext]_contentVars
    PROVE  /\ RunsAreKeyed' /\ PublishedContentWasApproved'
           /\ AttemptIsRecordedFirst' /\ PostedAtMostOnce'
<1>0. \A c : ApprovedContent(c) =>
        \E r \in Requests : request'[r].approved /\ request'[r].proposed = c
  BY DEF ApprovedContent, LedgerGrows
<1>1. \A i \in RunIds : /\ runs[i].key \in Requests
                        /\ patches = 0 => ApprovedContent(runs[i].content)
                        /\ AppsOf(runs[i].key) # {}
  BY DEF ChangeInv, RunsAreKeyed, PublishedContentWasApproved, ApprovedContent,
         AttemptIsRecordedFirst, RunsOf
<1>2. \A r \in Requests : AppsOf(r) # {} => AppsOf(r)' # {}
  BY DEF AppsOf, LedgerGrows
<1>3. CASE RunIds' = RunIds
  <2>1. \A r \in Requests : RunsOf(r)' = RunsOf(r)
    BY <1>3 DEF RunsOf, RunsGrow
  <2>2. RunsAreKeyed' /\ PublishedContentWasApproved'
    BY <1>0, <1>1, <1>3 DEF RunsAreKeyed, PublishedContentWasApproved, RunsGrow,
                            LedgerGrows, Requests
  <2>3. AttemptIsRecordedFirst' /\ PostedAtMostOnce'
    BY <1>2, <2>1 DEF ChangeInv, AttemptIsRecordedFirst, PostedAtMostOnce, Requests
  <2>4. QED
    BY <2>2, <2>3
<1>4. ASSUME NEW e \in Operators, Begin(e)
      PROVE  /\ RunsAreKeyed' /\ PublishedContentWasApproved'
             /\ AttemptIsRecordedFirst' /\ PostedAtMostOnce'
  <2> DEFINE n == Len(runs')
             r == apply[e].request
  <2>1. At(e, "executing") /\ exec[e].step = "clear"
    BY <1>4 DEF Begin, ChangeInv, ApplyKnows, Executing, At
  <2>2. /\ exec[e].key = r /\ exec[e].content = apply[e].artifact
        /\ r \in Requests /\ AppsOf(r) # {}
        /\ patches = 0 => ApprovedContent(apply[e].artifact)
    BY <2>1 DEF ChangeInv, ApplyKnows, At, AppsOf
  <2>3. /\ RunIds' = RunIds \cup {n} /\ n \notin RunIds
        /\ runs'[n].key = r /\ runs'[n].content = apply[e].artifact
        /\ \A i \in RunIds : runs'[i] = runs[i]
    BY <1>4, <2>2, BegunRow
  <2>4. \A i \in RunIds : runs[i].key # r
    BY <1>4, <2>2 DEF Begin, KeyTaken, Requests
  <2> HIDE DEF n, r
  <2>5. RunsAreKeyed'
    BY <1>1, <2>2, <2>3 DEF RunsAreKeyed, Requests
  <2>6. PublishedContentWasApproved'
    BY <1>0, <1>1, <2>2, <2>3 DEF PublishedContentWasApproved, LedgerGrows, Requests
  <2>7. AttemptIsRecordedFirst'
    BY <1>1, <1>2, <2>2, <2>3 DEF AttemptIsRecordedFirst, RunsOf, Requests
  <2>8. PostedAtMostOnce'
    <3>1. \A q \in Requests : \A i, j \in RunIds :
            runs[i].key = q /\ runs[j].key = q => i = j
      BY DEF ChangeInv, PostedAtMostOnce, RunsOf
    <3>2. QED
      BY <2>3, <2>4, <3>1 DEF PostedAtMostOnce, RunsOf, Requests
  <2>9. QED
    BY <2>5, <2>6, <2>7, <2>8
<1>5. ASSUME NEW e \in Operators, Closes(e) PROVE RunIds' = RunIds
  BY <1>5, ClosedRow, ChangedRow
<1>6. QED
  BY <1>3, <1>4, <1>5, RowsChangeTwice DEF RunIds

\* What can become of a request.
LEMMA RequestChanges ==
    ASSUME ChangeTypeOK, [ChangeNext]_changeVars
    PROVE  \/ request' = request
           \/ \E r \in Requests, c \in Contents : Propose(r, c)
           \/ \E r \in Requests : Approve(r) \/ Reject(r) \/ Reopen(r)
           \/ \E e \in Operators : Finalize(e)
BY DEF ChangeNext, changeVars, ledger, People, Applies, Reconciles, Patch, Freeze,
       AppendApplication, Revise, ReviseAlready, Persist, ApprovePrepared, Execute, Fail,
       Update, Declined, Again, UpdateSucceeded, UpdateUnknown, Compare, Compared,
       AlreadyCompared, Raises, Crash

LEMMA ApprovalsKept ==
    ASSUME ChangeTypeOK, ChangeInv, [ChangeNext]_changeVars
    PROVE  ApprovalsExist'
<1>0. request \in [Requests -> Request] /\ ApprovalsExist
  BY DEF ChangeTypeOK, ChangeInv
<1>1. CASE request' = request
  BY <1>0, <1>1 DEF ApprovalsExist, Requests
<1>2. ASSUME NEW r \in Requests, NEW c \in Contents, Propose(r, c) PROVE ApprovalsExist'
  BY <1>0, <1>2 DEF Propose, ApprovalsExist, Requests
<1>3. ASSUME NEW r \in Requests, Approve(r) PROVE ApprovalsExist'
  <2>1. request' = [request EXCEPT ![r] = [request[r] EXCEPT !.status = "approved",
                                                             !.approved = TRUE]]
    BY <1>0, <1>3 DEF Approve, Request
  <2>2. request'[r].status = "approved" /\ request'[r].approved
        /\ \A q \in Requests \ {r} : request'[q] = request[q]
    BY <1>0, <2>1 DEF Request
  <2>3. QED
    BY <1>0, <2>2 DEF ApprovalsExist, Requests
<1>4. ASSUME NEW r \in Requests, NEW status \in Statuses \ {"none"}, SetStatus(r, status),
             status # "rejected" => request[r].approved
      PROVE  ApprovalsExist'
  <2>1. /\ request'[r].status = status /\ request'[r].approved = request[r].approved
        /\ \A q \in Requests \ {r} : request'[q] = request[q]
    BY <1>0, <1>4 DEF SetStatus, Request
  <2>2. QED
    BY <1>0, <1>4, <2>1 DEF ApprovalsExist, Requests
<1>5. ASSUME NEW r \in Requests, Reject(r) \/ Reopen(r) PROVE ApprovalsExist'
  BY <1>0, <1>4, <1>5 DEF Reject, Reopen, Statuses, ApprovalsExist
<1>6. ASSUME NEW e \in Operators, Finalize(e) PROVE ApprovalsExist'
  <2>1. apply[e].request \in Requests /\ request[apply[e].request].approved
    BY <1>6 DEF Finalize, At, ChangeInv, ApplyKnows
  <2>2. StatusOf(apply[e].outcome) \in Statuses \ {"none", "rejected"}
    BY StatusType DEF Statuses
  <2>3. QED
    BY <1>4, <1>6, <2>1, <2>2 DEF Finalize
<1>7. QED
  BY <1>1, <1>2, <1>3, <1>5, <1>6, RequestChanges

LEMMA BodyKept ==
    ASSUME ChangeTypeOK, ChangeInv, LedgerGrows, [ChangeNext]_changeVars
    PROVE  BodyIsApproved'
<1>0. \A c : ApprovedContent(c) =>
        \E r \in Requests : request'[r].approved /\ request'[r].proposed = c
  BY DEF ApprovedContent, LedgerGrows
<1>1. CASE body' = body /\ revisions' = revisions
  BY <1>0, <1>1 DEF ChangeInv, BodyIsApproved, ApprovedContent, LedgerGrows, Requests
<1>2. ASSUME NEW e \in Operators, Revise(e) PROVE BodyIsApproved'
  <2>1. /\ body' = Mine(e).proposed /\ request' = request
        /\ apply[e].request \in Requests /\ Mine(e).approved
    BY <1>2 DEF Revise, PatchBody, At, ChangeInv, ApplyKnows, Mine
  <2>2. QED
    BY <2>1 DEF BodyIsApproved, ApprovedContent, Mine, Requests
<1>3. ASSUME NEW c \in Contents, Patch(c) PROVE BodyIsApproved'
  BY <1>3 DEF Patch, BodyIsApproved, ChangeTypeOK
<1>4. \/ body' = body /\ revisions' = revisions
      \/ \E e \in Operators : Revise(e)
      \/ \E c \in Contents : Patch(c)
  <2>1. ASSUME NEW e \in Operators, Applies(e), ~Revise(e)
        PROVE  body' = body /\ revisions' = revisions
    <3>1. revisions' = revisions
      BY <2>1
      DEF ledger, Applies, Freeze, AppendApplication, ReviseAlready, Persist,
          ApprovePrepared, Execute, Fail, Update, Declined, Again, UpdateSucceeded,
          UpdateUnknown, Compare, Compared, AlreadyCompared, Raises, Finalize, Crash
    <3>2. body' = body
      BY <2>1
      DEF Applies, Freeze, AppendApplication, ReviseAlready, Persist, ApprovePrepared,
          Execute, Fail, Update, Declined, Again, UpdateSucceeded, UpdateUnknown, Compare,
          Compared, AlreadyCompared, Raises, Finalize, Crash, contentVars,
          ApproveArtifact, Resolve, Decline, Observe, Begin, BeginRefused, Send, Answered,
          Unclear, ReadBack, ReadBackFails, MarkSucceeded, MarkUnknown, Judge, Record,
          Abandon
    <3>3. QED
      BY <3>1, <3>2
  <2>2. ASSUME NEW e \in Operators, Reconciles(e)
        PROVE  body' = body /\ revisions' = revisions
    BY <2>2 DEF Reconciles, Judge, Record, Abandon, ledger
  <2>3. ASSUME People, \A c \in Contents : ~Patch(c)
        PROVE  body' = body /\ revisions' = revisions
    BY <2>3 DEF People, Propose, Approve, Reject, Reopen, contentVars
  <2>4. ASSUME Outside, UNCHANGED ledger PROVE body' = body /\ revisions' = revisions
    BY <2>4 DEF Outside, EditLive, Land, Lose, ledger
  <2>5. QED
    BY <2>1, <2>2, <2>3, <2>4 DEF ChangeNext, changeVars, contentVars, ledger
<1>5. QED
  BY <1>1, <1>2, <1>3, <1>4

LEMMA AppliedKept ==
    ASSUME OneAtATime, ChangeTypeOK, ChangeInv, RunsGrow, [ChangeNext]_changeVars
    PROVE  AppliedMeansLanded'
<1>0. request \in [Requests -> Request] /\ AppliedMeansLanded
  BY DEF ChangeTypeOK, ChangeInv
<1>1. \A r \in Requests : RunsOf(r) \cap landed # {} => RunsOf(r)' \cap landed' # {}
  BY DEF RunsOf, RunsGrow
<1>2. ASSUME \A r \in Requests : request'[r].status \in {"applied", "reconciled"} =>
               \/ request[r].status \in {"applied", "reconciled"}
               \/ edits = 0 => RunsOf(r) \cap landed # {}
      PROVE  AppliedMeansLanded'
  <2>1. edits' = 0 => \A r \in Requests :
          request'[r].status \in {"applied", "reconciled"} => RunsOf(r) \cap landed # {}
    BY <1>0, <1>2 DEF AppliedMeansLanded, RunsGrow
  <2>2. QED
    BY <1>1, <2>1 DEF AppliedMeansLanded, Requests
<1>3. CASE request' = request
  BY <1>2, <1>3
<1>4. ASSUME NEW r \in Requests, NEW c \in Contents, Propose(r, c) PROVE AppliedMeansLanded'
  BY <1>0, <1>2, <1>4 DEF Propose
<1>5. ASSUME NEW r \in Requests, Approve(r) \/ Reject(r) \/ Reopen(r)
      PROVE  AppliedMeansLanded'
  <2>1. /\ request'[r].status \in {"approved", "rejected"}
        /\ \A q \in Requests \ {r} : request'[q] = request[q]
    BY <1>0, <1>5 DEF Approve, Reject, Reopen, SetStatus, Request
  <2>2. QED
    BY <1>2, <2>1
<1>6. ASSUME NEW e \in Operators, Finalize(e) PROVE AppliedMeansLanded'
  <2> DEFINE r == apply[e].request
  <2>1. /\ r \in Requests
        /\ apply[e].outcome \in {"succeeded", "reconciled"} =>
             apply[e].run \in RunsOf(r) /\ (edits = 0 => apply[e].run \in landed)
    BY <1>6 DEF Finalize, At, ChangeInv, ApplyKnows
  <2>2. request'[r].status \in {"applied", "reconciled"} =>
          apply[e].outcome \in {"succeeded", "reconciled"}
    BY <1>0, <1>6, <2>1 DEF Finalize, SetStatus, StatusOf, Request
  <2>3. \A q \in Requests \ {r} : request'[q] = request[q]
    BY <1>0, <1>6 DEF Finalize, SetStatus
  <2>4. QED
    BY <1>2, <2>1, <2>2, <2>3
<1>7. QED
  BY <1>3, <1>4, <1>5, <1>6, RequestChanges

-----------------------------------------------------------------------------
(* The theorems.                                                           *)

Everything == ChangeTypeOK /\ ContentInv /\ ChangeInv

LEMMA InitEverything == ChangeInit => Everything
<1> SUFFICES ASSUME ChangeInit PROVE Everything
  OBVIOUS
<1>1. ContentInit
  BY DEF ChangeInit
<1>2. ContentInv /\ ContentTypeOK
  BY <1>1, InitTyped, InitSerial DEF ContentInv, TypeInv, Serial
<1>3. First \in Contents /\ NoRequest \in Request /\ NoApply \in Apply
  BY DEF NoRequest, Request, Statuses, NoApply, Apply, ApplySteps, Outcomes
<1>4. ChangeTypeOK
  BY <1>2, <1>3 DEF ChangeInit, ChangeTypeOK, At, NoApply
<1>5. runs = << >> /\ \A e \in Operators : exec[e].step = "idle" /\ apply[e].step = "idle"
  BY <1>1 DEF ChangeInit, ContentInit, Idle, NoApply
<1>6. ChangeInv
  BY <1>5
  DEF ChangeInit, ChangeInv, ApprovalsExist, NoRequest, BodyIsApproved, RunsAreKeyed,
      RunIds, ApplyKnows, At, Executing, PublishedContentWasApproved,
      AttemptIsRecordedFirst, PostedAtMostOnce, AppliedMeansLanded, RunsOf
<1>7. QED
  BY <1>2, <1>4, <1>6 DEF Everything

LEMMA EverythingInductive == Everything /\ [ChangeNext]_changeVars => Everything'
<1> SUFFICES ASSUME ChangeTypeOK, ContentInv, ChangeInv, [ChangeNext]_changeVars
             PROVE  Everything'
  BY DEF Everything
<1>1. TypeInv /\ [ContentNext]_contentVars
  BY ChangeIsContent DEF ContentInv, TypeInv
<1>2. RunsGrow /\ LedgerGrows
  BY <1>1, RunsGrowing, LedgerGrowing
<1>3. ContentInv'
  BY <1>1, TypeInductive, SerialInductive DEF ContentInv, TypeInv, Serial
<1>4. ChangeTypeOK'
  BY <1>1, ChangeTypeKept
<1>5. ChangeInv'
  BY <1>1, <1>2, KnowsKept, RunsKept, ApprovalsKept, BodyKept, AppliedKept DEF ChangeInv
<1>6. QED
  BY <1>3, <1>4, <1>5 DEF Everything

THEOREM EverythingHolds == ChangeSpec => []Everything
BY InitEverything, EverythingInductive, PTL DEF ChangeSpec

\* Every variable of the requests, their applications and the update below
\* keeps its type (change_application_service.py: the state passed from one
\* session of _execute to the next).
THEOREM ChangeTypeCorrect == ChangeSpec => []ChangeTypeOK
<1>1. Everything => ChangeTypeOK
  BY DEF Everything
<1>2. QED
  BY <1>1, EverythingHolds, PTL

\* An application does to the managed update only what ContentUpdate allows:
\* every theorem about ContentSpec holds of a system with change requests.
THEOREM ApplicationImplementsUpdate == ChangeSpec => ContentSpec
<1>1. ChangeInit => ContentInit
  BY DEF ChangeInit
<1>2. Everything /\ [ChangeNext]_changeVars => [ContentNext]_contentVars
  BY ChangeIsContent DEF Everything
<1>3. QED
  BY <1>1, <1>2, EverythingHolds, PTL DEF ChangeSpec, ContentSpec

\* The strengthening holds of every state.
THEOREM ChangeInvariant == ChangeSpec => []ChangeInv
<1>1. Everything => ChangeInv
  BY DEF Everything
<1>2. QED
  BY <1>1, EverythingHolds, PTL

\* What goes to WordPress was approved word for word, unless the body was
\* PATCHed, whatever fails on the way and however many operators apply at
\* once (change_application_service.py, _execute: revision, artifact, update).
THEOREM OnlyApprovedContent == ChangeSpec => []PublishedContentWasApproved
<1>1. Everything => PublishedContentWasApproved
  BY DEF Everything, ChangeInv
<1>2. QED
  BY <1>1, EverythingHolds, PTL

\* Nothing is sent for a request without an application row of it
\* (_append_application, before the first write).
THEOREM AttemptsAreRecorded == ChangeSpec => []AttemptIsRecordedFirst
<1>1. Everything => AttemptIsRecordedFirst
  BY DEF Everything, ChangeInv
<1>2. QED
  BY <1>1, EverythingHolds, PTL

\* A request makes at most one run, whatever is reopened, retried or killed:
\* the idempotency key of the update is the request.
THEOREM NeverPostedTwice == ChangeSpec => []PostedAtMostOnce
<1>1. Everything => PostedAtMostOnce
  BY DEF Everything, ChangeInv
<1>2. QED
  BY <1>1, EverythingHolds, PTL

\* With one operator at work at a time and no editor outside, a request that
\* is recorded as applied or reconciled is on the site (_finalize).
THEOREM AppliedHasLanded ==
    ASSUME OneAtATime
    PROVE  ChangeSpec => []AppliedMeansLanded
<1>1. Everything => AppliedMeansLanded
  BY DEF Everything, ChangeInv
<1>2. QED
  BY <1>1, EverythingHolds, PTL
=============================================================================
