---------------------------- MODULE ContentUpdate ----------------------------
(***************************************************************************)
(* The managed update of the content of ONE published WordPress post:      *)
(* WordPressContentUpdatePreflightService (classify), ...ExecutionService  *)
(* (execute), ...ReconciliationService (reconcile) and the append-only     *)
(* table wordpress_content_update_runs.                                    *)
(*                                                                         *)
(* An artifact is identified with the article content it was prepared      *)
(* from; its request hash is that content.  WordPress's raw content is a   *)
(* different namespace: what a POST of content c leaves behind is Raw(c),  *)
(* and another editor of the site leaves contents with the same or another *)
(* text but always another raw form.                                       *)
(***************************************************************************)
EXTENDS Naturals, Sequences, FiniteSets

CONSTANTS
    Contents,     \* the contents an article can have
    First,        \* the content with which the post was published
    Operators,    \* the processes that run the execution or reconciliation
    Keys,         \* the idempotency keys a caller may give
    NoKey,        \* no idempotency key (NULL)
    NoRaw,        \* no raw content observed (NULL)
    OneAtATime,   \* TRUE: an operator starts only when no other is busy
    MaxRuns,      \* bound: rows of wordpress_content_update_runs
    MaxEdits      \* bound: edits made outside this system

ASSUME ContentAssumption ==
    /\ First \in Contents
    /\ NoKey \notin Keys
    /\ OneAtATime \in BOOLEAN
    /\ MaxRuns \in Nat
    /\ MaxEdits \in Nat

Raw(c) == [text |-> c, form |-> "posted"]
Raws == [text : Contents, form : {"posted", "edited"}]

ASSUME NoRawAssumption == NoRaw \notin Raws

VARIABLES
    body,      \* Article.body (with its meta description)
    approved,  \* contents whose artifact is persisted and approved
    live,      \* content.raw of the post, in WordPress
    edits,     \* edits made to the post outside this system so far
    runs,      \* rows of wordpress_content_update_runs, oldest first
    sent,      \* runs whose POST is on its way to WordPress
    landed,    \* runs whose POST has taken effect (history)
    exec       \* per operator: the local state of its call

remote == <<live, edits, sent, landed>>
contentVars == <<body, approved, live, edits, runs, sent, landed, exec>>

Steps == {"idle", "resolved", "clear", "running", "sent", "answered",
          "unclear", "confirmed", "judged"}
Verdicts == {"none", "reconciled_succeeded", "unresolved"}

Row == [content : Contents, expected : Raws, key : Keys \cup {NoKey},
        status : {"running", "succeeded", "outcome_unknown"},
        response : Raws \cup {NoRaw}, verdict : Verdicts]

Call == [step : Steps, content : Contents, key : Keys \cup {NoKey},
         expected : Raws, last : Contents, run : Nat,
         seen : Raws \cup {NoRaw}, verdict : Verdicts]

Idle == [step |-> "idle", content |-> First, key |-> NoKey,
         expected |-> Raw(First), last |-> First, run |-> 0,
         seen |-> NoRaw, verdict |-> "none"]

(***************************************************************************)
(* What the repository reads.                                              *)
(***************************************************************************)
RunIds == 1 .. Len(runs)

Succeeded == {i \in RunIds : runs[i].status = "succeeded"}

Resolved(i) == runs[i].verdict = "reconciled_succeeded"

\* find_blocking_run_for_post: running or outcome_unknown, without a
\* reconciled_succeeded record.
Blocking == {i \in RunIds : runs[i].status # "succeeded" /\ ~Resolved(i)}

Newest(S) == CHOOSE i \in S : \A j \in S : j <= i

\* The raw baseline the post is expected to have.
Baseline ==
    IF Succeeded = {} THEN Raw(First) ELSE runs[Newest(Succeeded)].response

\* The content last submitted with success.
LastSubmitted ==
    IF Succeeded = {} THEN First ELSE runs[Newest(Succeeded)].content

KeyTaken(k) == k # NoKey /\ \E i \in RunIds : runs[i].key = k

-----------------------------------------------------------------------------
ContentInit ==
    /\ body \in Contents
    /\ approved = {}
    /\ live = Raw(First)
    /\ edits = 0
    /\ runs = << >>
    /\ sent = {}
    /\ landed = {}
    /\ exec = [e \in Operators |-> Idle]

\* PATCH /articles/{id} replaces the body; nothing else looks at it.
PatchBody(c) ==
    /\ c # body
    /\ body' = c
    /\ UNCHANGED <<approved, remote, runs, exec>>

\* An artifact, prepared from what the body is or once was, is approved.
ApproveArtifact(c) ==
    /\ c \notin approved
    /\ approved' = approved \cup {c}
    /\ UNCHANGED <<body, remote, runs, exec>>

\* Another editor of the WordPress site saves the post.
EditLive(c) ==
    /\ edits < MaxEdits
    /\ edits' = edits + 1
    /\ live' = [text |-> c, form |-> "edited"]
    /\ UNCHANGED <<body, approved, runs, sent, landed, exec>>

Goes(e, step) == exec' = [exec EXCEPT ![e].step = step]

Returns(e) == exec' = [exec EXCEPT ![e] = Idle]

Free(e) ==
    /\ exec[e].step = "idle"
    /\ OneAtATime => \A f \in Operators : exec[f].step = "idle"

\* The local gates of classify: approved artifact of the current body, and no
\* blocking run; the baselines are read here.
Gates(c) == c \in approved /\ body = c /\ Blocking = {}

Resolve(e, c, k) ==
    /\ Free(e)
    /\ Gates(c)
    /\ exec' = [exec EXCEPT ![e] =
                  [Idle EXCEPT !.step = "resolved", !.content = c, !.key = k,
                               !.expected = Baseline, !.last = LastSubmitted]]
    /\ UNCHANGED <<body, approved, remote, runs>>

\* Mutant: no comparison with the raw baseline.
ClearIfNew(e) == exec[e].content # exec[e].last

\* The live GET agrees with the baseline and the content is a new one:
\* UPDATE_REQUIRED.
Clear(e) == live = exec[e].expected /\ exec[e].content # exec[e].last

Observe(e) ==
    /\ exec[e].step = "resolved"
    /\ Clear(e)
    /\ Goes(e, "clear")
    /\ UNCHANGED <<body, approved, remote, runs>>

\* A failed GET, WORDPRESS_CURRENT_CONTENT_DRIFT or CONTENT_NOOP: no run.
Decline(e) ==
    /\ exec[e].step = "resolved"
    /\ Returns(e)
    /\ UNCHANGED <<body, approved, remote, runs>>

\* Mutant: the key is not looked up.
BeginAnyKey(e) ==
    /\ exec[e].step = "clear"
    /\ Len(runs) < MaxRuns
    /\ runs' = Append(runs, [content |-> exec[e].content,
                             expected |-> exec[e].expected,
                             key |-> exec[e].key, status |-> "running",
                             response |-> NoRaw, verdict |-> "none"])
    /\ exec' = [exec EXCEPT ![e].step = "running", ![e].run = Len(runs) + 1]
    /\ UNCHANGED <<body, approved, remote>>

\* Transaction A: the running row, committed before the POST.
Begin(e) ==
    /\ exec[e].step = "clear"
    /\ ~KeyTaken(exec[e].key)
    /\ Len(runs) < MaxRuns
    /\ runs' = Append(runs, [content |-> exec[e].content,
                             expected |-> exec[e].expected,
                             key |-> exec[e].key, status |-> "running",
                             response |-> NoRaw, verdict |-> "none"])
    /\ exec' = [exec EXCEPT ![e].step = "running", ![e].run = Len(runs) + 1]
    /\ UNCHANGED <<body, approved, remote>>

\* The idempotency key belongs to an earlier run: its result is returned, or
\* the key is refused, and nothing is sent.
BeginRefused(e) ==
    /\ exec[e].step = "clear"
    /\ KeyTaken(exec[e].key) \/ Len(runs) = MaxRuns
    /\ Returns(e)
    /\ UNCHANGED <<body, approved, remote, runs>>

\* The one POST.
Send(e) ==
    /\ exec[e].step = "running"
    /\ sent' = sent \cup {exec[e].run}
    /\ Goes(e, "sent")
    /\ UNCHANGED <<body, approved, live, edits, landed, runs>>

\* WordPress applies the POST, possibly after the client has given up.
Land(i) ==
    /\ i \in sent
    /\ sent' = sent \ {i}
    /\ landed' = landed \cup {i}
    /\ live' = Raw(runs[i].content)
    /\ UNCHANGED <<body, approved, edits, runs, exec>>

\* The POST is lost or refused.
Lose(i) ==
    /\ i \in sent
    /\ sent' = sent \ {i}
    /\ UNCHANGED <<body, approved, live, edits, landed, runs, exec>>

\* Mutant: any end of the request counts as the answer.
AnsweredUnseen(e) ==
    /\ exec[e].step = "sent"
    /\ Goes(e, "answered")
    /\ UNCHANGED <<body, approved, remote, runs>>

\* A 2xx answer with the right post id.
Answered(e) ==
    /\ exec[e].step = "sent"
    /\ exec[e].run \in landed
    /\ Goes(e, "answered")
    /\ UNCHANGED <<body, approved, remote, runs>>

\* A timeout, a transport failure, any other answer, or another post's id.
Unclear(e) ==
    /\ exec[e].step = "sent"
    /\ Goes(e, "unclear")
    /\ UNCHANGED <<body, approved, remote, runs>>

\* The mandatory read-back.
ReadBack(e) ==
    /\ exec[e].step = "answered"
    /\ exec' = [exec EXCEPT ![e].step = "confirmed", ![e].seen = live]
    /\ UNCHANGED <<body, approved, remote, runs>>

ReadBackFails(e) ==
    /\ exec[e].step = "answered"
    /\ Goes(e, "unclear")
    /\ UNCHANGED <<body, approved, remote, runs>>

\* Mutant: the baseline is what was expected, not what was read back.
MarkSucceededAsExpected(e) ==
    /\ exec[e].step = "confirmed"
    /\ runs' = [runs EXCEPT ![exec[e].run].status = "succeeded",
                            ![exec[e].run].response = exec[e].expected]
    /\ Returns(e)
    /\ UNCHANGED <<body, approved, remote>>

\* Transaction B.
MarkSucceeded(e) ==
    /\ exec[e].step = "confirmed"
    /\ runs' = [runs EXCEPT ![exec[e].run].status = "succeeded",
                            ![exec[e].run].response = exec[e].seen]
    /\ Returns(e)
    /\ UNCHANGED <<body, approved, remote>>

MarkUnknown(e) ==
    /\ exec[e].step = "unclear"
    /\ runs' = [runs EXCEPT ![exec[e].run].status = "outcome_unknown"]
    /\ Returns(e)
    /\ UNCHANGED <<body, approved, remote>>

\* The process dies, or Transaction B does not commit: the row stays running.
Abandon(e) ==
    /\ exec[e].step # "idle"
    /\ Returns(e)
    /\ UNCHANGED <<body, approved, remote, runs>>

\* reconcile: one GET of a run whose outcome is unknown and has no verdict.
Open(i) == runs[i].status = "outcome_unknown" /\ runs[i].verdict = "none"

Equivalent(i) == live.text = runs[i].content

\* Mutant: the live content is not compared.
JudgeUnchecked(e, i, v) ==
    /\ Free(e)
    /\ Open(i)
    /\ exec' = [exec EXCEPT ![e] = [Idle EXCEPT !.step = "judged",
                                                !.run = i, !.verdict = v]]
    /\ UNCHANGED <<body, approved, remote, runs>>

Judge(e, i, v) ==
    /\ Free(e)
    /\ Open(i)
    /\ v = "reconciled_succeeded" => Equivalent(i)
    /\ exec' = [exec EXCEPT ![e] = [Idle EXCEPT !.step = "judged",
                                                !.run = i, !.verdict = v]]
    /\ UNCHANGED <<body, approved, remote, runs>>

\* The verdict is stored; the row of a run can have only one.
Record(e) ==
    /\ exec[e].step = "judged"
    /\ IF runs[exec[e].run].verdict = "none"
       THEN runs' = [runs EXCEPT ![exec[e].run].verdict = exec[e].verdict]
       ELSE runs' = runs
    /\ Returns(e)
    /\ UNCHANGED <<body, approved, remote>>

Executes(e) ==
    \/ Observe(e) \/ Decline(e) \/ Begin(e) \/ BeginRefused(e) \/ Send(e)
    \/ Answered(e) \/ Unclear(e) \/ ReadBack(e) \/ ReadBackFails(e)
    \/ MarkSucceeded(e) \/ MarkUnknown(e) \/ Abandon(e) \/ Record(e)

Outside ==
    \/ \E c \in Contents : EditLive(c)
    \/ \E i \in sent : Land(i) \/ Lose(i)

ContentNext ==
    \/ \E c \in Contents : PatchBody(c) \/ ApproveArtifact(c)
    \/ Outside
    \/ \E e \in Operators :
         \/ \E c \in Contents, k \in Keys \cup {NoKey} : Resolve(e, c, k)
         \/ \E i \in RunIds, v \in Verdicts \ {"none"} : Judge(e, i, v)
         \/ Executes(e)

ContentSpec == ContentInit /\ [][ContentNext]_contentVars

-----------------------------------------------------------------------------
ContentTypeOK ==
    /\ body \in Contents
    /\ approved \subseteq Contents
    /\ live \in Raws
    /\ edits \in Nat
    /\ runs \in Seq(Row)
    /\ sent \subseteq RunIds
    /\ landed \subseteq RunIds
    /\ exec \in [Operators -> Call]
    /\ \A e \in Operators :
         exec[e].step \in {"running", "sent", "answered", "unclear",
                           "confirmed", "judged"} => exec[e].run \in RunIds

\* No two runs of the post are unresolved at once: the row that a lost answer
\* or a dead process leaves behind blocks every later update until somebody
\* has reconciled it.
OneOpenRun == \A i, j \in Blocking : i = j

\* While no run is unresolved or reconciled and nobody else has written to the
\* post, the stored baseline is what WordPress has: the drift check then never
\* stops an update for what the system did itself.
BaselineTracksLive ==
    (/\ Blocking = {}
     /\ \A i \in RunIds : ~Resolved(i)
     /\ live.form = "posted") => live = Baseline

\* A run recorded as succeeded read back its own content, unless the post was
\* edited elsewhere.
SuccessIsOurs ==
    edits = 0 => \A i \in Succeeded : runs[i].response = Raw(runs[i].content)

\* A run whose outcome was unknown is reconciled as succeeded only when its
\* POST really took effect, unless the post was edited elsewhere: comparing
\* the text is enough to tell.
ReconciledLanded ==
    edits = 0 => \A i \in RunIds : Resolved(i) => i \in landed

\* A run begins only when every earlier run is settled.
NoNewRunWhileOpen ==
    [][Len(runs') > Len(runs) => Blocking = {}]_contentVars

\* A POST that lands, however late, replaces exactly the content that was the
\* baseline of its run, unless the post was edited elsewhere.
OverwritesItsBaseline ==
    [][\A i \in landed' \ landed :
         edits = 0 => live = runs[i].expected]_contentVars

-----------------------------------------------------------------------------
(***************************************************************************)
(* The strengthening by which the properties above are proved.             *)
(***************************************************************************)
Untouched == edits = 0

NoneResolved == \A i \in RunIds : ~Resolved(i)

Executing == {"running", "sent", "answered", "unclear", "confirmed"}

\* Succeeded rows carry what was read back, and one of them is the newest.
SucceededRows ==
    /\ \A i \in Succeeded : runs[i].response \in Raws
    /\ Succeeded # {} => \E i \in Succeeded : \A j \in Succeeded : j <= i

\* Every call that has a row has its own, in the status it expects.
CallRows ==
    \A e \in Operators :
      /\ exec[e].step \in Executing =>
           /\ runs[exec[e].run].status = "running"
           /\ \A f \in Operators \ {e} :
                exec[f].step \in Executing => exec[f].run # exec[e].run
      /\ exec[e].step = "confirmed" => exec[e].seen \in Raws
      /\ exec[e].step = "judged" => runs[exec[e].run].status = "outcome_unknown"

\* At most one call is under way.
Alone ==
    \A e, f \in Operators :
      exec[e].step # "idle" /\ exec[f].step # "idle" => e = f

\* Only the last row can be unresolved.
LastIsOpen == \A i \in Blocking : i = Len(runs)

\* What a call knows about the rows.
CallKnows ==
    \A e \in Operators :
      /\ exec[e].step \in {"resolved", "clear"} =>
           Blocking = {} /\ exec[e].expected = Baseline /\ exec[e].last = LastSubmitted
      /\ exec[e].step = "clear" =>
           /\ exec[e].content # exec[e].last
           /\ Untouched => live = exec[e].expected
      /\ exec[e].step \in Executing =>
           /\ exec[e].run = Len(runs)
           /\ runs[exec[e].run].verdict = "none"
      /\ exec[e].step = "running" => exec[e].run \notin sent \cup landed
      /\ exec[e].step \in {"answered", "confirmed"} => exec[e].run \in landed
      /\ exec[e].step = "confirmed" =>
           /\ Untouched => exec[e].seen = Raw(runs[exec[e].run].content)
           /\ NoneResolved /\ live.form = "posted" => live = exec[e].seen
      /\ /\ exec[e].step = "judged" /\ exec[e].verdict = "reconciled_succeeded"
         /\ Untouched
         => exec[e].run \in landed

\* Where a POST can be.
PostsAreOpen ==
    /\ sent \cap landed = {}
    /\ Succeeded \subseteq landed
    /\ Untouched \/ NoneResolved => \A i \in sent : i \in Blocking

\* The post as long as nobody else has edited it.
LiveIsLast ==
    Untouched =>
      /\ runs = << >> => live = Raw(First)
      /\ runs # << >> =>
           live = IF Len(runs) \in landed THEN Raw(runs[Len(runs)].content)
                                         ELSE runs[Len(runs)].expected
      /\ \A i \in RunIds : runs[i].expected.text # runs[i].content

\* The post as long as nothing has been reconciled.
PostedIsBaseline ==
    NoneResolved /\ live.form = "posted" =>
      /\ runs = << >> => live = Raw(First)
      /\ Len(runs) \in Succeeded => live = runs[Len(runs)].response

ContentInv ==
    /\ ContentTypeOK /\ SucceededRows /\ CallRows
    /\ OneAtATime => /\ Alone /\ LastIsOpen /\ CallKnows /\ PostsAreOpen
                     /\ LiveIsLast /\ PostedIsBaseline
                     /\ SuccessIsOurs /\ ReconciledLanded
=============================================================================
