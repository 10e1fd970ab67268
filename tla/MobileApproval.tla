--------------------------- MODULE MobileApproval ---------------------------
(***************************************************************************)
(* Approval of a proposal on a phone                                       *)
(* (app/services/mobile_approval_service.py, and the relay in WordPress,   *)
(* wordpress/mu-plugins/bizfluxlab-approval-relay.php).                    *)
(*                                                                         *)
(* affiliate-ai issues a review session: first at the relay, then in its   *)
(* own database, then it mails the link.  A person opens the link and      *)
(* decides once, at the relay.  sync() polls the relay, validates each     *)
(* decision against the local state, records it on the proposal, moves the *)
(* session row in two commits and acknowledges.  Every call to the relay   *)
(* may fail with or without its effect, the process may die between any    *)
(* two commits, and meanwhile articles are edited, time passes and the     *)
(* same proposal can be decided at the desk.                               *)
(*                                                                         *)
(* A session stands for its random id, so no id is used twice.  The        *)
(* envelope (hash and version) is frozen in the session and a proposal is  *)
(* never rewritten in place, so it is identified with the proposal itself. *)
(* The row state "failed" is left out: it is entered from a                *)
(* ChangeRequestError of the apply step, which repeats on the same objects *)
(* of the same database session the checks just made.                      *)
(* A Threads proposal has no approval rows, only a status and a time; the  *)
(* sequence of records stands for both.                                    *)
(***************************************************************************)
EXTENDS Naturals, Sequences, FiniteSets

CONSTANTS
    Sessions,     \* review sessions that may be issued
    Subjects,     \* proposals (change requests or Threads posts)
    Processes,    \* local processes that issue, revoke and sync
    Batch,        \* decisions the relay lists at once (LIMIT 100)
    MaxEdits,     \* bound: edits of articles
    MaxCrashes,   \* bound: processes that die
    NoSession, NoSubject, NoDecision, Desk

ASSUME MobileConstants ==
    /\ NoSession \notin Sessions /\ Desk \notin Sessions
    /\ NoSubject \notin Subjects
    /\ Batch \in Nat \ {0}
    /\ MaxEdits \in Nat /\ MaxCrashes \in Nat

Decisions == {"approved", "rejected"}
ASSUME NoDecisionAssumption == NoDecision \notin Decisions

VARIABLES
    status,      \* Subjects -> status of the proposal
    sound,       \* Subjects -> evaluate_staleness() finds nothing
    approvals,   \* Subjects -> sequence of recorded decisions
    row,         \* Sessions -> local row: state and subject
    relay,       \* Sessions -> row at the relay: state and decision
    created,     \* sessions in the order the relay stored them
    mailed,      \* sessions whose link reached the person
    phone,       \* Sessions -> decision that passed the relay's guard, unwritten
    late,        \* sessions past expires_at
    job,         \* Processes -> what the process is doing
    edits, crashes,
    pressed      \* history: Sessions -> decisions the relay accepted

proposals == <<status, sound, approvals>>
remote == <<relay, created, mailed, phone, pressed>>
bounds == <<edits, crashes>>
mobileVars == <<proposals, row, remote, late, job, bounds>>

-----------------------------------------------------------------------------
(* The states of the two rows and the shape of the rest. *)

ClosedStates == {"synchronized", "expired", "revoked", "stale"}
RowStates == {"none", "pending", "approved_remote", "rejected_remote"} \cup ClosedStates
RelayStates == {"none", "pending", "decided", "consumed", "revoked"}

\* Mutant: only a synchronized session is skipped.
OpenStatesButDone == RowStates \ {"none", "synchronized"}

\* What sync() still takes up (line 566).
OpenStates == {"pending", "approved_remote", "rejected_remote"}

Jobs == {"idle", "create", "store", "mail", "revoke", "sync",
         "record", "receive", "finish", "ack"}

Idle == [pc |-> "idle", session |-> NoSession, subject |-> NoSubject,
         todo |-> {}, late |-> {}]

\* The listed decision a sync is at: the oldest that is left.
Current(p) ==
    CHOOSE item \in job[p].todo : \A other \in job[p].todo : item.id <= other.id

\* Mutant: only the text is compared, not the status.
BlockedByText(u) == ~sound[u]

\* blocked_reasons(): not open any more, or stale.
Blocked(u) == status[u] # "awaiting_approval" \/ ~sound[u]

\* _active_session(): the pending rows of a proposal, expired or not.
Active(u) == {s \in Sessions : row[s].state = "pending" /\ row[s].subject = u}

\* decided(): the oldest rows in state decided, at most a batch.  The id of a
\* row is its place in the order of creation.
Listed ==
    LET decided == {i \in DOMAIN created : relay[created[i]].state = "decided"}
        oldest == {i \in decided : Cardinality({j \in decided : j < i}) < Batch}
    IN  {[id |-> i, session |-> created[i], decision |-> relay[created[i]].decision] :
            i \in oldest}

JobAt(p, pc) == [job EXCEPT ![p].pc = pc]

\* Mutant: the end of the list is not seen.
ProceedAlways(p) ==
    job' = [job EXCEPT ![p].pc = "sync", ![p].todo = @ \ {Current(p)}]

\* The loop over the list goes on, or the sync is over.
Proceed(p) ==
    job' = [job EXCEPT ![p] = IF job[p].todo = {Current(p)} THEN Idle
                              ELSE [job[p] EXCEPT !.pc = "sync", !.todo = @ \ {Current(p)}]]

\* _transition(): one commit of the row (the event row is only a log).
Move(s, state) == row' = [row EXCEPT ![s].state = state]

\* A call to the relay that may fail before or after its effect.
Unreliably(s, state) ==
    \/ UNCHANGED relay
    \/ /\ relay[s].state # "none"
       /\ relay' = [relay EXCEPT ![s].state = state]

-----------------------------------------------------------------------------
MobileInit ==
    /\ status = [u \in Subjects |-> "awaiting_approval"]
    /\ sound = [u \in Subjects |-> TRUE]
    /\ approvals = [u \in Subjects |-> <<>>]
    /\ row = [s \in Sessions |-> [state |-> "none", subject |-> NoSubject]]
    /\ relay = [s \in Sessions |-> [state |-> "none", decision |-> NoDecision]]
    /\ created = <<>>
    /\ mailed = {}
    /\ phone = [s \in Sessions |-> NoDecision]
    /\ late = {}
    /\ job = [p \in Processes |-> Idle]
    /\ edits = 0 /\ crashes = 0
    /\ pressed = [s \in Sessions |-> {}]

-----------------------------------------------------------------------------
(* Issuing a session: issue(), then the mail. *)

\* A fresh random id: nobody has used it, no process is about to.
Fresh(s) == /\ relay[s].state = "none" /\ row[s].state = "none"
            /\ \A p \in Processes : job[p].session # s

\* plan(): the proposal can be sent and no session of it is pending.
BeginIssue(p, s, u) ==
    /\ job[p].pc = "idle"
    /\ Fresh(s)
    /\ ~Blocked(u)
    /\ Active(u) = {}
    /\ job' = [job EXCEPT ![p] = [Idle EXCEPT !.pc = "create", !.session = s, !.subject = u]]
    /\ UNCHANGED <<proposals, row, remote, late, bounds>>

\* The relay stores the session.  If its answer is lost, issue() raises and
\* nobody knows the capability.
CreateSession(p) ==
    LET s == job[p].session IN
    /\ job[p].pc = "create"
    /\ relay' = [relay EXCEPT ![s].state = "pending"]
    /\ created' = Append(created, s)
    /\ job' \in {JobAt(p, "store"), [job EXCEPT ![p] = Idle]}
    /\ UNCHANGED <<proposals, row, mailed, phone, pressed, late, bounds>>

CreateFails(p) ==
    /\ job[p].pc = "create"
    /\ job' = [job EXCEPT ![p] = Idle]
    /\ UNCHANGED <<proposals, row, remote, late, bounds>>

StoreSession(p) ==
    /\ job[p].pc = "store"
    /\ row' = [row EXCEPT ![job[p].session] =
                  [state |-> "pending", subject |-> job[p].subject]]
    /\ job' = JobAt(p, "mail")
    /\ UNCHANGED <<proposals, remote, late, bounds>>

\* The mail arrives or it does not; either way the row stays pending.
Mail(p) ==
    /\ job[p].pc = "mail"
    /\ mailed' \in {mailed, mailed \cup {job[p].session}}
    /\ job' = [job EXCEPT ![p] = Idle]
    /\ UNCHANGED <<proposals, row, relay, created, phone, pressed, late, bounds>>

-----------------------------------------------------------------------------
(* Closing a session without a decision: revoke() and expire(). *)

\* The relay is told first; a failure is only logged.
Revoke(p, s) ==
    /\ job[p].pc = "idle"
    /\ row[s].state = "pending"
    /\ Unreliably(s, "revoked")
    /\ job' = [job EXCEPT ![p] = [Idle EXCEPT !.pc = "revoke", !.session = s]]
    /\ UNCHANGED <<proposals, row, created, mailed, phone, pressed, late, bounds>>

StoreRevoked(p) ==
    /\ job[p].pc = "revoke"
    /\ Move(job[p].session, "revoked")
    /\ job' = [job EXCEPT ![p] = Idle]
    /\ UNCHANGED <<proposals, remote, late, bounds>>

\* The digest closes lapsed sessions; the relay is not told.
Expire(p, s) ==
    /\ job[p].pc = "idle"
    /\ row[s].state = "pending"
    /\ s \in late
    /\ Move(s, "expired")
    /\ UNCHANGED <<proposals, remote, late, job, bounds>>

-----------------------------------------------------------------------------
(* Collecting decisions: sync().  The time is read once, before the list. *)

Fetch(p) ==
    /\ job[p].pc = "idle"
    /\ Listed # {}
    /\ job' = [job EXCEPT ![p] = [Idle EXCEPT !.pc = "sync", !.todo = Listed, !.late = late]]
    /\ UNCHANGED <<proposals, row, remote, late, bounds>>

\* Mutant: what is skipped is acknowledged too.
SkipAcknowledged(p) ==
    /\ job[p].pc = "sync"
    /\ row[Current(p).session].state \notin OpenStates
    /\ Unreliably(Current(p).session, "consumed")
    /\ Proceed(p)
    /\ UNCHANGED <<proposals, row, created, mailed, phone, pressed, late, bounds>>

\* No local row, already synchronized, or closed: skipped, not acknowledged.
Skip(p) ==
    /\ job[p].pc = "sync"
    /\ row[Current(p).session].state \notin OpenStates
    /\ Proceed(p)
    /\ UNCHANGED <<proposals, row, remote, late, bounds>>

\* An open row that the sync has got to, and whether it is past its time.
Taken(p) == job[p].pc = "sync" /\ row[Current(p).session].state \in OpenStates
Lapsed(p) == Current(p).session \in job[p].late

SyncExpires(p) ==
    /\ Taken(p) /\ Lapsed(p)
    /\ row[Current(p).session].state = "pending"
    /\ Move(Current(p).session, "expired")
    /\ Proceed(p)
    /\ UNCHANGED <<proposals, remote, late, bounds>>

\* A row that has received its decision cannot expire: _transition() raises
\* and the loop over the other decisions ends with it.
SyncRaises(p) ==
    /\ Taken(p) /\ Lapsed(p)
    /\ row[Current(p).session].state # "pending"
    /\ job' = [job EXCEPT ![p] = Idle]
    /\ UNCHANGED <<proposals, row, remote, late, bounds>>

SyncStale(p) ==
    /\ Taken(p) /\ ~Lapsed(p)
    /\ Blocked(row[Current(p).session].subject)
    /\ Move(Current(p).session, "stale")
    /\ Proceed(p)
    /\ UNCHANGED <<proposals, remote, late, bounds>>

SyncAccepts(p) ==
    /\ Taken(p) /\ ~Lapsed(p)
    /\ ~Blocked(row[Current(p).session].subject)
    /\ job' = JobAt(p, "record")
    /\ UNCHANGED <<proposals, row, remote, late, bounds>>

\* apply_decision(): the approval record and the status, one commit.  The
\* proposal is the object the checks were made on, so nothing is looked at
\* again.
Record(p) ==
    LET s == Current(p).session
        u == row[s].subject
        d == Current(p).decision
    IN  /\ job[p].pc = "record"
        /\ approvals' = [approvals EXCEPT ![u] = Append(@, [by |-> s, decision |-> d])]
        /\ status' = [status EXCEPT ![u] = d]
        /\ job' = JobAt(p, "receive")
        /\ UNCHANGED <<sound, row, remote, late, bounds>>

Receive(p) ==
    /\ job[p].pc = "receive"
    /\ Move(Current(p).session, IF Current(p).decision = "approved"
                                THEN "approved_remote" ELSE "rejected_remote")
    /\ job' = JobAt(p, "finish")
    /\ UNCHANGED <<proposals, remote, late, bounds>>

Finish(p) ==
    /\ job[p].pc = "finish"
    /\ Move(Current(p).session, "synchronized")
    /\ job' = JobAt(p, "ack")
    /\ UNCHANGED <<proposals, remote, late, bounds>>

Acknowledge(p) ==
    /\ job[p].pc = "ack"
    /\ Unreliably(Current(p).session, "consumed")
    /\ Proceed(p)
    /\ UNCHANGED <<proposals, row, created, mailed, phone, pressed, late, bounds>>

-----------------------------------------------------------------------------
(* Around it: the phone and the relay, the desk, the articles, the clock,  *)
(* and processes that die.                                                 *)

\* bfl_approval_decide() reads the row and checks it ...
Press(s, d) ==
    /\ s \in mailed /\ s \notin late
    /\ relay[s].state = "pending"
    /\ phone[s] = NoDecision
    /\ phone' = [phone EXCEPT ![s] = d]
    /\ UNCHANGED <<proposals, row, relay, created, mailed, pressed, late, job, bounds>>

\* ... and updates it without looking at its state again.
Decide(s) ==
    /\ phone[s] # NoDecision
    /\ relay' = [relay EXCEPT ![s] = [state |-> "decided", decision |-> phone[s]]]
    /\ pressed' = [pressed EXCEPT ![s] = @ \cup {phone[s]}]
    /\ phone' = [phone EXCEPT ![s] = NoDecision]
    /\ UNCHANGED <<proposals, row, created, mailed, late, job, bounds>>

\* approve() and reject() from the command line.
DeskDecides(u, d) ==
    /\ \/ status[u] = "awaiting_approval"
       \/ status[u] = "approved" /\ d = "rejected"
    /\ approvals' = [approvals EXCEPT ![u] = Append(@, [by |-> Desk, decision |-> d])]
    /\ status' = [status EXCEPT ![u] = d]
    /\ UNCHANGED <<sound, row, remote, late, job, bounds>>

\* The article changes, and the proposal no longer fits it, or fits it again.
Edit(u) ==
    /\ edits < MaxEdits
    /\ edits' = edits + 1
    /\ sound' = [sound EXCEPT ![u] = ~@]
    /\ UNCHANGED <<status, approvals, row, remote, late, job, crashes>>

Passes(s) ==
    /\ relay[s].state # "none" /\ s \notin late
    /\ late' = late \cup {s}
    /\ UNCHANGED <<proposals, row, remote, job, bounds>>

Crash(p) ==
    /\ job[p].pc # "idle" /\ crashes < MaxCrashes
    /\ crashes' = crashes + 1
    /\ job' = [job EXCEPT ![p] = Idle]
    /\ UNCHANGED <<proposals, row, remote, late, edits>>

-----------------------------------------------------------------------------
Begins(p) ==
    \E s \in Sessions : \/ \E u \in Subjects : BeginIssue(p, s, u)
                        \/ Revoke(p, s) \/ Expire(p, s)

GoesOn(p) ==
    CreateSession(p) \/ CreateFails(p) \/ StoreSession(p) \/ Mail(p) \/ StoreRevoked(p)

Syncs(p) ==
    \/ Fetch(p) \/ Skip(p) \/ SyncExpires(p) \/ SyncRaises(p) \/ SyncStale(p)
    \/ SyncAccepts(p) \/ Record(p) \/ Receive(p) \/ Finish(p) \/ Acknowledge(p)

Around ==
    \/ \E s \in Sessions : \/ \E d \in Decisions : Press(s, d)
                           \/ Decide(s) \/ Passes(s)
    \/ \E u \in Subjects : Edit(u) \/ \E d \in Decisions : DeskDecides(u, d)

MobileNext ==
    \/ \E p \in Processes : Begins(p) \/ GoesOn(p) \/ Syncs(p) \/ Crash(p)
    \/ Around

MobileSpec == MobileInit /\ [][MobileNext]_mobileVars

-----------------------------------------------------------------------------
(* Properties. *)

\* Every variable has its type; a decision is recorded for a proposal by a
\* session or at the desk.
MobileTypeOK ==
    /\ status \in [Subjects -> {"awaiting_approval"} \cup Decisions]
    /\ sound \in [Subjects -> BOOLEAN]
    /\ \A u \in Subjects : \A i \in DOMAIN approvals[u] :
          approvals[u][i] \in [by : Sessions \cup {Desk}, decision : Decisions]
    /\ row \in [Sessions -> [state : RowStates, subject : Subjects \cup {NoSubject}]]
    /\ relay \in [Sessions -> [state : RelayStates, decision : Decisions \cup {NoDecision}]]
    /\ \A i \in DOMAIN created : created[i] \in Sessions
    /\ mailed \subseteq Sessions /\ late \subseteq Sessions
    /\ phone \in [Sessions -> Decisions \cup {NoDecision}]
    /\ pressed \in [Sessions -> SUBSET Decisions]
    /\ \A p \in Processes :
          /\ job[p].pc \in Jobs
          /\ job[p].pc \in {"sync", "record", "receive", "finish", "ack"} => job[p].todo # {}
    /\ edits \in 0 .. MaxEdits /\ crashes \in 0 .. MaxCrashes

\* The records that session s left, and those any phone left on proposal u.
RecordsOf(s) == UNION {{<<u, i>> : i \in {j \in DOMAIN approvals[u] : approvals[u][j].by = s}} :
                          u \in Subjects}
ByPhone(u) == {i \in DOMAIN approvals[u] : approvals[u][i].by # Desk}

\* The machine invents nothing: what is recorded in the name of a session is a
\* decision a person made in it, on the proposal it was issued for.
WasPressed ==
    \A u \in Subjects : \A i \in ByPhone(u) :
        LET r == approvals[u][i] IN r.decision \in pressed[r.by] /\ row[r.by].subject = u

\* And repeats nothing: a proposal is decided by phone at most once, whatever
\* was revoked, issued again, listed again after a lost acknowledgement or
\* repeated after a crash.
PhoneDecidesOnce ==
    /\ WasPressed
    /\ \A u \in Subjects : Cardinality(ByPhone(u)) <= 1

\* The two ends agree when they say they are done: a session is consumed at
\* the relay only if the local row is synchronized, and synchronized only if
\* its record exists and is the decision the relay holds.
SettledIsRecorded ==
    \A s \in Sessions :
        /\ relay[s].state = "consumed" => row[s].state = "synchronized"
        /\ row[s].state = "synchronized" =>
              \E r \in RecordsOf(s) : approvals[r[1]][r[2]].decision = relay[s].decision

\* A session that is revoked, expired, stale or synchronized records nothing
\* any more, although its decision may stay on the relay's list for ever.
ClosedRecordsNothing ==
    [][\A s \in Sessions : row[s].state \in ClosedStates => RecordsOf(s)' = RecordsOf(s)]_mobileVars
=============================================================================
