------------------------ MODULE ThreadsAccount_proofs ------------------------
(***************************************************************************)
(* Proofs about the publisher and the ledger, for any number of proposals  *)
(* and posts, any cooldown, and a clock that runs as long as it likes.     *)
(***************************************************************************)
EXTENDS ThreadsAccount, TLAPS

\* From the second evaluation on the worker has a candidate of a lane.
JobNames ==
    /\ job.lane # "none" => Mine \in Proposals
    /\ job.pc \in Working => job.lane # "none"

\* A post that can be listed is public.
ListedIsPublic == \A i \in Ids : posts[i].text # NoText => Public(i)

\* A container that is, or can still become, a post belongs to a row that is
\* publishing, uncertain or published, and that was taken before the post.
BoxTold(p) ==
    /\ box[p] = "posted" <=> Public(p)
    /\ box[p] \in {"open", "sent", "posted"} =>
          row[p].status \in {"publishing", "uncertain", "published"}
    /\ row[p].status = "published" => box[p] = "posted"
    /\ box[p] \in {"open", "sent"} => row[p].started <= now
    /\ box[p] = "posted" => row[p].started <= posts[p].at

BoxTells == \A p \in Proposals : BoxTold(p)

\* What the worker knows of the row it publishes, and of what it listed.
JobKnows ==
    /\ job.start <= now
    /\ \A i \in Ids : job.list[i] # NoText => Public(i)
    /\ At("claim") => row[Mine].status \in {"none", "failed"} /\ ~row[Mine].media
    /\ At("create") => row[Mine].status = "creating" /\ row[Mine].started <= now
    /\ At("send") \/ At("await") => row[Mine].status = "publishing"
    /\ At("finish") =>
          /\ row[Mine].status = "publishing" /\ row[Mine].media
          /\ box[Mine] = "posted"

\* The ledger never takes a post by hand for ours, and a proposal with the
\* text of a manual post is closed or has a row.
LedgerKnows ==
    /\ \A i \in Ids : ledger[i].text # NoText => ledger[i].origin # "none"
    /\ \A m \in Manual : ledger[m].origin # "system"
    /\ \A m \in Manual, p \in Proposals :
          ledger[m].text = p /\ ledger[m].origin = "manual" =>
              proposal[p].status = "closed" \/ row[p].status # "none"

\* What the worker listed is in the ledger; past the second evaluation the
\* cooldown of it is over, and past the last plan no manual post has the text
\* of a candidate without a row.
JobSaw ==
    /\ job.pc \in Working =>
          \A m \in Manual : job.list[m] # NoText => ledger[m].origin \in {"manual", "unknown"}
    /\ job.pc \in {"preflight", "claim"} =>
          \A m \in Manual : job.list[m] # NoText => job.start >= posts[m].at + Cooldown
    /\ At("claim") =>
          \A m \in Manual :
              ledger[m].text = Mine /\ ledger[m].origin = "manual" => row[Mine].status # "none"

AccountInv == ListedIsPublic /\ BoxTells /\ JobKnows /\ OursIsKnown /\ LedgerKnows /\ JobSaw

\* The origin of a post is one of three.
LEMMA OriginKinds ==
    ASSUME NEW i \in Ids PROVE Origin(i) \in {"system", "unknown", "manual"}
BY DEF Origin

LEMMA NextOriginKinds ==
    ASSUME NEW i \in Ids PROVE NextOrigin(i) \in {"system", "unknown", "manual"}
BY OriginKinds DEF NextOrigin

\* What the code writes into a row, a proposal and the worker has their types.
LEMMA RowValues ==
    ASSUME NEW r \in RowType, NEW t \in Stamp,
           NEW status \in {"failed", "published"} \cup InFlight
    PROVE  /\ [r EXCEPT !.status = status] \in RowType
           /\ [r EXCEPT !.media = TRUE] \in RowType
           /\ [r EXCEPT !.status = status, !.started = t] \in RowType
           /\ [r EXCEPT !.status = status, !.basis = t] \in RowType
BY DEF RowType

LEMMA ProposalValues ==
    ASSUME NEW x \in ProposalType
    PROVE  /\ \A status \in {"approved", "closed"} : [x EXCEPT !.status = status] \in ProposalType
           /\ \A b \in BOOLEAN : [x EXCEPT !.held = b] \in ProposalType
           /\ \A b \in BOOLEAN : [x EXCEPT !.preferred = b] \in ProposalType
           /\ \A t, u \in Int : [x EXCEPT !.from = t, !.until = u] \in ProposalType
BY DEF ProposalType

LEMMA JobMoves ==
    ASSUME job \in JobType, JobNames, NEW pc, Goto(pc) \/ Return,
           Goto(pc) => \/ pc \in {"list", "store"}
                       \/ (pc \in Working /\ job.lane # "none")
    PROVE  job' \in JobType /\ JobNames'
<1>1. CASE Goto(pc)
  <2>1. /\ job' = [job EXCEPT !.pc = pc]
        /\ pc \in {"list", "store"} \/ (pc \in Working /\ job.lane # "none")
    <3>1. pc \in {"list", "store"} \/ (pc \in Working /\ job.lane # "none")
      BY <1>1
    <3>2. QED
      BY <1>1, <3>1 DEF Goto
  <2>2. job' \in JobType
    BY <2>1 DEF JobType
  <2>3. job'.pc = pc /\ job'.lane = job.lane /\ job'.prop = job.prop
    BY <2>1 DEF JobType
  <2>4. JobNames'
    BY <2>1, <2>3 DEF JobNames, Mine, Working
  <2>5. QED
    BY <2>2, <2>4
<1>2. CASE Return
  <2>1. 0 \in Time
    BY AccountAssumption DEF Time
  <2>2. QED
    BY <1>2, <2>1 DEF Return, Idle, JobType, JobNames, Mine, Working
<1>3. QED
  BY <1>1, <1>2

\* Every variable keeps its type, and the worker its candidate.
LEMMA TypeStep ==
    ASSUME AccountTypeOK, JobNames, [Next]_vars PROVE AccountTypeOK' /\ JobNames'
<1> USE AccountAssumption DEF AccountTypeOK
<1> DEFINE Goal == AccountTypeOK' /\ JobNames'
<1>1. CASE UNCHANGED vars
  BY <1>1 DEF vars, JobNames, Mine
<1>2. CASE Discover
  <2>1. job' \in JobType /\ JobNames'
    BY <1>2 DEF Discover, Idle, JobType, JobNames, Mine, Working
  <2>2. QED
    BY <1>2, <2>1 DEF Discover
<1>3. ASSUME NEW lane \in {"article", "growth"}, NEW p \in Proposals, Evaluate(lane, p)
      PROVE Goal
  <2>1. job' \in JobType /\ JobNames'
    BY <1>3 DEF Evaluate, Idle, JobType, JobNames, Mine, Working
  <2>2. QED
    BY <1>3, <2>1 DEF Evaluate
<1>4. CASE List
  <2>1. job' \in JobType /\ JobNames'
    BY <1>4 DEF List, At, JobType, JobNames, Mine, Working, PostType
  <2>2. QED
    BY <1>4, <2>1 DEF List
<1>5. CASE GiveUp
  BY <1>5, JobMoves DEF GiveUp
<1>6. CASE Store
  <2>1. ledger' \in [Ids -> EntryType]
    <3>1. job.list \in [Ids -> Texts \cup {NoText}]
      BY DEF JobType
    <3>2. QED
      BY <1>6, <3>1, NextOriginKinds DEF Store, EntryType
  <2>2. proposal' \in [Proposals -> ProposalType]
    <3>1. \A p \in Proposals : [proposal[p] EXCEPT !.status = "closed"] \in ProposalType
      BY ProposalValues
    <3>2. QED
      BY <1>6, <3>1 DEF Store
  <2>3. job' \in JobType /\ JobNames'
    BY <1>6, JobMoves DEF Store, Working
  <2>4. QED
    BY <1>6, <2>1, <2>2, <2>3 DEF Store
<1>7. ASSUME NEW pc \in Working, At(pc), UNCHANGED <<now, proposal, posts, ledger>>,
             NEW next \in Working, Goto(next) \/ Return,
             box' \in [Proposals -> {"none", "open", "sent", "posted", "ended"}],
             row' \in [Proposals -> RowType]
      PROVE Goal
  <2>1. job.lane # "none"
    BY <1>7 DEF JobNames, At
  <2>2. job' \in JobType /\ JobNames'
    BY <1>7, <2>1, JobMoves
  <2>3. QED
    BY <1>7, <2>2
<1>8. ASSUME NEW pc \in Working, At(pc), NEW r \in RowType, SetRow(r)
      PROVE row' \in [Proposals -> RowType]
  <2>1. Mine \in Proposals
    BY <1>8 DEF JobNames, At
  <2>2. QED
    BY <1>8, <2>1 DEF SetRow
<1>9. ASSUME NEW pc \in Working, At(pc) PROVE row[Mine] \in RowType
  BY <1>9 DEF JobNames, At
<1>10. job.start \in Stamp /\ now \in Stamp
  BY DEF JobType, Stamp
<1> USE DEF Working, InFlight
<1>11. CASE Reevaluate
  BY <1>7, <1>11 DEF Reevaluate
<1>12. CASE Preflight
  BY <1>7, <1>12 DEF Preflight
<1>13. CASE Claim
  BY <1>7, <1>8, <1>9, <1>10, <1>13, RowValues DEF Claim
<1>14. CASE Create
  BY <1>7, <1>8, <1>9, <1>10, <1>14, RowValues DEF Create
<1>15. CASE CreateFails
  BY <1>7, <1>8, <1>9, <1>10, <1>15, RowValues DEF CreateFails
<1>16. CASE Send
  BY <1>7, <1>16 DEF Send
<1>17. CASE Answer
  BY <1>7, <1>8, <1>9, <1>10, <1>17, RowValues DEF Answer
<1>18. CASE Finish
  <2>1. PICK t \in {posts[Mine].at, now} :
          SetRow([row[Mine] EXCEPT !.status = "published", !.basis = t])
    BY <1>18 DEF Finish
  <2>2. t \in Stamp
    BY <1>10, <1>18 DEF Finish, At, Ids, JobNames, PostType
  <2>3. row' \in [Proposals -> RowType]
    BY <1>8, <1>9, <1>18, <2>1, <2>2, RowValues DEF Finish
  <2>4. QED
    BY <1>7, <1>18, <2>3 DEF Finish
<1>19. CASE Lost
  BY <1>7, <1>8, <1>9, <1>10, <1>19, RowValues DEF Lost
<1>20. CASE Crash
  BY <1>20, JobMoves DEF Crash
<1>21. ASSUME NEW p \in Proposals, ObserveInsights(p) PROVE Goal
  BY <1>21 DEF ObserveInsights, Ids, Texts, JobNames, Mine, EntryType
<1>22. ASSUME NEW p \in Proposals, ReconcilePublication(p) PROVE Goal
  <2>1. /\ [row[p] EXCEPT !.status = "failed"] \in RowType
        /\ [row[p] EXCEPT !.status = "published", !.basis = now] \in RowType
    BY <1>10, RowValues
  <2>2. row' \in [Proposals -> RowType]
    <3>1. CASE box[p] = "posted"
      <4>1. row' = [row EXCEPT ![p] = [row[p] EXCEPT !.status = "published", !.basis = now]]
        BY <1>22, <3>1 DEF ReconcilePublication
      <4>2. QED
        BY <2>1, <4>1
    <3>2. CASE box[p] \in {"none", "ended"}
      <4>1. row' = [row EXCEPT ![p] = [row[p] EXCEPT !.status = "failed"]]
        BY <1>22, <3>2 DEF ReconcilePublication
      <4>2. QED
        BY <2>1, <4>1
    <3>3. CASE box[p] \in {"open", "sent"}
      BY <1>22, <3>3 DEF ReconcilePublication
    <3>4. QED
      BY <3>1, <3>2, <3>3
  <2>3. QED
    BY <1>22, <2>2 DEF ReconcilePublication, JobNames, Mine
<1>23. ASSUME NEW p \in Proposals, NEW x \in ProposalType,
              proposal' = [proposal EXCEPT ![p] = x],
              UNCHANGED <<now, row, box, posts, ledger, job>>
       PROVE Goal
  BY <1>23 DEF JobNames, Mine
<1>24. ASSUME NEW p \in Proposals,
              Approve(p) \/ Withdraw(p) \/ Hold(p) \/ Release(p)
                 \/ PreferNext(p) \/ ClearPreference(p)
       PROVE Goal
  <2> DEFINE Written(x) == proposal' = [proposal EXCEPT ![p] = x]
  <2>1. \E x \in ProposalType : Written(x)
    <3>1. CASE Approve(p)
      <4>1. Written([proposal[p] EXCEPT !.status = "approved"])
        BY <3>1 DEF Approve
      <4>2. QED
        BY <4>1, ProposalValues
    <3>2. CASE Withdraw(p)
      <4>1. Written([proposal[p] EXCEPT !.status = "closed"])
        BY <3>2 DEF Withdraw
      <4>2. QED
        BY <4>1, ProposalValues
    <3>3. CASE Hold(p) \/ Release(p)
      <4>1. \E b \in BOOLEAN : Written([proposal[p] EXCEPT !.held = b])
        BY <3>3 DEF Hold, Release
      <4>2. QED
        BY <4>1, ProposalValues
    <3>4. CASE PreferNext(p) \/ ClearPreference(p)
      <4>1. \E b \in BOOLEAN : Written([proposal[p] EXCEPT !.preferred = b])
        BY <3>4 DEF PreferNext, ClearPreference
      <4>2. QED
        BY <4>1, ProposalValues
    <3>5. QED
      BY <1>24, <3>1, <3>2, <3>3, <3>4
  <2>2. QED
    BY <1>23, <1>24, <2>1
    DEF Approve, Withdraw, Hold, Release, PreferNext, ClearPreference
<1>25. ASSUME NEW p \in Proposals, NEW t \in Timings, SetTiming(p, t[1], t[2])
       PROVE Goal
  <2>1. t[1] \in Int /\ t[2] \in Int
    OBVIOUS
  <2>2. proposal' = [proposal EXCEPT ![p] = [proposal[p] EXCEPT !.from = t[1], !.until = t[2]]]
    BY <1>25 DEF SetTiming
  <2>3. QED
    BY <1>23, <1>25, <2>1, <2>2, ProposalValues DEF SetTiming
<1>26. ASSUME NEW m \in Manual, NEW text \in Texts, PostByHand(m, text) PROVE Goal
  BY <1>10, <1>26 DEF PostByHand, Ids, JobNames, Mine, PostType
<1>27. ASSUME NEW m \in Manual, NEW p \in Proposals, EditPost(m, p) PROVE Goal
  <2>1. posts' \in [Ids -> PostType]
    BY <1>27 DEF EditPost, Ids, Texts, PostType
  <2>2. QED
    BY <1>27, <2>1 DEF EditPost, JobNames, Mine
<1>28. ASSUME NEW p \in Proposals, Land(p) \/ ContainerEnds(p) PROVE Goal
  BY <1>10, <1>28, SMTT(30) DEF Land, ContainerEnds, Texts, Ids, JobNames, Mine, PostType
<1>29. CASE Tick
  BY <1>29 DEF Tick, JobNames, Mine, Time
<1>30. QED
  BY <1>1, <1>2, <1>3, <1>4, <1>5, <1>6, <1>11, <1>12, <1>13, <1>14, <1>15, <1>16, <1>17,
     <1>18, <1>19, <1>20, <1>21, <1>22, <1>24, <1>25, <1>26, <1>27, <1>28, <1>29
  DEF Next, Worker, People, Threads

LEMMA TypeInit == Init => AccountTypeOK /\ JobNames
BY AccountAssumption
DEF Init, AccountTypeOK, JobNames, Mine, Working, Idle, NoRow, NoTime, Time, Stamp, Ids,
    ProposalType, RowType, PostType, EntryType, JobType

\* Every variable keeps its type.
THEOREM AccountTypeCorrect == Spec => []AccountTypeOK
<1>1. AccountTypeOK /\ JobNames /\ [Next]_vars => AccountTypeOK' /\ JobNames'
  BY TypeStep
<1>2. QED
  BY <1>1, TypeInit, PTL DEF Spec

LEMMA InvInit == Init => AccountInv
BY AccountAssumption
DEF Init, AccountInv, ListedIsPublic, BoxTells, BoxTold, JobKnows, OursIsKnown, LedgerKnows, JobSaw, Idle, NoRow,
    NoTime, Public, At, Working, Mine, Ids, Texts

\* The parts of the invariant that a step leaves alone.
LEMMA Frames ==
    ASSUME AccountTypeOK, AccountInv
    PROVE  /\ UNCHANGED posts => ListedIsPublic'
           /\ UNCHANGED <<now, row, box, posts>> => BoxTells'
           /\ UNCHANGED <<row, ledger>> => OursIsKnown'
           /\ UNCHANGED <<row, ledger, proposal>> => LedgerKnows'
           /\ UNCHANGED <<now, row, box, posts, job>> => JobKnows'
           /\ UNCHANGED <<row, posts, ledger, job>> => JobSaw'
<1>1. UNCHANGED posts => ListedIsPublic'
  BY DEF AccountInv, ListedIsPublic, Public
<1>2. UNCHANGED <<now, row, box, posts>> => BoxTells'
  BY DEF AccountInv, BoxTells, BoxTold, Public
<1>3. UNCHANGED <<row, ledger>> => OursIsKnown'
  BY DEF AccountInv, OursIsKnown
<1>4. UNCHANGED <<row, ledger, proposal>> => LedgerKnows'
  BY DEF AccountInv, LedgerKnows
<1>5. UNCHANGED <<now, row, box, posts, job>> => JobKnows'
  BY DEF AccountInv, JobKnows, Public, At, Mine
<1>6. UNCHANGED <<row, posts, ledger, job>> => JobSaw'
  BY DEF AccountInv, JobSaw, At, Mine
<1>7. QED
  BY <1>1, <1>2, <1>3, <1>4, <1>5, <1>6

\* The worker gives up, or starts: what it knew is forgotten.
LEMMA IdleKnows ==
    ASSUME AccountTypeOK, now' = now, NEW lane, NEW p,
           \/ job' = Idle
           \/ job' = [Idle EXCEPT !.pc = "list", !.start = now]
           \/ job' = [Idle EXCEPT !.pc = "list", !.lane = lane, !.prop = p, !.start = now]
    PROVE  JobKnows' /\ JobSaw'
<1>1. now \in Nat
  BY AccountAssumption DEF AccountTypeOK, Time
<1>2. /\ job'.pc \in {"idle", "list"} /\ job'.start \in {0, now}
      /\ job'.list = [i \in Ids |-> NoText]
  <2>1. CASE job' = Idle
    BY <2>1 DEF Idle
  <2>2. CASE job' = [Idle EXCEPT !.pc = "list", !.start = now]
    BY <2>2 DEF Idle
  <2>3. CASE job' = [Idle EXCEPT !.pc = "list", !.lane = lane, !.prop = p, !.start = now]
    BY <2>3 DEF Idle
  <2>4. QED
    BY <2>1, <2>2, <2>3
<1>3. QED
  BY <1>1, <1>2 DEF JobKnows, JobSaw, At, Working, Ids

\* The worker moves on: what it listed stays as it is.
LEMMA GotoKeeps ==
    ASSUME AccountTypeOK, NEW pc, Goto(pc)
    PROVE  /\ job'.pc = pc /\ Mine' = Mine
           /\ job'.start = job.start /\ job'.list = job.list
BY DEF Goto, AccountTypeOK, JobType, Mine

LEMMA QuietStep ==
    ASSUME AccountTypeOK, AccountInv, JobNames, UNCHANGED <<now, row, box, posts, ledger>>,
           Discover \/ List \/ GiveUp \/ Reevaluate \/ Preflight \/ Crash
             \/ \E lane \in {"article", "growth"}, p \in Proposals : Evaluate(lane, p)
    PROVE  JobKnows' /\ JobSaw'
<1> USE DEF AccountInv
<1>0. CASE Return
  BY <1>0, IdleKnows DEF Return
<1>1. CASE Discover
  BY <1>1, IdleKnows DEF Discover
<1>2. CASE GiveUp \/ Crash
  BY <1>0, <1>2 DEF GiveUp, Crash
<1>3. CASE \E lane \in {"article", "growth"}, p \in Proposals : Evaluate(lane, p)
  BY <1>3, IdleKnows DEF Evaluate
<1>4. CASE List
  <2>1. /\ job'.pc = "store" /\ job'.start = job.start
        /\ \A i \in Ids : job'.list[i] = posts[i].text
    BY <1>4 DEF List, AccountTypeOK, JobType
  <2>2. JobKnows'
    BY <2>1 DEF JobKnows, At, ListedIsPublic, Public
  <2>3. JobSaw'
    BY <2>1 DEF JobSaw, At, Working
  <2>4. QED
    BY <2>2, <2>3
<1>5. CASE Reevaluate /\ Goto("preflight")
  <2>1. At("reevaluate") /\ Mine \in Candidates(job.lane, job.start)
    BY <1>5 DEF Reevaluate, Goto, Return, Idle, AccountTypeOK, JobType
  <2>2. Cooled(job.start)
    BY <2>1 DEF Candidates
  <2>3. \A m \in Manual : job.list[m] # NoText => job.start >= posts[m].at + Cooldown
    BY <2>1, <2>2 DEF Cooled, JobSaw, At, Working, Ids
  <2>4. /\ job'.pc = "preflight" /\ Mine' = Mine
        /\ job'.start = job.start /\ job'.list = job.list
    BY <1>5, GotoKeeps
  <2>5. JobKnows'
    BY <2>4 DEF JobKnows, At, Public
  <2>6. JobSaw'
    BY <2>1, <2>3, <2>4 DEF JobSaw, At, Working
  <2>7. QED
    BY <2>5, <2>6
<1>6. CASE Preflight /\ Goto("claim")
  <2>1. /\ job'.pc = "claim" /\ Mine' = Mine
        /\ job'.start = job.start /\ job'.list = job.list
    BY <1>6, GotoKeeps
  <2>2. At("preflight") /\ Plan(Mine, job.start) /\ Mine \in Proposals
    BY <1>6, <2>1 DEF Preflight, Return, Idle, JobNames, At, Working
  <2>3. /\ proposal[Mine].status = "approved"
        /\ row[Mine].status \in {"none", "failed"} /\ ~row[Mine].media
    BY <2>2 DEF Plan
  <2>4. JobKnows'
    BY <2>1, <2>3 DEF JobKnows, At, Public, Mine
  <2>5. JobSaw'
    BY <2>1, <2>2, <2>3 DEF JobSaw, At, Working, LedgerKnows, Mine
  <2>6. QED
    BY <2>4, <2>5
<1>7. QED
  BY <1>0, <1>1, <1>2, <1>3, <1>4, <1>5, <1>6 DEF Reevaluate, Preflight

\* The steps of a publication, each on the row of the worker's candidate.
LEMMA PublicationStep ==
    ASSUME AccountTypeOK, AccountInv, JobNames,
           Claim \/ Create \/ CreateFails \/ Send \/ Answer \/ Finish \/ Lost
    PROVE  AccountInv'
<1> USE DEF AccountInv, InFlight
<1>1. /\ Mine \in Proposals /\ row \in [Proposals -> RowType]
      /\ box \in [Proposals -> {"none", "open", "sent", "posted", "ended"}]
      /\ job.start \in Nat /\ now \in Nat /\ UNCHANGED <<now, proposal, posts, ledger>>
      /\ job.pc \in {"claim", "create", "send", "await", "finish"}
  BY AccountAssumption
  DEF AccountTypeOK, JobNames, JobType, Time, Working, At, Claim, Create, CreateFails, Send,
      Answer, Finish, Lost
<1>2. \E next \in {"create", "send", "await", "finish"} : Goto(next) \/ Return
  BY DEF Claim, Create, CreateFails, Send, Answer, Finish, Lost
<1>3. \A q \in Proposals : q # Mine => row'[q] = row[q] /\ box'[q] = box[q]
  BY <1>1 DEF Claim, Create, CreateFails, Send, Answer, Finish, Lost, SetRow
<1>4. ListedIsPublic'
  BY <1>1, Frames
<1>5. /\ row[Mine].status # "none" => row'[Mine].status # "none"
      /\ ~At("claim") => row[Mine].status \in {"creating", "publishing"}
      /\ At("claim") => row[Mine].status \in {"none", "failed"}
                           /\ row'[Mine].status = "creating"
  BY <1>1 DEF JobKnows, At, Claim, Create, CreateFails, Send, Answer, Finish, Lost, SetRow,
              RowType
<1>6. OursIsKnown'
  BY <1>1, <1>3, <1>5 DEF OursIsKnown
<1>7. LedgerKnows'
  BY <1>1, <1>3, <1>5 DEF LedgerKnows
<1>8. JobSaw'
  <2>1. ASSUME NEW next \in {"create", "send", "await", "finish"}, Goto(next) PROVE JobSaw'
    BY <1>1, <2>1, GotoKeeps DEF JobSaw, At, Working
  <2>2. CASE Return
    BY <1>1, <2>2, IdleKnows DEF Return
  <2>3. QED
    BY <1>2, <2>1, <2>2
<1>9. BoxTells'
  <2>1. ASSUME NEW q \in Proposals, q # Mine PROVE BoxTold(q)'
    BY <1>1, <1>3, <2>1 DEF BoxTells, BoxTold, Public
  <2>2. BoxTold(Mine)
    BY <1>1 DEF BoxTells
  <2>3. \A q \in Proposals : q = Mine => BoxTold(q)'
    <3>1. CASE Claim
      <4>1. /\ row'[Mine].status = "creating" /\ box' = box
            /\ box[Mine] \notin {"open", "sent", "posted"}
        BY <1>1, <2>2, <3>1 DEF Claim, At, SetRow, BoxTold, RowType, JobKnows
      <4>2. QED
        BY <1>1, <2>2, <4>1 DEF BoxTold, Public
    <3>2. CASE Create
      <4>1. /\ row'[Mine].status = "publishing" /\ box'[Mine] = "open"
            /\ row'[Mine].started = row[Mine].started /\ row[Mine].started <= now
            /\ box[Mine] \notin {"open", "sent", "posted"}
        BY <1>1, <2>2, <3>2 DEF Create, At, SetRow, BoxTold, RowType, JobKnows
      <4>2. QED
        BY <1>1, <2>2, <4>1 DEF BoxTold, Public
    <3>3. CASE CreateFails
      <4>1. /\ row'[Mine].status = "failed" /\ box' = box
            /\ box[Mine] \notin {"open", "sent", "posted"}
        BY <1>1, <2>2, <3>3 DEF CreateFails, At, SetRow, BoxTold, RowType, JobKnows
      <4>2. QED
        BY <1>1, <2>2, <4>1 DEF BoxTold, Public
    <3>4. CASE Send
      <4>1. /\ row' = row
            /\ box[Mine] = "open" => box'[Mine] = "sent"
            /\ box[Mine] # "open" => box'[Mine] = box[Mine]
        BY <1>1, <3>4 DEF Send
      <4>2. QED
        BY <1>1, <2>2, <4>1 DEF BoxTold, Public
    <3>5. CASE Answer \/ Finish \/ Lost
      <4>1. /\ row'[Mine].status \in {"publishing", "uncertain", "published"}
            /\ row'[Mine].started = row[Mine].started /\ box' = box
            /\ row'[Mine].status = "published" => box[Mine] = "posted"
        BY <1>1, <3>5 DEF Answer, Finish, Lost, At, SetRow, RowType, JobKnows
      <4>2. QED
        BY <1>1, <2>2, <4>1 DEF BoxTold, Public
    <3>6. QED
      BY <3>1, <3>2, <3>3, <3>4, <3>5
  <2>4. QED
    BY <2>1, <2>3 DEF BoxTells
<1>10. JobKnows'
  <2>1. CASE Return
    BY <1>1, <2>1, IdleKnows DEF Return
  <2>2. CASE Claim
    <3>1. /\ job'.pc = "create" /\ Mine' = Mine
          /\ job'.start = job.start /\ job'.list = job.list
      BY <2>2, GotoKeeps DEF Claim
    <3>2. row'[Mine].status = "creating" /\ row'[Mine].started = job.start
      BY <1>1, <2>2 DEF Claim, SetRow, RowType
    <3>3. QED
      BY <1>1, <3>1, <3>2 DEF JobKnows, At, Public
  <2>3. CASE Create \/ Send
    <3>1. /\ job'.pc \in {"send", "await"} /\ Mine' = Mine
          /\ job'.start = job.start /\ job'.list = job.list
      BY <2>3, GotoKeeps DEF Create, Send
    <3>2. row'[Mine].status = "publishing"
      BY <1>1, <2>3 DEF Create, Send, SetRow, RowType, JobKnows
    <3>3. QED
      BY <1>1, <3>1, <3>2 DEF JobKnows, At, Public
  <2>4. CASE Answer
    <3>1. /\ job'.pc = "finish" /\ Mine' = Mine
          /\ job'.start = job.start /\ job'.list = job.list
      BY <2>4, GotoKeeps DEF Answer
    <3>2. /\ row'[Mine].status = "publishing" /\ row'[Mine].media
          /\ box'[Mine] = "posted"
      BY <1>1, <2>4 DEF Answer, SetRow, RowType, JobKnows
    <3>3. QED
      BY <1>1, <3>1, <3>2 DEF JobKnows, At, Public
  <2>5. QED
    BY <2>1, <2>2, <2>3, <2>4 DEF CreateFails, Finish, Lost
<1>11. QED
  BY <1>4, <1>6, <1>7, <1>8, <1>9, <1>10

\* The listing is compared and recorded.
LEMMA StoreStep ==
    ASSUME AccountTypeOK, AccountInv, JobNames, Store PROVE AccountInv'
<1> USE DEF AccountInv
<1>1. /\ UNCHANGED <<now, row, box, posts>> /\ At("store")
      /\ Proposals \subseteq Ids /\ Manual \subseteq Ids /\ Proposals \cap Manual = {}
      /\ \A p \in Proposals : p \in Unnecessary \/ proposal[p].status = "closed" =>
            proposal'[p].status = "closed"
  BY AccountAssumption DEF Store, Ids, AccountTypeOK, ProposalType
<1>2. \A i \in Ids : NextOrigin(i) \in {"system", "unknown", "manual"}
  BY NextOriginKinds
<1> DEFINE New(i) == [origin |-> NextOrigin(i), text |-> job.list[i]]
<1>3. \A i \in Ids : ledger'[i] = IF job.list[i] = NoText THEN ledger[i] ELSE New(i)
  BY DEF Store
<1>4. \A i \in Ids :
          /\ job.list[i] = NoText => ledger'[i] = ledger[i]
          /\ job.list[i] # NoText =>
                ledger'[i].origin = NextOrigin(i) /\ ledger'[i].text = job.list[i]
  <2>1. \A i \in Ids : New(i).origin = NextOrigin(i) /\ New(i).text = job.list[i]
    OBVIOUS
  <2>2. QED
    BY <1>3, <2>1
<1>5. \A m \in Manual : NextOrigin(m) # "system"
  BY <1>1 DEF NextOrigin, Origin, LedgerKnows
<1>6. ListedIsPublic' /\ BoxTells'
  BY <1>1, Frames
<1>7. OursIsKnown'
  <2> SUFFICES ASSUME NEW p \in Proposals, ledger'[p].origin = "manual",
                      ledger[p].origin # "manual"
               PROVE  row[p].status = "published" /\ ~row[p].media
    BY <1>1 DEF OursIsKnown
  <2>1. job.list[p] # NoText /\ NextOrigin(p) = "manual"
    BY <1>1, <1>4
  <2>2. Origin(p) = "manual"
    BY <2>1 DEF NextOrigin
  <2>3. ~row[p].media /\ Unidentified(posts[p].at) = {}
    BY <1>1, <2>2 DEF Origin
  <2>4. Public(p)
    BY <1>1, <2>1 DEF JobKnows
  <2>5. /\ row[p].status \in {"publishing", "uncertain", "published"}
        /\ row[p].started <= posts[p].at
    BY <2>4 DEF BoxTells, BoxTold
  <2>6. QED
    BY <2>3, <2>5 DEF Unidentified, InFlight
<1>8. LedgerKnows'
  <2>1. \A i \in Ids : ledger'[i].text # NoText => ledger'[i].origin # "none"
    BY <1>1, <1>2, <1>4 DEF LedgerKnows
  <2>2. \A m \in Manual : ledger'[m].origin # "system"
    BY <1>1, <1>5, <1>4 DEF LedgerKnows
  <2>3. ASSUME NEW m \in Manual, NEW p \in Proposals,
               ledger'[m].text = p, ledger'[m].origin = "manual"
        PROVE  proposal'[p].status = "closed" \/ row'[p].status # "none"
    <3>1. CASE ledger[m].text = p /\ ledger[m].origin = "manual"
      BY <1>1, <3>1 DEF LedgerKnows
    <3>2. CASE ~(ledger[m].text = p /\ ledger[m].origin = "manual")
      <4>1. job.list[m] = p /\ NextOrigin(m) = "manual"
        BY <1>1, <1>4, <2>3, <3>2
      <4>2. Compared(m)
        BY <3>2, <4>1 DEF Compared
      <4>3. p \in Unnecessary \/ proposal[p].status = "closed" \/ row[p].status # "none"
        BY <1>1, <4>1, <4>2 DEF Unnecessary
      <4>4. QED
        BY <1>1, <4>3
    <3>3. QED
      BY <3>1, <3>2
  <2>4. QED
    BY <2>1, <2>2, <2>3 DEF LedgerKnows
<1>9. JobKnows' /\ JobSaw'
  <2>1. CASE Return
    BY <1>1, <2>1, IdleKnows DEF Return
  <2>2. CASE Goto("reevaluate")
    <3>1. /\ job'.pc = "reevaluate"
          /\ job'.start = job.start /\ job'.list = job.list
      BY <2>2, GotoKeeps
    <3>2. JobKnows'
      BY <1>1, <3>1 DEF JobKnows, At, Public
    <3>3. JobSaw'
      BY <1>1, <1>2, <1>5, <1>4, <3>1 DEF JobSaw, At
    <3>4. QED
      BY <3>2, <3>3
  <2>3. QED
    BY <2>1, <2>2 DEF Store
<1>10. QED
  BY <1>6, <1>7, <1>8, <1>9

\* The row of a proposal is settled by reconciliation, beside the worker.
LEMMA ReconcileStep ==
    ASSUME AccountTypeOK, AccountInv, JobNames, NEW p \in Proposals, ReconcilePublication(p)
    PROVE  AccountInv'
<1> USE DEF AccountInv, InFlight
<1>1. /\ UNCHANGED <<now, proposal, box, posts, ledger, job>>
      /\ row[p] \in RowType
      /\ row[p].status \in InFlight \/ (row[p].status = "published" /\ ~row[p].media)
      /\ Mine = p => job.pc \in {"idle", "list", "store", "reevaluate", "preflight"}
  BY DEF ReconcilePublication, AccountTypeOK
<1>2. BoxTold(p) /\ box[p] \in {"none", "open", "sent", "posted", "ended"}
  BY DEF BoxTells, AccountTypeOK
<1>3. \/ row' = row
      \/ /\ \A q \in Proposals : q # p => row'[q] = row[q]
         /\ row'[p].media = row[p].media /\ row'[p].started = row[p].started
         /\ \/ row'[p].status = "published" /\ box[p] = "posted"
            \/ row'[p].status = "failed" /\ box[p] \in {"none", "ended"}
  <2>1. CASE box[p] = "posted"
    BY <1>1, <2>1 DEF ReconcilePublication, AccountTypeOK, RowType
  <2>2. CASE box[p] \in {"none", "ended"}
    BY <1>1, <2>2 DEF ReconcilePublication, AccountTypeOK, RowType
  <2>3. CASE box[p] \in {"open", "sent"}
    BY <2>3 DEF ReconcilePublication
  <2>4. QED
    BY <1>2, <2>1, <2>2, <2>3
<1>4. CASE row' = row
  BY <1>1, <1>4, Frames
<1>5. ASSUME row' # row PROVE AccountInv'
  <2>1. /\ \A q \in Proposals : q # p => row'[q] = row[q]
        /\ row'[p].media = row[p].media /\ row'[p].started = row[p].started
        /\ \/ row'[p].status = "published" /\ box[p] = "posted"
           \/ row'[p].status = "failed" /\ box[p] \in {"none", "ended"}
    BY <1>3, <1>5
  <2>2. ListedIsPublic'
    BY <1>1, Frames
  <2>3. BoxTells'
    <3>1. BoxTold(p)'
      BY <1>1, <1>2, <2>1 DEF BoxTold, Public
    <3>2. ASSUME NEW q \in Proposals, q # p PROVE BoxTold(q)'
      BY <1>1, <2>1, <3>2 DEF BoxTells, BoxTold, Public
    <3>3. QED
      BY <3>1, <3>2 DEF BoxTells
  <2>4. OursIsKnown'
    <3>1. ledger[p].origin = "manual" => row[p].status = "published" /\ ~row[p].media
      BY DEF OursIsKnown
    <3>2. row[p].status = "published" => box[p] = "posted"
      BY <1>2 DEF BoxTold
    <3>3. QED
      BY <1>1, <2>1, <3>1, <3>2 DEF OursIsKnown
  <2>5. LedgerKnows'
    BY <1>1, <2>1 DEF LedgerKnows
  <2>6. JobKnows' /\ JobSaw'
    <3>1. Mine' = Mine
      BY <1>1 DEF Mine
    <3>2. \A q \in Proposals : q # p => row'[q] = row[q]
      BY <2>1
    <3>3. job.pc \in Working => Mine \in Proposals
      BY DEF JobNames
    <3>4. job.pc \in {"claim", "create", "send", "await", "finish"} => row'[Mine] = row[Mine]
      BY <1>1, <3>2, <3>3 DEF Working
    <3>5. JobKnows'
      BY <1>1, <3>1, <3>4 DEF JobKnows, At, Public
    <3>6. JobSaw'
      BY <1>1, <3>1, <3>4 DEF JobSaw, At
    <3>7. QED
      BY <3>5, <3>6
  <2>7. QED
    BY <2>2, <2>3, <2>4, <2>5, <2>6
<1>6. QED
  BY <1>4, <1>5

\* A decision or a control changes the proposal alone, and none reopens one.
LEMMA DecisionStep ==
    ASSUME AccountTypeOK, AccountInv, NEW p \in Proposals,
           \/ Approve(p) \/ Withdraw(p) \/ Hold(p) \/ Release(p)
           \/ PreferNext(p) \/ ClearPreference(p)
           \/ \E t \in Timings : SetTiming(p, t[1], t[2])
    PROVE  AccountInv'
<1>1. UNCHANGED <<now, row, box, posts, ledger, job>>
  BY DEF Approve, Withdraw, Hold, Release, PreferNext, ClearPreference, SetTiming
<1>2. \A q \in Proposals : proposal[q].status = "closed" => proposal'[q].status = "closed"
  <2>1. proposal[p] \in ProposalType /\ proposal \in [Proposals -> ProposalType]
    BY DEF AccountTypeOK
  <2>2. CASE Approve(p) \/ Withdraw(p)
    BY <2>1, <2>2 DEF Approve, Withdraw, ProposalType
  <2>3. CASE Hold(p) \/ Release(p)
    BY <2>1, <2>3 DEF Hold, Release, ProposalType
  <2>4. CASE PreferNext(p) \/ ClearPreference(p)
    BY <2>1, <2>4 DEF PreferNext, ClearPreference, ProposalType
  <2>5. ASSUME NEW t \in Timings, SetTiming(p, t[1], t[2])
        PROVE  \A q \in Proposals : proposal[q].status = "closed" => proposal'[q].status = "closed"
    BY <2>1, <2>5 DEF SetTiming, ProposalType
  <2>6. QED
    BY <2>2, <2>3, <2>4, <2>5
<1>3. LedgerKnows'
  BY <1>1, <1>2 DEF AccountInv, LedgerKnows
<1>4. QED
  BY <1>1, <1>3, Frames DEF AccountInv

\* A post appears or is edited, or a container ends: nothing of the program's
\* tables changes.
LEMMA PostStep ==
    ASSUME AccountTypeOK, AccountInv, JobNames, UNCHANGED <<now, proposal, row, ledger, job>>,
           \/ \E m \in Manual, text \in Texts : PostByHand(m, text)
           \/ \E m \in Manual, p \in Proposals : EditPost(m, p)
           \/ \E p \in Proposals : Land(p) \/ ContainerEnds(p)
    PROVE  AccountInv'
<1> USE DEF AccountInv
<1>1. /\ posts \in [Ids -> PostType] /\ now \in Nat
      /\ Proposals \subseteq Ids /\ Manual \subseteq Ids /\ Proposals \cap Manual = {}
      /\ NoText \notin Texts /\ Proposals \subseteq Texts
  BY AccountAssumption DEF AccountTypeOK, Ids, Texts, Time
<1>2. \A i \in Ids : Public(i) => Public(i)' /\ posts'[i].at = posts[i].at
  <2>1. \A p \in Proposals : box[p] = "sent" => ~Public(p)
    BY DEF BoxTells, BoxTold
  <2>2. QED
    BY <1>1, <2>1 DEF PostByHand, EditPost, Land, ContainerEnds, Public, PostType
<1>3. ListedIsPublic'
  <2>1. now # NoTime /\ \A i \in Ids : posts[i].text # NoText => posts[i].at # NoTime
    BY <1>1 DEF NoTime, ListedIsPublic, Public
  <2>2. ASSUME NEW m \in Manual, NEW text \in Texts, PostByHand(m, text) PROVE ListedIsPublic'
    BY <1>1, <2>1, <2>2 DEF PostByHand, ListedIsPublic, Public
  <2>3. ASSUME NEW m \in Manual, NEW p \in Proposals, EditPost(m, p) PROVE ListedIsPublic'
    <3>1. Public(m)
      BY <1>1, <2>3 DEF EditPost, ListedIsPublic, Public, Texts, PostType
    <3>2. \A i \in Ids : i # m => posts'[i] = posts[i]
      BY <1>1, <2>3 DEF EditPost
    <3>3. QED
      BY <1>2, <2>1, <3>1, <3>2 DEF ListedIsPublic, Public
  <2>4. ASSUME NEW p \in Proposals, Land(p) PROVE ListedIsPublic'
    BY <1>1, <2>1, <2>4 DEF Land, ListedIsPublic, Public
  <2>5. CASE \E p \in Proposals : ContainerEnds(p)
    BY <2>5, Frames DEF ContainerEnds
  <2>6. QED
    BY <2>2, <2>3, <2>4, <2>5
<1>4. BoxTells'
  <2> SUFFICES ASSUME NEW q \in Proposals PROVE BoxTold(q)'
    BY DEF BoxTells
  <2>1. BoxTold(q)
    BY DEF BoxTells
  <2>2. CASE \E p \in Proposals : Land(p)
    <3>1. PICK p \in Proposals : Land(p)
      BY <2>2
    <3>2. CASE q = p
      <4>1. /\ box[q] = "sent" /\ box'[q] = "posted"
            /\ posts'[q].at = now /\ now # NoTime
        BY <1>1, <3>1, <3>2 DEF Land, AccountTypeOK, NoTime
      <4>2. QED
        BY <2>1, <4>1 DEF BoxTold, Public
    <3>3. CASE q # p
      BY <1>1, <2>1, <3>1, <3>3 DEF Land, BoxTold, Public, AccountTypeOK
    <3>4. QED
      BY <3>2, <3>3
  <2>3. CASE ~(\E p \in Proposals : Land(p))
    <3>1. posts'[q].at = posts[q].at /\ box'[q] \in {box[q], "ended"}
          /\ (box'[q] # box[q] => box[q] \in {"open", "sent"})
      BY <1>1, <2>3 DEF PostByHand, EditPost, ContainerEnds, AccountTypeOK, PostType
    <3>2. QED
      BY <2>1, <3>1 DEF BoxTold, Public
  <2>4. QED
    BY <2>2, <2>3
<1>5. JobKnows'
  <2>1. At("finish") /\ box[Mine] = "posted" => box'[Mine] = "posted"
    <3>1. At("finish") => Mine \in Proposals
      BY DEF JobNames, At, Working
    <3>2. QED
      BY <3>1 DEF PostByHand, EditPost, Land, ContainerEnds, AccountTypeOK
  <2>2. QED
    BY <1>2, <2>1 DEF JobKnows, At, Mine
<1>6. JobSaw'
  <2>1. \A m \in Manual : job.list[m] # NoText => posts'[m].at = posts[m].at
    BY <1>1, <1>2 DEF JobKnows
  <2>2. QED
    BY <2>1 DEF JobSaw, At, Mine
<1>7. QED
  BY <1>3, <1>4, <1>5, <1>6, Frames

\* An insight makes the ledger's row of a published post system.
LEMMA InsightStep ==
    ASSUME AccountTypeOK, AccountInv, NEW p \in Proposals, ObserveInsights(p)
    PROVE  AccountInv'
<1> USE DEF AccountInv
<1>1. /\ UNCHANGED <<now, proposal, row, box, posts, job>> /\ At("idle")
      /\ ledger'[p].origin = "system"
      /\ \A i \in Ids : i # p => ledger'[i] = ledger[i]
      /\ p \in Ids /\ p \notin Manual /\ Proposals \subseteq Ids /\ Manual \subseteq Ids
  BY AccountAssumption DEF ObserveInsights, AccountTypeOK, Ids
<1>2. OursIsKnown' /\ LedgerKnows'
  BY <1>1 DEF OursIsKnown, LedgerKnows
<1>3. JobSaw'
  BY <1>1 DEF JobSaw, At, Working
<1>4. QED
  BY <1>1, <1>2, <1>3, Frames

LEMMA TickStep ==
    ASSUME AccountTypeOK, AccountInv, JobNames, Tick PROVE AccountInv'
<1> USE DEF AccountInv
<1>1. /\ UNCHANGED <<proposal, row, box, posts, ledger, job>>
      /\ now \in Nat /\ now' = now + 1 /\ job.start \in Nat
      /\ \A q \in Proposals : row[q].started \in Int
  BY AccountAssumption DEF Tick, AccountTypeOK, Time, JobType, RowType, Stamp, NoTime
<1>2. BoxTells'
  BY <1>1 DEF BoxTells, BoxTold, Public
<1>3. At("create") => row[Mine].started \in Int
  <2>1. At("create") => Mine \in Proposals
    BY DEF JobNames, At, Working
  <2>2. QED
    BY <1>1, <2>1
<1>4. JobKnows'
  BY <1>1, <1>3 DEF JobKnows, At, Mine, Public
<1>5. QED
  BY <1>1, <1>2, <1>4, Frames

\* The invariant is kept by every step.
LEMMA InvStep ==
    ASSUME AccountTypeOK, AccountInv, JobNames, [Next]_vars PROVE AccountInv'
<1>1. CASE UNCHANGED vars
  BY <1>1, Frames DEF vars, AccountInv
<1>2. CASE \/ Discover \/ List \/ GiveUp \/ Reevaluate \/ Preflight \/ Crash
           \/ \E lane \in {"article", "growth"}, p \in Proposals : Evaluate(lane, p)
  <2>1. UNCHANGED <<now, proposal, row, box, posts, ledger>>
    BY <1>2 DEF Discover, List, GiveUp, Reevaluate, Preflight, Crash, Evaluate
  <2>2. QED
    BY <1>2, <2>1, QuietStep, Frames DEF AccountInv
<1>3. CASE Claim \/ Create \/ CreateFails \/ Send \/ Answer \/ Finish \/ Lost
  BY <1>3, PublicationStep
<1>4. CASE Store
  BY <1>4, StoreStep
<1>5. CASE \E p \in Proposals : ObserveInsights(p)
  BY <1>5, InsightStep
<1>6. CASE \E p \in Proposals : ReconcilePublication(p)
  BY <1>6, ReconcileStep
<1>7. CASE \E p \in Proposals :
              \/ Approve(p) \/ Withdraw(p) \/ Hold(p) \/ Release(p)
              \/ PreferNext(p) \/ ClearPreference(p)
              \/ \E t \in Timings : SetTiming(p, t[1], t[2])
  BY <1>7, DecisionStep
<1>8. CASE \/ \E m \in Manual, text \in Texts : PostByHand(m, text)
           \/ \E m \in Manual, p \in Proposals : EditPost(m, p)
           \/ \E p \in Proposals : Land(p) \/ ContainerEnds(p)
  <2>1. UNCHANGED <<now, proposal, row, ledger, job>>
    BY <1>8 DEF PostByHand, EditPost, Land, ContainerEnds
  <2>2. QED
    BY <1>8, <2>1, PostStep
<1>9. CASE Tick
  BY <1>9, TickStep
<1>10. QED
  BY <1>1, <1>2, <1>3, <1>4, <1>5, <1>6, <1>7, <1>8, <1>9
  DEF Next, Worker, People, Threads

\* What the worker knows of its row, its listing and the ledger is true.
THEOREM AccountInvariant == Spec => [](AccountTypeOK /\ JobNames /\ AccountInv)
<1>1. Init => AccountTypeOK /\ JobNames /\ AccountInv
  BY TypeInit, InvInit
<1>2. AccountTypeOK /\ JobNames /\ AccountInv /\ [Next]_vars
         => (AccountTypeOK /\ JobNames /\ AccountInv)'
  BY TypeStep, InvStep
<1>3. QED
  BY <1>1, <1>2, PTL DEF Spec

\* A post of the program is in the ledger as manual only when its publication
\* was settled by reconciliation.
THEOREM OursIsKnownCorrect == Spec => []OursIsKnown
<1>1. AccountInv => OursIsKnown
  BY DEF AccountInv
<1>2. QED
  BY <1>1, AccountInvariant, PTL

\* Only the worker's claim begins a publication.
LEMMA BeginsByClaim ==
    ASSUME AccountTypeOK, JobNames, [Next]_vars, NEW p \in Proposals, Begins(p)
    PROVE  Claim /\ p = Mine
<1> USE DEF Begins, InFlight, AccountTypeOK
<1>1. row'[p] # row[p] /\ row'[p].status = "creating" /\ row[p] \in RowType
  BY DEF RowType
<1>2. row' # row
  BY <1>1
<1>3. CASE Claim
  <2>1. Mine \in Proposals
    BY <1>3 DEF Claim, At, JobNames, Working
  <2>2. QED
    BY <1>1, <1>3, <2>1 DEF Claim, SetRow
<1>4. CASE Create \/ CreateFails \/ Answer \/ Finish \/ Lost
  <2>1. Mine \in Proposals
    BY <1>4 DEF Create, CreateFails, Answer, Finish, Lost, At, JobNames, Working
  <2>2. p = Mine
    BY <1>1, <1>4, <2>1 DEF Create, CreateFails, Answer, Finish, Lost, SetRow
  <2>3. row'[p].status \in {row[p].status, "publishing", "failed", "published", "uncertain"}
    <3>1. CASE Create \/ CreateFails \/ Answer \/ Lost
      BY <1>1, <2>1, <2>2, <3>1 DEF Create, CreateFails, Answer, Lost, SetRow, RowType
    <3>2. CASE Finish
      <4>1. PICK t : SetRow([row[Mine] EXCEPT !.status = "published", !.basis = t])
        BY <3>2 DEF Finish
      <4>2. QED
        BY <1>1, <2>1, <2>2, <4>1 DEF SetRow, RowType
    <3>3. QED
      BY <1>4, <3>1, <3>2
  <2>4. QED
    BY <2>3
<1>5. ASSUME NEW q \in Proposals, ReconcilePublication(q) PROVE FALSE
  <2>1. q = p
    BY <1>1, <1>5 DEF ReconcilePublication
  <2>2. row'[p].status \in {"published", "failed", row[p].status}
    BY <1>1, <1>5, <2>1 DEF ReconcilePublication, RowType
  <2>3. QED
    BY <2>2
<1>6. QED
  BY <1>2, <1>3, <1>4, <1>5
  DEF Next, Worker, People, Threads, vars, Discover, Evaluate, List, GiveUp, Store, Reevaluate,
      Preflight, Send, Crash, ObserveInsights, Approve, Withdraw, Hold, Release, PreferNext,
      ClearPreference, SetTiming, PostByHand, EditPost, Land, ContainerEnds, Tick

\* A publication is not begun for a text the ledger knows as manual, except
\* for an origin that is unknown or an earlier attempt that failed.
THEOREM DuplicatesAreExplainedCorrect == Spec => DuplicatesAreExplained
<1> DEFINE Explained ==
      \A p \in Proposals : Begins(p) =>
         \A m \in Manual : ledger[m].text = p =>
             ledger[m].origin = "unknown" \/ row[p].status = "failed"
<1>1. AccountTypeOK /\ JobNames /\ AccountInv /\ [Next]_vars => [Explained]_vars
  <2> SUFFICES ASSUME AccountTypeOK, JobNames, AccountInv, [Next]_vars,
                      NEW p \in Proposals, Begins(p),
                      NEW m \in Manual, ledger[m].text = p
               PROVE  ledger[m].origin = "unknown" \/ row[p].status = "failed"
    OBVIOUS
  <2>1. Claim /\ p = Mine /\ At("claim")
    BY BeginsByClaim DEF Claim
  <2>2. row[p].status \in {"none", "failed"}
    BY <2>1 DEF AccountInv, JobKnows
  <2>3. m \in Ids /\ p # NoText
    BY AccountAssumption DEF Ids, Texts
  <2>4. ledger[m].origin \in {"manual", "unknown"}
    BY <2>3 DEF AccountTypeOK, EntryType, AccountInv, LedgerKnows
  <2>5. ledger[m].origin = "manual" => row[p].status # "none"
    BY <2>1 DEF AccountInv, JobSaw
  <2>6. QED
    BY <2>2, <2>4, <2>5
<1>2. QED
  BY <1>1, AccountInvariant, PTL DEF Spec, DuplicatesAreExplained

\* No publication is begun within the cooldown of a post by hand that its
\* listing saw.
THEOREM ManualKeepsDistanceCorrect == Spec => ManualKeepsDistance
<1> DEFINE Distant ==
      \A p \in Proposals : Begins(p) =>
         \A m \in Manual : job.list[m] # NoText => now >= posts[m].at + Cooldown
<1>1. AccountTypeOK /\ JobNames /\ AccountInv /\ [Next]_vars => [Distant]_vars
  <2> SUFFICES ASSUME AccountTypeOK, JobNames, AccountInv, [Next]_vars,
                      NEW p \in Proposals, Begins(p),
                      NEW m \in Manual, job.list[m] # NoText
               PROVE  now >= posts[m].at + Cooldown
    OBVIOUS
  <2>1. At("claim")
    BY BeginsByClaim DEF Claim
  <2>2. job.start >= posts[m].at + Cooldown /\ job.start <= now
    BY <2>1 DEF AccountInv, JobSaw, JobKnows, At
  <2>3. posts[m].at \in Int /\ job.start \in Int /\ now \in Int /\ Cooldown \in Int
    BY AccountAssumption
    DEF AccountTypeOK, Ids, PostType, JobType, Stamp, Time, NoTime
  <2>4. QED
    BY <2>2, <2>3
<1>2. QED
  BY <1>1, AccountInvariant, PTL DEF Spec, ManualKeepsDistance

==============================================================================
