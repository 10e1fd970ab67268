---------------------- MODULE ThreadsPublication_proofs ----------------------
(***************************************************************************)
(* Proofs about ThreadsPublication, for any proposals, processes,          *)
(* containers, gap, retries and length of the run.                         *)
(***************************************************************************)
EXTENDS ThreadsPublication, TLAPS

\* The steps at which a process holds a container id it will use.
Asking == {"fetch_status", "store_creation", "set_container_created",
           "set_publishing", "send_publish", "await_publish"}

\* TypeOK; a process at work is at work on a proposal, and what it asks the
\* Threads service about is a container.
TypeInv ==
    /\ TypeOK
    /\ \A w \in Workers :
          /\ ~At(w, "idle") => op[w].prop \in Proposals
          /\ op[w].pc \in Asking => op[w].creation \in Containers
          /\ At(w, "readback") => op[w].media \in Containers

-----------------------------------------------------------------------------
(* Types.                                                                   *)

LEMMA IdleType == Idle \in OpType /\ EmptyRow \in RowType
  BY ConstantsAssumption
  DEF Idle, OpType, PCs, Time, BoxStatus, EmptyRow, RowType, Stamp, NoTime

LEMMA InitTypes == Init => TypeInv
  BY IdleType, ConstantsAssumption
  DEF Init, TypeInv, TypeOK, NoBox, At, Time, Stamp, NoTime, BoxType,
      BoxStatus, Idle, Asking

\* Replacing what a process is doing by something of the right type.
LEMMA SetOp ==
    ASSUME op \in [Workers -> OpType], NEW w \in Workers, NEW r \in OpType,
           op' = [op EXCEPT ![w] = r]
    PROVE  /\ op' \in [Workers -> OpType]
           /\ op'[w] = r
           /\ \A v \in Workers \ {w} : op'[v] = op[v]
  OBVIOUS

\* Moving on to the next step changes nothing else.
LEMMA GotoKeeps ==
    ASSUME op \in [Workers -> OpType], NEW w \in Workers, NEW l \in PCs,
           Goto(w, l)
    PROVE  /\ op' \in [Workers -> OpType]
           /\ op'[w] = [op[w] EXCEPT !.pc = l]
           /\ op'[w].pc = l
           /\ op'[w].prop = op[w].prop
           /\ op'[w].creation = op[w].creation
           /\ op'[w].media = op[w].media
           /\ op'[w].seen = op[w].seen
           /\ \A v \in Workers \ {w} : op'[v] = op[v]
  BY DEF Goto, OpType

\* Returning forgets everything.
LEMMA ReturnKeeps ==
    ASSUME op \in [Workers -> OpType], NEW w \in Workers, Return(w)
    PROVE  /\ op' \in [Workers -> OpType]
           /\ op'[w] = Idle
           /\ op'[w].pc = "idle"
           /\ \A v \in Workers \ {w} : op'[v] = op[v]
  BY IdleType DEF Return, Idle

\* A process writes its own proposal's row.
LEMMA SetMineKeeps ==
    ASSUME row \in [Proposals -> RowType], NEW w \in Workers,
           op[w].prop \in Proposals, NEW r \in RowType, SetMine(w, r)
    PROVE  /\ row' \in [Proposals -> RowType]
           /\ row'[op[w].prop] = r
           /\ \A p \in Proposals \ {op[w].prop} : row'[p] = row[p]
  BY DEF SetMine

\* The clock of an operation shows a time that has come.
LEMMA OpNowIsTime ==
    ASSUME TypeInv, NEW w \in Workers, NEW t \in OpNow(w)
    PROVE  t \in Time /\ t <= now /\ t + MaxLag >= now
  <1>1. op[w].start \in Time /\ now \in Time
    BY DEF TypeInv, TypeOK, OpType
  <1>q. QED BY <1>1, ConstantsAssumption DEF OpNow, Time

\* Every start of an operation keeps the types.
LEMMA StartTypes ==
    ASSUME TypeInv, NEW w \in Workers, Start(w)
    PROVE  TypeInv'
  <1>0. op \in [Workers -> OpType] /\ row \in [Proposals -> RowType]
    BY DEF TypeInv, TypeOK
  <1>1. ASSUME NEW p \in Proposals, NEW t \in CycleTimes, NEW b \in BOOLEAN,
               Plan(w, p, t, b)
        PROVE  TypeInv'
    <2> DEFINE r == [Idle EXCEPT !.pc = "claim", !.prop = p, !.start = t,
                        !.override = p \in Articles /\ ~GapElapsed(p, t)]
    <2>0. t \in Time
      BY ConstantsAssumption DEF CycleTimes, Time, TypeInv, TypeOK
    <2>1. r \in OpType /\ r.prop = p /\ r.pc = "claim"
      <3>1. \A x \in BOOLEAN :
              LET i == [Idle EXCEPT !.pc = "claim", !.prop = p, !.start = t,
                                    !.override = x]
              IN  i \in OpType /\ i.prop = p /\ i.pc = "claim"
        BY <2>0, IdleType DEF Idle, OpType, PCs
      <3>2. (p \in Articles /\ ~GapElapsed(p, t)) \in BOOLEAN
        OBVIOUS
      <3>q. QED BY <3>1, <3>2
    <2>2. op' = [op EXCEPT ![w] = r] /\ UNCHANGED <<now, row, box, sent>>
      BY <1>1 DEF Plan
    <2> HIDE DEF r
    <2>3. op' \in [Workers -> OpType] /\ op'[w] = r
          /\ \A v \in Workers \ {w} : op'[v] = op[v]
      BY <2>1, <2>2, <1>0, SetOp
    <2>q. QED BY <2>1, <2>2, <2>3 DEF TypeInv, TypeOK, At, Asking
  <1>2. ASSUME NEW p \in Proposals, ReconcileStart(w, p)
        PROVE  TypeInv'
    <2> DEFINE l == IF row[p].creation = NoContainer THEN "no_container"
                                                     ELSE "fetch_status"
               r == [Idle EXCEPT !.pc = l, !.prop = p, !.start = now,
                        !.creation = row[p].creation, !.media = row[p].media]
    <2>0. /\ row[p].creation \in Containers \cup {NoContainer}
          /\ row[p].media \in Containers \cup {NoContainer}
          /\ now \in Time
      BY <1>0 DEF RowType, TypeInv, TypeOK
    <2>a. \/ l = "no_container"
          \/ l = "fetch_status" /\ row[p].creation # NoContainer
      OBVIOUS
    <2>1. /\ r \in OpType /\ r.prop = p
          /\ \/ r.pc = "no_container"
             \/ r.pc = "fetch_status" /\ r.creation \in Containers
      <3> HIDE DEF l
      <3>q. QED BY <2>0, <2>a, IdleType DEF Idle, OpType, PCs
    <2>2. op' = [op EXCEPT ![w] = r] /\ UNCHANGED <<now, row, box, sent>>
      BY <1>2 DEF ReconcileStart
    <2> HIDE DEF r
    <2>3. op' \in [Workers -> OpType] /\ op'[w] = r
          /\ \A v \in Workers \ {w} : op'[v] = op[v]
      BY <2>1, <2>2, <1>0, SetOp
    <2>q. QED BY <2>1, <2>2, <2>3 DEF TypeInv, TypeOK, At, Asking
  <1>q. QED BY <1>1, <1>2 DEF Start

\* Every step of a process that is at work keeps the types.
LEMMA StepTypes ==
    ASSUME TypeInv, NEW w \in Workers,
           PublishStep(w) \/ ReconcileStep(w) \/ Crash(w)
    PROVE  TypeInv'
  <1>0. /\ op \in [Workers -> OpType] /\ row \in [Proposals -> RowType]
        /\ box \in [Containers -> BoxType] /\ sent \subseteq Containers
        /\ now \in Time
    BY DEF TypeInv, TypeOK
  <1>1. ~At(w, "idle") /\ op[w].prop \in Proposals
    BY DEF TypeInv, At, PublishStep, ReconcileStep, Crash, Claim, ClaimRefused,
           RecordTrigger, SetCreating, CreateSucceeds, CreateFails,
           FlagTopicRejected, StoreCreation, SetContainerCreated, SetPublishing,
           SendPublish, PublishSucceeds, PublishUnclear, SetUncertain,
           FinishPublished, Readback, FlagMismatch, FetchStatus, StoreReconcile,
           SetFailed
  <1>2. Mine(w) \in RowType /\ op[w] \in OpType
    BY <1>0, <1>1 DEF Mine
  <1> DEFINE
        RowOK == row' \in [Proposals -> RowType]
        OpOK  == /\ op' \in [Workers -> OpType]
                 /\ \A v \in Workers \ {w} : op'[v] = op[v]
                 /\ op'[w].pc # "idle" => op'[w].prop \in Proposals
                 /\ op'[w].pc \in Asking => op'[w].creation \in Containers
                 /\ op'[w].pc = "readback" => op'[w].media \in Containers
  <1>3. ASSUME RowOK, OpOK, UNCHANGED <<now, box>>, sent' \subseteq Containers
        PROVE  TypeInv'
    BY <1>0, <1>3 DEF TypeInv, TypeOK, At
  <1>4. ASSUME Return(w) PROVE OpOK
    BY <1>0, <1>4, ReturnKeeps DEF Asking
  <1>5. ASSUME NEW l \in PCs, Goto(w, l),
               l \in Asking => op[w].creation \in Containers,
               l = "readback" => op[w].media \in Containers
        PROVE  OpOK
    BY <1>0, <1>1, <1>5, GotoKeeps
  <1>6. ASSUME NEW r \in RowType, SetMine(w, r) PROVE RowOK
    BY <1>0, <1>1, <1>6, SetMineKeeps
  <1>7. UNCHANGED row => RowOK
    BY <1>0
  <1>8. /\ op[w].pc \in Asking => op[w].creation \in Containers
        /\ At(w, "readback") => op[w].media \in Containers
    BY DEF TypeInv
  <1>9. op[w].media # NoContainer => op[w].media \in Containers
    BY <1>2 DEF OpType
  <1> HIDE DEF RowOK, OpOK
  <1>11. CASE RecordTrigger(w)
    <2>1. [Mine(w) EXCEPT !.override = op[w].override] \in RowType
      BY <1>2, <1>11, IdleType DEF RecordTrigger, RowType, InFlight, Retryable, Stamp, Time, TypeInv, TypeOK, OpType, BoxType
    <2>2. RowOK
      BY <2>1, <1>11, <1>6 DEF RecordTrigger
    <2>3. OpOK
      BY <1>11, <1>4, <1>5, <1>8, <1>9 DEF RecordTrigger, PCs, Asking, At
    <2>q. QED BY <2>2, <2>3, <1>0, <1>3, <1>11 DEF RecordTrigger
  <1>12. CASE SetCreating(w)
    <2>1. [Mine(w) EXCEPT !.status = "creating"] \in RowType
      BY <1>2, <1>12, IdleType DEF SetCreating, RowType, InFlight, Retryable, Stamp, Time, TypeInv, TypeOK, OpType, BoxType
    <2>2. RowOK
      BY <2>1, <1>12, <1>6 DEF SetCreating
    <2>3. OpOK
      BY <1>12, <1>4, <1>5, <1>8, <1>9 DEF SetCreating, PCs, Asking, At
    <2>q. QED BY <2>2, <2>3, <1>0, <1>3, <1>12 DEF SetCreating
  <1>13. CASE CreateFails(w)
    <2>1. [Mine(w) EXCEPT !.status = "failed"] \in RowType
      BY <1>2, <1>13, IdleType DEF CreateFails, RowType, InFlight, Retryable, Stamp, Time, TypeInv, TypeOK, OpType, BoxType
    <2>2. RowOK
      BY <2>1, <1>13, <1>6 DEF CreateFails
    <2>3. OpOK
      BY <1>13, <1>4, <1>5, <1>8, <1>9 DEF CreateFails, PCs, Asking, At
    <2>q. QED BY <2>2, <2>3, <1>0, <1>3, <1>13 DEF CreateFails
  <1>14. CASE FlagTopicRejected(w)
    <2>1. [Mine(w) EXCEPT !.recon = TRUE] \in RowType
      BY <1>2, <1>14, IdleType DEF FlagTopicRejected, RowType, InFlight, Retryable, Stamp, Time, TypeInv, TypeOK, OpType, BoxType
    <2>2. RowOK
      BY <2>1, <1>14, <1>6 DEF FlagTopicRejected
    <2>3. OpOK
      BY <1>14, <1>4, <1>5, <1>8, <1>9 DEF FlagTopicRejected, PCs, Asking, At
    <2>q. QED BY <2>2, <2>3, <1>0, <1>3, <1>14 DEF FlagTopicRejected
  <1>15. CASE StoreCreation(w)
    <2>1. [Mine(w) EXCEPT !.creation = op[w].creation] \in RowType
      BY <1>2, <1>15, IdleType DEF StoreCreation, RowType, InFlight, Retryable, Stamp, Time, TypeInv, TypeOK, OpType, BoxType
    <2>2. RowOK
      BY <2>1, <1>15, <1>6 DEF StoreCreation
    <2>3. OpOK
      BY <1>15, <1>4, <1>5, <1>8, <1>9 DEF StoreCreation, PCs, Asking, At
    <2>q. QED BY <2>2, <2>3, <1>0, <1>3, <1>15 DEF StoreCreation
  <1>16. CASE SetContainerCreated(w)
    <2>1. [Mine(w) EXCEPT !.status = "container_created"] \in RowType
      BY <1>2, <1>16, IdleType DEF SetContainerCreated, RowType, InFlight, Retryable, Stamp, Time, TypeInv, TypeOK, OpType, BoxType
    <2>2. RowOK
      BY <2>1, <1>16, <1>6 DEF SetContainerCreated
    <2>3. OpOK
      BY <1>16, <1>4, <1>5, <1>8, <1>9 DEF SetContainerCreated, PCs, Asking, At
    <2>q. QED BY <2>2, <2>3, <1>0, <1>3, <1>16 DEF SetContainerCreated
  <1>17. CASE PublishUnclear(w)
    <2>2. RowOK
      BY <1>17, <1>7 DEF PublishUnclear
    <2>3. OpOK
      BY <1>17, <1>4, <1>5, <1>8, <1>9 DEF PublishUnclear, PCs, Asking, At
    <2>q. QED BY <2>2, <2>3, <1>0, <1>3, <1>17 DEF PublishUnclear
  <1>18. CASE SetUncertain(w)
    <2>1. [Mine(w) EXCEPT !.status = "uncertain"] \in RowType
      BY <1>2, <1>18, IdleType DEF SetUncertain, RowType, InFlight, Retryable, Stamp, Time, TypeInv, TypeOK, OpType, BoxType
    <2>2. RowOK
      BY <2>1, <1>18, <1>6 DEF SetUncertain
    <2>3. OpOK
      BY <1>18, <1>4, <1>5, <1>8, <1>9 DEF SetUncertain, PCs, Asking, At
    <2>q. QED BY <2>2, <2>3, <1>0, <1>3, <1>18 DEF SetUncertain
  <1>19. CASE FinishPublished(w)
    <2>1. [Mine(w) EXCEPT !.status = "published", !.publishedAt = op[w].start] \in RowType
      BY <1>2, <1>19, IdleType DEF FinishPublished, RowType, InFlight, Retryable, Stamp, Time, TypeInv, TypeOK, OpType, BoxType
    <2>2. RowOK
      BY <2>1, <1>19, <1>6 DEF FinishPublished
    <2>3. OpOK
      BY <1>19, <1>4, <1>5, <1>8, <1>9 DEF FinishPublished, PCs, Asking, At
    <2>q. QED BY <2>2, <2>3, <1>0, <1>3, <1>19 DEF FinishPublished
  <1>20. CASE FlagMismatch(w)
    <2>1. [Mine(w) EXCEPT !.recon = TRUE] \in RowType
      BY <1>2, <1>20, IdleType DEF FlagMismatch, RowType, InFlight, Retryable, Stamp, Time, TypeInv, TypeOK, OpType, BoxType
    <2>2. RowOK
      BY <2>1, <1>20, <1>6 DEF FlagMismatch
    <2>3. OpOK
      BY <1>20, <1>4, <1>5, <1>8, <1>9 DEF FlagMismatch, PCs, Asking, At
    <2>q. QED BY <2>2, <2>3, <1>0, <1>3, <1>20 DEF FlagMismatch
  <1>21. CASE StoreReconcile(w)
    <2>0. PICK t \in OpNow(w) :
             SetMine(w, [Mine(w) EXCEPT !.reconciledAt =
                           Later(Mine(w).reconciledAt, t)])
      BY <1>21 DEF StoreReconcile
    <2>1. [Mine(w) EXCEPT !.reconciledAt = Later(Mine(w).reconciledAt, t)] \in RowType
      BY <1>2, OpNowIsTime DEF RowType, Stamp, Later
    <2>2. RowOK
      BY <2>0, <2>1, <1>6
    <2>3. OpOK
      BY <1>21, <1>4, <1>5, <1>8, <1>9 DEF StoreReconcile, PCs, Asking, At
    <2>q. QED BY <2>2, <2>3, <1>0, <1>3, <1>21 DEF StoreReconcile
  <1>22. CASE SetFailed(w)
    <2>1. [Mine(w) EXCEPT !.status = "failed"] \in RowType
      BY <1>2, <1>22, IdleType DEF SetFailed, RowType, InFlight, Retryable, Stamp, Time, TypeInv, TypeOK, OpType, BoxType
    <2>2. RowOK
      BY <2>1, <1>22, <1>6 DEF SetFailed
    <2>3. OpOK
      BY <1>22, <1>4, <1>5, <1>8, <1>9 DEF SetFailed, PCs, Asking, At
    <2>q. QED BY <2>2, <2>3, <1>0, <1>3, <1>22 DEF SetFailed
  <1>23. CASE ClaimRefused(w)
    <2>2. RowOK
      BY <1>23, <1>7 DEF ClaimRefused
    <2>3. OpOK
      BY <1>23, <1>4, <1>5, <1>8, <1>9 DEF ClaimRefused, PCs, Asking, At
    <2>q. QED BY <2>2, <2>3, <1>0, <1>3, <1>23 DEF ClaimRefused
  <1>24. CASE Crash(w)
    <2>2. RowOK
      BY <1>24, <1>7 DEF Crash
    <2>3. OpOK
      BY <1>24, <1>4, <1>5, <1>8, <1>9 DEF Crash, PCs, Asking, At
    <2>q. QED BY <2>2, <2>3, <1>0, <1>3, <1>24 DEF Crash
  <1>30. CASE Claim(w)
    <2>1. ASSUME SetMine(w, [EmptyRow EXCEPT !.status = "planned"])
          PROVE  RowOK
      <3>1. [EmptyRow EXCEPT !.status = "planned"] \in RowType
        BY IdleType DEF RowType, InFlight, Retryable
      <3>q. QED BY <2>1, <3>1, <1>6
    <2>2. ASSUME Mine(w).retries < MaxRetries,
                 SetMine(w, [Mine(w) EXCEPT !.status = "planned", !.retries = @ + 1])
          PROVE  RowOK
      <3>1. Mine(w).retries \in 0 .. MaxRetries
        BY <1>2 DEF RowType
      <3>2. Mine(w).retries + 1 \in 0 .. MaxRetries
        BY <3>1, <2>2, ConstantsAssumption
      <3>3. [Mine(w) EXCEPT !.status = "planned", !.retries = @ + 1] \in RowType
        BY <1>2, <3>2 DEF RowType, InFlight, Retryable
      <3>q. QED BY <2>2, <3>3, <1>6
    <2>3. RowOK
      BY <2>1, <2>2, <1>30 DEF Claim
    <2>4. OpOK
      BY <1>30, <1>5 DEF Claim, PCs, Asking
    <2>q. QED BY <2>3, <2>4, <1>0, <1>3, <1>30 DEF Claim
  <1>31. ASSUME NEW c \in Containers, CreateSucceeds(w, c)
         PROVE  TypeInv'
    <2>1. [owner |-> op[w].prop, status |-> "open", at |-> NoTime] \in BoxType
      BY <1>1 DEF BoxType, BoxStatus, Stamp
    <2>2. box' \in [Containers -> BoxType]
      BY <2>1, <1>0, <1>31 DEF CreateSucceeds
    <2> DEFINE r == [op[w] EXCEPT !.pc = "store_creation", !.creation = c]
    <2>3. r \in OpType /\ r.prop = op[w].prop /\ r.pc = "store_creation"
          /\ r.creation = c
      BY <1>2 DEF OpType, PCs
    <2>4. op' = [op EXCEPT ![w] = r]
      BY <1>0, <1>31 DEF CreateSucceeds
    <2> HIDE DEF r
    <2>5. op' \in [Workers -> OpType] /\ op'[w] = r
          /\ \A v \in Workers \ {w} : op'[v] = op[v]
      BY <2>3, <2>4, <1>0, SetOp
    <2>q. QED BY <2>2, <2>3, <2>5, <1>0, <1>1, <1>31
              DEF CreateSucceeds, TypeInv, TypeOK, At, Asking
  <1>32. CASE SetPublishing(w)
    <2>1. [Mine(w) EXCEPT !.status = "publishing"] \in RowType
      BY <1>2 DEF RowType, InFlight
    <2>2. RowOK
      BY <2>1, <1>32, <1>6 DEF SetPublishing
    <2>3. op[w].creation \in Containers
      BY <1>32 DEF SetPublishing, TypeInv, At, Asking
    <2>4. OpOK
      BY <2>3, <1>32, <1>5 DEF SetPublishing, PCs, Asking
    <2>q. QED BY <2>2, <2>4, <1>0, <1>3, <1>32 DEF SetPublishing
  <1>33. CASE SendPublish(w)
    <2>1. op[w].creation \in Containers
      BY <1>33 DEF SendPublish, TypeInv, At, Asking
    <2>2. RowOK
      BY <1>33, <1>7 DEF SendPublish
    <2>3. OpOK
      BY <2>1, <1>33, <1>5 DEF SendPublish, PCs, Asking
    <2>q. QED BY <2>1, <2>2, <2>3, <1>0, <1>3, <1>33 DEF SendPublish
  <1>34. CASE PublishSucceeds(w)
    <2>1. op[w].creation \in Containers
      BY <1>34 DEF PublishSucceeds, TypeInv, At, Asking
    <2>a. PICK t \in OpNow(w) :
             SetMine(w, [Mine(w) EXCEPT !.media = op[w].creation, !.returnedAt = t])
      BY <1>34 DEF PublishSucceeds
    <2>2. [Mine(w) EXCEPT !.media = op[w].creation, !.returnedAt = t] \in RowType
      BY <2>1, <1>0, <1>2, OpNowIsTime DEF RowType, Stamp
    <2>3. RowOK
      BY <2>a, <2>2, <1>6
    <2> DEFINE r == [op[w] EXCEPT !.pc = "finish", !.media = op[w].creation]
    <2>4. r \in OpType /\ r.prop = op[w].prop /\ r.pc = "finish"
      BY <2>1, <1>2 DEF OpType, PCs
    <2>5. op' = [op EXCEPT ![w] = r]
      BY <1>0, <1>34 DEF PublishSucceeds
    <2> HIDE DEF r
    <2>6. op' \in [Workers -> OpType] /\ op'[w] = r
          /\ \A v \in Workers \ {w} : op'[v] = op[v]
      BY <2>4, <2>5, <1>0, SetOp
    <2>7. OpOK
      BY <2>4, <2>6, <1>1 DEF OpOK, Asking
    <2>q. QED BY <2>3, <2>7, <1>0, <1>3, <1>34 DEF PublishSucceeds
  <1>35. CASE Readback(w)
    <2>1. op[w].media \in Containers
      BY <1>35 DEF Readback, TypeInv, At
    <2>2. PICK t \in {box[op[w].media].at, NoTime} :
             SetMine(w, [Mine(w) EXCEPT !.remoteAt = t])
      BY <1>35 DEF Readback
    <2>3. [Mine(w) EXCEPT !.remoteAt = t] \in RowType
      BY <2>1, <2>2, <1>0, <1>2 DEF RowType, BoxType, Stamp
    <2>4. RowOK
      BY <2>2, <2>3, <1>6
    <2>5. OpOK
      BY <1>35, <1>4, <1>5, <1>8, <1>9 DEF Readback, PCs, Asking, At
    <2>q. QED BY <2>4, <2>5, <1>0, <1>3, <1>35 DEF Readback
  <1>36. CASE FetchStatus(w)
    <2>1. op[w].creation \in Containers
      BY <1>36 DEF FetchStatus, TypeInv, At, Asking
    <2> DEFINE r == [op[w] EXCEPT !.pc = "store_reconcile",
                                  !.seen = box[op[w].creation].status]
    <2>2. r \in OpType /\ r.prop = op[w].prop /\ r.pc = "store_reconcile"
      BY <2>1, <1>0, <1>2 DEF OpType, PCs, BoxType
    <2>3. op' = [op EXCEPT ![w] = r]
      BY <1>0, <1>36 DEF FetchStatus
    <2> HIDE DEF r
    <2>4. op' \in [Workers -> OpType] /\ op'[w] = r
          /\ \A v \in Workers \ {w} : op'[v] = op[v]
      BY <2>2, <2>3, <1>0, SetOp
    <2>5. OpOK
      BY <2>2, <2>4, <1>1 DEF OpOK, Asking
    <2>q. QED BY <2>5, <1>0, <1>3, <1>7, <1>36 DEF FetchStatus
  <1>q. QED
    BY <1>11, <1>12, <1>13, <1>14, <1>15, <1>16, <1>17, <1>18, <1>19, <1>20, <1>21, <1>22, <1>23, <1>24, <1>30, <1>31, <1>32, <1>33,
       <1>34, <1>35, <1>36
    DEF PublishStep, ReconcileStep

\* The Threads service and the clock keep the types.
LEMMA EnvironmentTypes == TypeInv /\ Environment => TypeInv'
  <1> SUFFICES ASSUME TypeInv, Environment PROVE TypeInv'
    OBVIOUS
  <1>1. ASSUME NEW c \in Containers, ServerPublishes(c)
        PROVE  TypeInv'
    <2>1. [box[c] EXCEPT !.status = "published", !.at = now] \in BoxType
      BY DEF TypeInv, TypeOK, BoxType, BoxStatus, Stamp
    <2>2. box' \in [Containers -> BoxType] /\ sent' \subseteq Containers
      BY <2>1, <1>1 DEF TypeInv, TypeOK, ServerPublishes
    <2>q. QED BY <2>2, <1>1 DEF TypeInv, TypeOK, ServerPublishes, At
  <1>2. ASSUME NEW c \in Containers, ServerDrops(c)
        PROVE  TypeInv'
    BY <1>2 DEF TypeInv, TypeOK, ServerDrops, At
  <1>3. ASSUME NEW c \in Containers, ContainerEnds(c)
        PROVE  TypeInv'
    <2>1. [box[c] EXCEPT !.status = "ended"] \in BoxType
      BY DEF TypeInv, TypeOK, BoxType, BoxStatus
    <2>2. box' \in [Containers -> BoxType]
      BY <2>1, <1>3 DEF TypeInv, TypeOK, ContainerEnds
    <2>q. QED BY <2>2, <1>3 DEF TypeInv, TypeOK, ContainerEnds, At
  <1>4. CASE Tick
    BY <1>4, ConstantsAssumption DEF TypeInv, TypeOK, Tick, Time, At
  <1>q. QED BY <1>1, <1>2, <1>3, <1>4 DEF Environment

LEMMA NextTypes == TypeInv /\ [Next]_vars => TypeInv'
  <1> SUFFICES ASSUME TypeInv, [Next]_vars PROVE TypeInv'
    OBVIOUS
  <1>1. CASE UNCHANGED vars
    BY <1>1 DEF vars, TypeInv, TypeOK, At
  <1>2. CASE Next
    BY <1>2, StartTypes, StepTypes, EnvironmentTypes DEF Next
  <1>q. QED BY <1>1, <1>2

\* Every variable of threads_publication_service.py's model keeps its type in
\* every run, serialised or not.
THEOREM TypeCorrect == Spec => []TypeOK
  <1>1. TypeInv => TypeOK
    BY DEF TypeInv
  <1>q. QED BY <1>1, InitTypes, NextTypes, PTL DEF Spec

-----------------------------------------------------------------------------
(* At most one post: the invariant OnceInv of serialised runs.               *)

\* The fields of a row that OnceInv speaks of.
SameCore(p) ==
    /\ row'[p].status = row[p].status
    /\ row'[p].creation = row[p].creation
    /\ row'[p].media = row[p].media

DataInv == LiveIsRecorded /\ SentExists /\ RowIsTrue

LEMMA InitOnce == Init => OnceInv
  BY ConstantsAssumption
  DEF Init, OnceInv, LiveIsRecorded, Live, SentExists, RowIsTrue, OneActive,
      StepKnows, EmptyRow, Idle, NoBox, At, Exists

\* When one process moves and the others are idle, only its own knowledge and
\* the data are to be looked at.
LEMMA OnlyOneMoves ==
    ASSUME NEW w \in Workers,
           \A v \in Workers \ {w} : op[v].pc = "idle" /\ op'[v] = op[v],
           DataInv', StepKnows(w)'
    PROVE  OnceInv'
  <1>1. \A v \in Workers \ {w} : op'[v].pc = "idle"
    OBVIOUS
  <1>2. OneActive'
    BY <1>1 DEF OneActive, At
  <1>3. \A v \in Workers \ {w} : StepKnows(v)'
    BY <1>1 DEF StepKnows, At, Asking
  <1>q. QED BY <1>2, <1>3 DEF OnceInv, DataInv

\* A process at work is the only one.
LEMMA OthersIdle ==
    ASSUME OneActive, NEW w \in Workers, ~At(w, "idle")
    PROVE  \A v \in Workers \ {w} : op[v].pc = "idle"
  BY DEF OneActive, At

\* Steps that leave the core of the rows, the containers and the requests alone.
LEMMA CoreKept ==
    ASSUME DataInv, \A p \in Proposals : SameCore(p), UNCHANGED <<box, sent>>
    PROVE  DataInv'
  BY DEF DataInv, LiveIsRecorded, Live, SentExists, RowIsTrue, SameCore, Exists

\* A row that no container can surprise.
Quiet(p) == \A c \in Containers : box[c].owner = p => ~Live(c)

LEMMA FreeIsQuiet ==
    ASSUME LiveIsRecorded, NEW p \in Proposals,
           row[p].status \notin {"publishing", "uncertain", "published"}
    PROVE  Quiet(p)
  BY DEF LiveIsRecorded, Quiet

\* Writing a status is safe when the row is quiet, or when the status keeps
\* new attempts away; "published" needs a post.
LEMMA StatusWritten ==
    ASSUME DataInv, NEW p \in Proposals,
           \A q \in Proposals \ {p} : SameCore(q),
           row'[p].creation = row[p].creation,
           row'[p].media = row[p].media,
           \/ Quiet(p)
           \/ row'[p].status \in {"publishing", "uncertain", "published"},
           row'[p].status = "published" =>
              /\ row[p].creation # NoContainer
              /\ box[row[p].creation].status = "published",
           UNCHANGED <<box, sent>>
    PROVE  DataInv'
  BY DEF DataInv, LiveIsRecorded, Live, SentExists, RowIsTrue, SameCore, Quiet,
         Exists

\* What a write of one's own row does to its core.
LEMMA WroteStatus ==
    ASSUME TypeOK, NEW w \in Workers, op[w].prop \in Proposals,
           NEW s, SetMine(w, [Mine(w) EXCEPT !.status = s])
    PROVE  /\ row'[op[w].prop].status = s
           /\ row'[op[w].prop].creation = row[op[w].prop].creation
           /\ row'[op[w].prop].media = row[op[w].prop].media
           /\ \A q \in Proposals \ {op[w].prop} : SameCore(q)
  BY DEF SetMine, Mine, TypeOK, RowType, SameCore

LEMMA WroteElsewhere ==
    ASSUME TypeOK, NEW w \in Workers, op[w].prop \in Proposals,
           NEW r,
           r.status = Mine(w).status,
           r.creation = Mine(w).creation,
           r.media = Mine(w).media,
           SetMine(w, r)
    PROVE  \A q \in Proposals : SameCore(q)
  BY DEF SetMine, Mine, TypeOK, SameCore

-----------------------------------------------------------------------------
(* Each step keeps OnceInv.                                                  *)

LEMMA StartOnce ==
    ASSUME Serialised, TypeInv, OnceInv, NEW w \in Workers, Start(w)
    PROVE  OnceInv'
  <1>1. \A v \in Workers : op[v].pc = "idle"
    BY DEF Start, Plan, ReconcileStart, MayStart, At
  <1>2. UNCHANGED <<now, row, box, sent>>
    BY DEF Start, Plan, ReconcileStart
  <1>3. DataInv'
    <2>1. \A p \in Proposals : SameCore(p)
      BY <1>2 DEF SameCore
    <2>q. QED BY <2>1, <1>2, CoreKept DEF OnceInv, DataInv
  <1>4. \A v \in Workers \ {w} : op'[v] = op[v]
    BY DEF Start, Plan, ReconcileStart, TypeInv, TypeOK
  <1>5. ASSUME NEW p \in Proposals, NEW t \in CycleTimes, NEW b \in BOOLEAN,
               Plan(w, p, t, b)
        PROVE  StepKnows(w)'
    <2>1. op'[w].pc = "claim" /\ op'[w].prop = p
      BY <1>5 DEF Plan, Idle, TypeInv, TypeOK
    <2>2. row[p].status \in Retryable \cup {"none"}
      BY <1>5 DEF Plan, OwnRowFree
    <2>q. QED BY <2>1, <2>2, <1>2 DEF StepKnows, At
  <1>6. ASSUME NEW p \in Proposals, ReconcileStart(w, p)
        PROVE  StepKnows(w)'
    <2>1. CASE row[p].creation = NoContainer
      <3>1. op'[w].pc = "no_container" /\ op'[w].prop = p
        BY <1>6, <2>1 DEF ReconcileStart, Idle, TypeInv, TypeOK
      <3>q. QED BY <3>1, <2>1, <1>2 DEF StepKnows, At
    <2>2. CASE row[p].creation # NoContainer
      <3>1. /\ op'[w].pc = "fetch_status" /\ op'[w].prop = p
            /\ op'[w].creation = row[p].creation
        BY <1>6, <2>2 DEF ReconcileStart, Idle, TypeInv, TypeOK
      <3>2. row[p].creation \in Containers
        BY <2>2 DEF TypeInv, TypeOK, RowType
      <3>q. QED BY <3>1, <3>2, <1>2 DEF StepKnows, At
    <2>q. QED BY <2>1, <2>2
  <1>7. StepKnows(w)'
    BY <1>5, <1>6 DEF Start
  <1>q. QED BY <1>1, <1>3, <1>4, <1>7, OnlyOneMoves

LEMMA StepOnce ==
    ASSUME TypeInv, OnceInv, NEW w \in Workers,
           PublishStep(w) \/ ReconcileStep(w) \/ Crash(w)
    PROVE  OnceInv'
  <1> DEFINE p == op[w].prop
             c == op[w].creation
  <1>0. /\ op \in [Workers -> OpType] /\ row \in [Proposals -> RowType]
        /\ box \in [Containers -> BoxType] /\ sent \subseteq Containers
        /\ TypeOK /\ DataInv /\ StepKnows(w)
    BY DEF TypeInv, TypeOK, OnceInv, DataInv
  <1>1. ~At(w, "idle") /\ p \in Proposals
    BY DEF TypeInv, At, PublishStep, ReconcileStep, Crash, Claim, ClaimRefused,
           RecordTrigger, SetCreating, CreateSucceeds, CreateFails,
           FlagTopicRejected, StoreCreation, SetContainerCreated, SetPublishing,
           SendPublish, PublishSucceeds, PublishUnclear, SetUncertain,
           FinishPublished, Readback, FlagMismatch, FetchStatus, StoreReconcile,
           SetFailed
  <1>2. \A v \in Workers \ {w} : op[v].pc = "idle"
    BY <1>1, OthersIdle DEF OnceInv
  <1>3. ASSUME DataInv', StepKnows(w)', \A v \in Workers \ {w} : op'[v] = op[v]
        PROVE  OnceInv'
    BY <1>2, <1>3, OnlyOneMoves
  \* Returning, and moving on, as seen by the process itself.
  <1>4. ASSUME Return(w)
        PROVE  StepKnows(w)' /\ \A v \in Workers \ {w} : op'[v] = op[v]
    <2>1. op'[w].pc = "idle" /\ \A v \in Workers \ {w} : op'[v] = op[v]
      BY <1>0, <1>4, ReturnKeeps
    <2>q. QED BY <2>1 DEF StepKnows, At
  <1>5. ASSUME NEW l \in PCs, Goto(w, l)
        PROVE  /\ op'[w].pc = l /\ op'[w].prop = p /\ op'[w].creation = c
               /\ op'[w].seen = op[w].seen
               /\ \A v \in Workers \ {w} : op'[v] = op[v]
    BY <1>0, <1>5, GotoKeeps
  <1>6. ASSUME NEW s, SetMine(w, [Mine(w) EXCEPT !.status = s])
        PROVE  /\ row'[p].status = s
               /\ row'[p].creation = row[p].creation
               /\ row'[p].media = row[p].media
               /\ \A q \in Proposals \ {p} : SameCore(q)
    BY <1>0, <1>1, <1>6, WroteStatus
  <1> HIDE DEF p, c
  <1>10. CASE RecordTrigger(w)
    <2>1. \A q \in Proposals : SameCore(q)
      <3>1. /\ [Mine(w) EXCEPT !.override = op[w].override].status = Mine(w).status
            /\ [Mine(w) EXCEPT !.override = op[w].override].creation = Mine(w).creation
            /\ [Mine(w) EXCEPT !.override = op[w].override].media = Mine(w).media
        BY <1>0, <1>1 DEF Mine, RowType, p
      <3>q. QED BY <3>1, <1>0, <1>1, <1>10, WroteElsewhere DEF RecordTrigger, p
    <2>2. DataInv'
      BY <2>1, <1>0, <1>10, CoreKept DEF RecordTrigger
    <2>3. /\ op'[w].pc = "set_creating" /\ op'[w].prop = p
          /\ \A v \in Workers \ {w} : op'[v] = op[v]
      BY <1>5, <1>10 DEF RecordTrigger, PCs
    <2>4. StepKnows(w)'
      BY <2>1, <2>3, <1>0, <1>1, <1>10 DEF StepKnows, RecordTrigger, At, SameCore, p
    <2>q. QED BY <2>2, <2>3, <2>4, <1>3
  <1>11. CASE SetCreating(w)
    <2>1. /\ row'[p].status = "creating"
          /\ row'[p].creation = row[p].creation
          /\ row'[p].media = row[p].media
          /\ \A q \in Proposals \ {p} : SameCore(q)
      BY <1>6, <1>11 DEF SetCreating
    <2>2. Quiet(p)
      BY <1>0, <1>1, <1>11, FreeIsQuiet DEF SetCreating, At, StepKnows, DataInv, p
    <2>3. DataInv'
      BY <2>1, <2>2, <1>0, <1>1, <1>11, StatusWritten DEF SetCreating
    <2>4. /\ op'[w].pc = "create" /\ op'[w].prop = p
          /\ \A v \in Workers \ {w} : op'[v] = op[v]
      BY <1>5, <1>11 DEF SetCreating, PCs
    <2>5. StepKnows(w)'
      BY <2>1, <2>4, <1>1 DEF StepKnows, At
    <2>q. QED BY <2>3, <2>4, <2>5, <1>3
  <1>12. CASE CreateFails(w)
    <2>1. /\ row'[p].status = "failed"
          /\ row'[p].creation = row[p].creation
          /\ row'[p].media = row[p].media
          /\ \A q \in Proposals \ {p} : SameCore(q)
      BY <1>6, <1>12 DEF CreateFails
    <2>2. Quiet(p)
      BY <1>0, <1>1, <1>12, FreeIsQuiet DEF CreateFails, At, StepKnows, DataInv, p
    <2>3. DataInv'
      BY <2>1, <2>2, <1>0, <1>1, <1>12, StatusWritten DEF CreateFails
    <2>4. CASE Return(w)
      BY <2>3, <2>4, <1>3, <1>4
    <2>5. CASE Goto(w, "flag_topic")
      <3>1. /\ op'[w].pc = "flag_topic" /\ op'[w].prop = p
            /\ \A v \in Workers \ {w} : op'[v] = op[v]
        BY <2>5, <1>5 DEF PCs
      <3>2. StepKnows(w)'
        BY <2>1, <3>1, <1>1 DEF StepKnows, At, Retryable, p
      <3>q. QED BY <2>3, <3>1, <3>2, <1>3
    <2>q. QED BY <2>4, <2>5, <1>12 DEF CreateFails
  <1>13. CASE FlagTopicRejected(w)
    <2>1. \A q \in Proposals : SameCore(q)
      <3> DEFINE r == [Mine(w) EXCEPT !.recon = TRUE]
      <3>1. r.status = Mine(w).status /\ r.creation = Mine(w).creation
            /\ r.media = Mine(w).media
        BY <1>0, <1>1 DEF Mine, RowType, p
      <3>q. QED BY <3>1, <1>0, <1>1, <1>13, WroteElsewhere DEF FlagTopicRejected, p
    <2>2. DataInv'
      BY <2>1, <1>0, <1>13, CoreKept DEF FlagTopicRejected
    <2>q. QED BY <2>2, <1>3, <1>4, <1>13 DEF FlagTopicRejected
  <1>14. CASE StoreCreation(w)
    <2>1. /\ row'[p].status = row[p].status
          /\ row'[p].creation = c
          /\ row'[p].media = row[p].media
          /\ \A q \in Proposals \ {p} : SameCore(q)
      BY <1>0, <1>1, <1>14
      DEF StoreCreation, SetMine, Mine, RowType, SameCore, p, c
    <2>2. row[p].status = "creating" /\ Exists(c, p)
      BY <1>0, <1>14 DEF StoreCreation, StepKnows, At, p, c
    <2>3. Quiet(p)
      BY <2>2, <1>0, <1>1, FreeIsQuiet DEF DataInv, p
    <2>4. row[p].media = NoContainer
      BY <2>3, <1>0, <1>1 DEF DataInv, RowIsTrue, Quiet, Live, Exists, RowType, p
    <2>5. DataInv'
      BY <2>1, <2>2, <2>3, <2>4, <1>0, <1>1, <1>14
      DEF StoreCreation, DataInv, LiveIsRecorded, Live, SentExists, RowIsTrue,
          SameCore, Quiet, Exists
    <2>6. /\ op'[w].pc = "set_container_created" /\ op'[w].prop = p
          /\ op'[w].creation = c
          /\ \A v \in Workers \ {w} : op'[v] = op[v]
      BY <1>5, <1>14 DEF StoreCreation, PCs
    <2>7. StepKnows(w)'
      BY <2>1, <2>2, <2>6, <1>1 DEF StepKnows, At, Exists, p
    <2>q. QED BY <2>5, <2>6, <2>7, <1>3
  <1>15. CASE SetContainerCreated(w)
    <2>1. /\ row'[p].status = "container_created"
          /\ row'[p].creation = row[p].creation
          /\ row'[p].media = row[p].media
          /\ \A q \in Proposals \ {p} : SameCore(q)
      BY <1>6, <1>15 DEF SetContainerCreated
    <2>2. Quiet(p)
      BY <1>0, <1>1, <1>15, FreeIsQuiet
      DEF SetContainerCreated, At, StepKnows, DataInv, Retryable, p
    <2>3. DataInv'
      BY <2>1, <2>2, <1>0, <1>1, <1>15, StatusWritten DEF SetContainerCreated
    <2>4. /\ op'[w].pc = "set_publishing" /\ op'[w].prop = p /\ op'[w].creation = c
          /\ \A v \in Workers \ {w} : op'[v] = op[v]
      BY <1>5, <1>15 DEF SetContainerCreated, PCs
    <2>5. StepKnows(w)'
      BY <2>1, <2>4, <1>0, <1>1, <1>15 DEF StepKnows, At, SetContainerCreated, p, c
    <2>q. QED BY <2>3, <2>4, <2>5, <1>3
  <1>16. CASE SetPublishing(w)
    <2>1. /\ row'[p].status = "publishing"
          /\ row'[p].creation = row[p].creation
          /\ row'[p].media = row[p].media
          /\ \A q \in Proposals \ {p} : SameCore(q)
      BY <1>6, <1>16 DEF SetPublishing
    <2>3. DataInv'
      BY <2>1, <1>0, <1>1, <1>16, StatusWritten DEF SetPublishing
    <2>4. /\ op'[w].pc = "send_publish" /\ op'[w].prop = p /\ op'[w].creation = c
          /\ \A v \in Workers \ {w} : op'[v] = op[v]
      BY <1>5, <1>16 DEF SetPublishing, PCs
    <2>5. StepKnows(w)'
      BY <2>1, <2>4, <1>0, <1>1, <1>16 DEF StepKnows, At, SetPublishing, p, c
    <2>q. QED BY <2>3, <2>4, <2>5, <1>3
  <1>17. CASE SendPublish(w)
    <2>1. c \in Containers /\ c = row[p].creation /\ row[p].status = "publishing"
      BY <1>0, <1>17 DEF SendPublish, StepKnows, At, p, c
    <2>2. Exists(c, p)
      BY <2>1, <1>0, <1>1, ConstantsAssumption DEF DataInv, RowIsTrue, p
    <2>3. UNCHANGED <<row, box>> /\ sent' = sent \cup {c}
      BY <1>17 DEF SendPublish, c
    <2>4. DataInv'
      BY <2>1, <2>2, <2>3, <1>0, <1>1
      DEF DataInv, LiveIsRecorded, Live, SentExists, RowIsTrue, Exists, p
    <2>5. /\ op'[w].pc = "await_publish" /\ op'[w].prop = p
          /\ op'[w].creation = c
          /\ \A v \in Workers \ {w} : op'[v] = op[v]
      BY <1>5, <1>17 DEF SendPublish, PCs
    <2>6. StepKnows(w)'
      BY <2>1, <2>3, <2>5, <1>1 DEF StepKnows, At, p
    <2>q. QED BY <2>4, <2>5, <2>6, <1>3
  <1>18. CASE PublishSucceeds(w)
    <2>1. /\ c \in Containers /\ c = row[p].creation /\ row[p].status = "publishing"
          /\ box[c].status = "published"
      BY <1>0, <1>18 DEF PublishSucceeds, StepKnows, At, p, c
    <2>2. /\ row'[p].status = row[p].status
          /\ row'[p].creation = row[p].creation
          /\ row'[p].media = c
          /\ \A q \in Proposals \ {p} : SameCore(q)
      BY <1>0, <1>1, <1>18
      DEF PublishSucceeds, SetMine, Mine, RowType, SameCore, p, c
    <2>3. DataInv'
      BY <2>1, <2>2, <1>0, <1>1, <1>18
      DEF PublishSucceeds, DataInv, LiveIsRecorded, Live, SentExists, RowIsTrue,
          SameCore, Exists
    <2>4. /\ op'[w].pc = "finish" /\ op'[w].prop = p
          /\ \A v \in Workers \ {w} : op'[v] = op[v]
      BY <1>0, <1>18 DEF PublishSucceeds, OpType, p
    <2>5. StepKnows(w)'
      BY <2>1, <2>2, <2>4, <1>1, <1>18 DEF StepKnows, At, PublishSucceeds, p
    <2>q. QED BY <2>3, <2>4, <2>5, <1>3
  <1>19. CASE PublishUnclear(w)
    <2>1. DataInv'
      BY <1>0, <1>19, CoreKept DEF PublishUnclear, SameCore
    <2>2. /\ op'[w].pc = "set_uncertain" /\ op'[w].prop = p
          /\ op'[w].creation = c
          /\ \A v \in Workers \ {w} : op'[v] = op[v]
      BY <1>5, <1>19 DEF PublishUnclear, PCs
    <2>3. StepKnows(w)'
      BY <2>2, <1>0, <1>1, <1>19 DEF StepKnows, At, PublishUnclear, p, c
    <2>q. QED BY <2>1, <2>2, <2>3, <1>3
  <1>20. CASE SetUncertain(w)
    <2>1. /\ row'[p].status = "uncertain"
          /\ row'[p].creation = row[p].creation
          /\ row'[p].media = row[p].media
          /\ \A q \in Proposals \ {p} : SameCore(q)
      BY <1>6, <1>20 DEF SetUncertain
    <2>3. DataInv'
      BY <2>1, <1>0, <1>1, <1>20, StatusWritten DEF SetUncertain
    <2>q. QED BY <2>3, <1>3, <1>4, <1>20 DEF SetUncertain
  <1>21. CASE FinishPublished(w)
    <2>1. /\ row'[p].status = "published"
          /\ row'[p].creation = row[p].creation
          /\ row'[p].media = row[p].media
          /\ \A q \in Proposals \ {p} : SameCore(q)
      BY <1>0, <1>1, <1>21
      DEF FinishPublished, SetMine, Mine, RowType, SameCore, p
    <2>2. /\ row[p].creation # NoContainer
          /\ box[row[p].creation].status = "published"
      BY <1>0, <1>21, ConstantsAssumption DEF FinishPublished, StepKnows, At, p
    <2>3. DataInv'
      BY <2>1, <2>2, <1>0, <1>1, <1>21, StatusWritten DEF FinishPublished
    <2>4. CASE Return(w)
      BY <2>3, <2>4, <1>3, <1>4
    <2>5. CASE Goto(w, "readback")
      <3>1. /\ op'[w].pc = "readback" /\ op'[w].prop = p
            /\ \A v \in Workers \ {w} : op'[v] = op[v]
        BY <2>5, <1>5 DEF PCs
      <3>2. StepKnows(w)'
        BY <3>1, <1>1 DEF StepKnows, At, p
      <3>q. QED BY <2>3, <3>1, <3>2, <1>3
    <2>q. QED BY <2>4, <2>5, <1>21 DEF FinishPublished
  <1>22. CASE Readback(w)
    <2>1. PICK t \in {box[op[w].media].at, NoTime} :
             SetMine(w, [Mine(w) EXCEPT !.remoteAt = t])
      BY <1>22 DEF Readback
    <2>2. \A q \in Proposals : SameCore(q)
      <3> DEFINE r == [Mine(w) EXCEPT !.remoteAt = t]
      <3>1. r.status = Mine(w).status /\ r.creation = Mine(w).creation
            /\ r.media = Mine(w).media
        BY <1>0, <1>1 DEF Mine, RowType, p
      <3>q. QED BY <2>1, <3>1, <1>0, <1>1, WroteElsewhere DEF p
    <2>3. DataInv'
      BY <2>2, <1>0, <1>22, CoreKept DEF Readback
    <2>4. CASE Return(w)
      BY <2>3, <2>4, <1>3, <1>4
    <2>5. CASE Goto(w, "flag_mismatch")
      <3>1. /\ op'[w].pc = "flag_mismatch" /\ op'[w].prop = p
            /\ \A v \in Workers \ {w} : op'[v] = op[v]
        BY <2>5, <1>5 DEF PCs
      <3>2. StepKnows(w)'
        BY <3>1, <1>1 DEF StepKnows, At, p
      <3>q. QED BY <2>3, <3>1, <3>2, <1>3
    <2>q. QED BY <2>4, <2>5, <1>22 DEF Readback
  <1>23. CASE FlagMismatch(w)
    <2>1. \A q \in Proposals : SameCore(q)
      <3> DEFINE r == [Mine(w) EXCEPT !.recon = TRUE]
      <3>1. r.status = Mine(w).status /\ r.creation = Mine(w).creation
            /\ r.media = Mine(w).media
        BY <1>0, <1>1 DEF Mine, RowType, p
      <3>q. QED BY <3>1, <1>0, <1>1, <1>23, WroteElsewhere DEF FlagMismatch, p
    <2>2. DataInv'
      BY <2>1, <1>0, <1>23, CoreKept DEF FlagMismatch
    <2>q. QED BY <2>2, <1>3, <1>4, <1>23 DEF FlagMismatch
  <1>24. CASE FetchStatus(w)
    <2>1. DataInv'
      BY <1>0, <1>24, CoreKept DEF FetchStatus, SameCore
    <2>2. /\ op'[w].pc = "store_reconcile" /\ op'[w].prop = p
          /\ op'[w].creation = c /\ op'[w].seen = box[c].status
          /\ \A v \in Workers \ {w} : op'[v] = op[v]
      BY <1>0, <1>24 DEF FetchStatus, OpType, p, c
    <2>3. StepKnows(w)'
      BY <2>2, <1>0, <1>1, <1>24 DEF StepKnows, At, FetchStatus, p, c
    <2>q. QED BY <2>1, <2>2, <2>3, <1>3
  <1>25. CASE StoreReconcile(w)
    <2>1. \A q \in Proposals : SameCore(q)
      <3>t. PICK t \in OpNow(w) :
               SetMine(w, [Mine(w) EXCEPT !.reconciledAt =
                             Later(Mine(w).reconciledAt, t)])
        BY <1>25 DEF StoreReconcile
      <3>s. PICK s : s = Later(Mine(w).reconciledAt, t)
        OBVIOUS
      <3> DEFINE r == [Mine(w) EXCEPT !.reconciledAt = s]
      <3>1. r.status = Mine(w).status /\ r.creation = Mine(w).creation
            /\ r.media = Mine(w).media
        BY <1>0, <1>1 DEF Mine, RowType, p
      <3>2. SetMine(w, r)
        BY <3>t, <3>s
      <3>q. QED BY <3>1, <3>2, <1>0, <1>1, WroteElsewhere DEF p
    <2>2. DataInv'
      BY <2>1, <1>0, <1>25, CoreKept DEF StoreReconcile
    <2>3. CASE Return(w)
      BY <2>2, <2>3, <1>3, <1>4
    <2>4. CASE op[w].seen = "published" /\ Goto(w, "finish")
      <3>1. /\ op'[w].pc = "finish" /\ op'[w].prop = p
            /\ \A v \in Workers \ {w} : op'[v] = op[v]
        BY <2>4, <1>5 DEF PCs
      <3>2. StepKnows(w)'
        BY <2>1, <2>4, <3>1, <1>0, <1>1, <1>25
        DEF StepKnows, At, StoreReconcile, SameCore, p, c
      <3>q. QED BY <2>2, <3>1, <3>2, <1>3
    <2>5. CASE op[w].seen = "ended" /\ Goto(w, "set_failed")
      <3>1. /\ op'[w].pc = "set_failed" /\ op'[w].prop = p
            /\ op'[w].creation = c
            /\ \A v \in Workers \ {w} : op'[v] = op[v]
        BY <2>5, <1>5 DEF PCs
      <3>2. StepKnows(w)'
        BY <2>1, <2>5, <3>1, <1>0, <1>1, <1>25
        DEF StepKnows, At, StoreReconcile, SameCore, p, c
      <3>q. QED BY <2>2, <3>1, <3>2, <1>3
    <2>q. QED BY <2>3, <2>4, <2>5, <1>25 DEF StoreReconcile
  <1>26. CASE SetFailed(w)
    <2>1. /\ row'[p].status = "failed"
          /\ row'[p].creation = row[p].creation
          /\ row'[p].media = row[p].media
          /\ \A q \in Proposals \ {p} : SameCore(q)
      BY <1>6, <1>26 DEF SetFailed
    <2>2. Quiet(p)
      <3>1. CASE At(w, "no_container")
        BY <3>1, <1>0, <1>1, ConstantsAssumption
        DEF StepKnows, At, DataInv, LiveIsRecorded, Quiet, p
      <3>2. CASE At(w, "set_failed")
        BY <3>2, <1>0, <1>1
        DEF StepKnows, At, DataInv, LiveIsRecorded, Quiet, Live, p, c
      <3>q. QED BY <3>1, <3>2, <1>26 DEF SetFailed
    <2>3. DataInv'
      BY <2>1, <2>2, <1>0, <1>1, <1>26, StatusWritten DEF SetFailed
    <2>q. QED BY <2>3, <1>3, <1>4, <1>26 DEF SetFailed
  <1>27. CASE ClaimRefused(w) \/ Crash(w)
    <2>1. DataInv'
      BY <1>0, <1>27, CoreKept DEF ClaimRefused, Crash, SameCore
    <2>q. QED BY <2>1, <1>3, <1>4, <1>27 DEF ClaimRefused, Crash
  <1>28. CASE Claim(w)
    <2>1. row[p].status \in Retryable \cup {"none"}
      BY <1>28 DEF Claim, Mine, p
    <2>2. Quiet(p)
      BY <2>1, <1>0, <1>1, FreeIsQuiet DEF DataInv, Retryable, p
    <2>a. p \in Proposals /\ row[p] \in RowType /\ row \in [Proposals -> RowType]
      BY <1>0, <1>1, <1>28 DEF Claim
    <2>b. \/ row' = [row EXCEPT ![p] = [EmptyRow EXCEPT !.status = "planned"]]
          \/ row' = [row EXCEPT ![p] = [row[p] EXCEPT !.status = "planned", !.retries = @ + 1]]
      BY <1>28 DEF Claim, SetMine, Mine, p
    <2>c. /\ [EmptyRow EXCEPT !.status = "planned"].status = "planned"
          /\ [EmptyRow EXCEPT !.status = "planned"].creation = NoContainer
          /\ [EmptyRow EXCEPT !.status = "planned"].media = NoContainer
      BY DEF EmptyRow
    <2>d. LET r == [row[p] EXCEPT !.status = "planned", !.retries = @ + 1] IN
          r.status = "planned" /\ r.creation = row[p].creation /\ r.media = row[p].media
      BY <2>a DEF RowType
    <2>r. \A q \in Proposals \ {p} : row'[q] = row[q]
      BY <2>a, <2>b
    <2>s. /\ row'[p].status = "planned"
          /\ \/ /\ row'[p].creation = row[p].creation
                /\ row'[p].media = row[p].media
             \/ /\ row'[p].creation = NoContainer
                /\ row'[p].media = NoContainer
      BY <2>a, <2>b, <2>c, <2>d
    <2>3. \/ /\ row'[p].creation = row[p].creation
             /\ row'[p].media = row[p].media
          \/ /\ row'[p].creation = NoContainer
             /\ row'[p].media = NoContainer
      BY <2>r, <2>s
    <2>4. row'[p].status = "planned" /\ \A q \in Proposals \ {p} : SameCore(q)
      BY <2>r, <2>s DEF SameCore
    <2>5. DataInv'
      BY <2>2, <2>3, <2>4, <1>0, <1>1, <1>28
      DEF Claim, DataInv, LiveIsRecorded, Live, SentExists, RowIsTrue, SameCore,
          Quiet, Exists
    <2>6. /\ op'[w].pc = "record_trigger" /\ op'[w].prop = p
          /\ \A v \in Workers \ {w} : op'[v] = op[v]
      BY <1>5, <1>28 DEF Claim, PCs
    <2>7. StepKnows(w)'
      BY <2>4, <2>6, <1>1 DEF StepKnows, At, p
    <2>q. QED BY <2>5, <2>6, <2>7, <1>3
  <1>29. ASSUME NEW d \in Containers, CreateSucceeds(w, d)
         PROVE  OnceInv'
    <2>1. /\ box[d].status = "absent"
          /\ box'[d].status = "open" /\ box'[d].owner = p
          /\ \A e \in Containers \ {d} : box'[e] = box[e]
          /\ UNCHANGED <<row, sent>>
      BY <1>0, <1>29 DEF CreateSucceeds, p
    <2>2. d \notin sent
      BY <2>1, <1>0 DEF DataInv, SentExists
    <2>3. DataInv'
      BY <2>1, <2>2, <1>0
      DEF DataInv, LiveIsRecorded, Live, SentExists, RowIsTrue, Exists, RowType
    <2>4. /\ op'[w].pc = "store_creation" /\ op'[w].prop = p
          /\ op'[w].creation = d
          /\ \A v \in Workers \ {w} : op'[v] = op[v]
      BY <1>0, <1>29 DEF CreateSucceeds, OpType, p
    <2>5. row'[p].status = "creating"
      BY <2>1, <1>0, <1>29 DEF CreateSucceeds, StepKnows, At, p
    <2>6. StepKnows(w)'
      BY <2>1, <2>4, <2>5, <1>1 DEF StepKnows, At, Exists, p
    <2>q. QED BY <2>3, <2>4, <2>6, <1>3
  <1>q. QED
    BY <1>10, <1>11, <1>12, <1>13, <1>14, <1>15, <1>16, <1>17, <1>18, <1>19,
       <1>20, <1>21, <1>22, <1>23, <1>24, <1>25, <1>26, <1>27, <1>28, <1>29
    DEF PublishStep, ReconcileStep

LEMMA EnvironmentOnce ==
    ASSUME TypeInv, OnceInv, Environment
    PROVE  OnceInv'
  <1>0. /\ box \in [Containers -> BoxType] /\ sent \subseteq Containers
        /\ row \in [Proposals -> RowType] /\ DataInv
    BY DEF TypeInv, TypeOK, OnceInv, DataInv
  <1>1. UNCHANGED <<row, op>>
    BY DEF Environment, ServerPublishes, ServerDrops, ContainerEnds, Tick
  <1>2. ASSUME \A c \in Containers :
                  /\ box'[c].owner = box[c].owner
                  /\ box[c].status # "open" => box'[c].status = box[c].status
                  /\ box[c].status = "open" => box'[c].status # "absent",
               DataInv'
        PROVE  OnceInv'
    <2>1. ASSUME NEW w \in Workers PROVE StepKnows(w)'
      <3>1. StepKnows(w)
        BY DEF OnceInv
      <3>q. QED BY <3>1, <1>1, <1>2 DEF StepKnows, At, Exists
    <2>2. OneActive'
      BY <1>1 DEF OnceInv, OneActive, At
    <2>q. QED BY <2>1, <2>2, <1>2 DEF OnceInv, DataInv
  <1>3. ASSUME NEW c \in Containers, ServerPublishes(c)
        PROVE  OnceInv'
    <2>1. /\ box'[c].owner = box[c].owner /\ box'[c].status = "published"
          /\ box[c].status = "open" /\ c \in sent /\ sent' = sent \ {c}
          /\ \A d \in Containers \ {c} : box'[d] = box[d]
      BY <1>0, <1>3 DEF ServerPublishes, BoxType
    <2>2. DataInv'
      BY <2>1, <1>0, <1>1
      DEF DataInv, LiveIsRecorded, Live, SentExists, RowIsTrue, Exists
    <2>q. QED BY <2>1, <2>2, <1>2
  <1>4. ASSUME NEW c \in Containers, ServerDrops(c)
        PROVE  OnceInv'
    <2>1. DataInv'
      BY <1>0, <1>1, <1>4
      DEF ServerDrops, DataInv, LiveIsRecorded, Live, SentExists, RowIsTrue, Exists
    <2>q. QED BY <2>1, <1>4, <1>2 DEF ServerDrops
  <1>5. ASSUME NEW c \in Containers, ContainerEnds(c)
        PROVE  OnceInv'
    <2>1. /\ box'[c].owner = box[c].owner /\ box'[c].status = "ended"
          /\ box[c].status = "open" /\ sent' = sent
          /\ \A d \in Containers \ {c} : box'[d] = box[d]
      BY <1>0, <1>5 DEF ContainerEnds, BoxType
    <2>2. DataInv'
      BY <2>1, <1>0, <1>1
      DEF DataInv, LiveIsRecorded, Live, SentExists, RowIsTrue, Exists
    <2>q. QED BY <2>1, <2>2, <1>2
  <1>6. CASE Tick
    <2>1. DataInv'
      BY <1>0, <1>6, CoreKept DEF Tick, SameCore
    <2>q. QED BY <2>1, <1>6, <1>2 DEF Tick
  <1>q. QED BY <1>3, <1>4, <1>5, <1>6 DEF Environment

LEMMA NextOnce ==
    ASSUME Serialised
    PROVE  TypeInv /\ OnceInv /\ [Next]_vars => OnceInv'
  <1> SUFFICES ASSUME TypeInv, OnceInv, [Next]_vars PROVE OnceInv'
    OBVIOUS
  <1>1. CASE UNCHANGED vars
    BY <1>1 DEF vars, OnceInv, LiveIsRecorded, Live, SentExists, RowIsTrue,
                OneActive, StepKnows, At, Exists
  <1>2. CASE Next
    BY <1>2, StartOnce, StepOnce, EnvironmentOnce DEF Next
  <1>q. QED BY <1>1, <1>2

\* The inductive invariant holds in every serialised run.
THEOREM OnceInvariant ==
    ASSUME Serialised
    PROVE  Spec => [](TypeInv /\ OnceInv)
  BY InitTypes, NextTypes, InitOnce, NextOnce, PTL DEF Spec

\* A proposal is never published twice, whatever crashes, lost answers, late
\* requests, retries and reconciliations happen, as long as operations on
\* publications do not overlap.
THEOREM NeverPublishedTwice ==
    ASSUME Serialised
    PROVE  Spec => []AtMostOnePost
  <1>1. OnceInv => AtMostOnePost
    BY DEF OnceInv, LiveIsRecorded, Live, AtMostOnePost, AllPosts
  <1>q. QED BY <1>1, OnceInvariant, PTL

\* A row that reconcile() or a failed creation released for a retry has no
\* post, and none can appear behind its back.
THEOREM RetryIsSafe ==
    ASSUME Serialised
    PROVE  Spec => []RetryableMeansNothingOut
  <1>1. OnceInv => RetryableMeansNothingOut
    BY DEF OnceInv, LiveIsRecorded, Live, RetryableMeansNothingOut, Retryable
  <1>q. QED BY <1>1, OnceInvariant, PTL

\* A published row has a post, and a media id is that post's.
THEOREM PublishedIsPosted ==
    ASSUME Serialised
    PROVE  Spec => []PublishedMeansPosted
  <1>1. TypeInv /\ OnceInv => PublishedMeansPosted
    BY ConstantsAssumption
    DEF TypeInv, TypeOK, RowType, OnceInv, RowIsTrue, Exists,
        PublishedMeansPosted, Posts
  <1>q. QED BY <1>1, OnceInvariant, PTL

\* No step takes a publication that was recorded as published out of that state.
THEOREM PublishedStays ==
    ASSUME Serialised
    PROVE  Spec => PublishedIsFinal
  <1> DEFINE Stays == \A p \in Proposals :
                row[p].status = "published" => row'[p].status = "published"
  <1>1. ASSUME TypeInv, OnceInv, [Next]_vars PROVE Stays
    <2>0. row \in [Proposals -> RowType]
      BY <1>1 DEF TypeInv, TypeOK
    <2>1. CASE UNCHANGED row
      BY <2>1
    <2>2. ASSUME NEW w \in Workers, PublishStep(w) \/ ReconcileStep(w)
          PROVE  Stays
      <3>1. /\ StepKnows(w) /\ RowIsTrue
            /\ op[w].prop \in Proposals \/ At(w, "idle")
        BY <1>1 DEF OnceInv, TypeInv
      <3>2. CASE Claim(w)
        BY <2>0, <3>1, <3>2
        DEF Claim, SetMine, Mine, At, RowType, EmptyRow, Retryable
      <3>3. CASE RecordTrigger(w) \/ FlagTopicRejected(w) \/ StoreCreation(w)
        BY <2>0, <3>1, <3>3
        DEF RecordTrigger, FlagTopicRejected, StoreCreation, SetMine, Mine, At,
            RowType
      <3>4. CASE SetCreating(w) \/ CreateFails(w) \/ SetContainerCreated(w)
        BY <2>0, <3>1, <3>4
        DEF SetCreating, CreateFails, SetContainerCreated, SetMine, Mine, At,
            RowType, StepKnows
      <3>5. CASE SetPublishing(w) \/ SetUncertain(w) \/ FinishPublished(w)
        BY <2>0, <3>1, <3>5
        DEF SetPublishing, SetUncertain, FinishPublished, SetMine, Mine, At,
            RowType, StepKnows
      <3>6. CASE PublishSucceeds(w) \/ FlagMismatch(w) \/ StoreReconcile(w)
        <4>1. CASE PublishSucceeds(w)
          BY <2>0, <3>1, <4>1 DEF PublishSucceeds, SetMine, Mine, At, RowType
        <4>2. CASE FlagMismatch(w)
          BY <2>0, <3>1, <4>2 DEF FlagMismatch, SetMine, Mine, At, RowType
        <4>3. CASE StoreReconcile(w)
          BY <2>0, <3>1, <4>3 DEF StoreReconcile, SetMine, Mine, At, RowType
        <4>q. QED BY <3>6, <4>1, <4>2, <4>3
      <3>7. CASE Readback(w)
        BY <2>0, <3>1, <3>7 DEF Readback, SetMine, Mine, At, RowType
      <3>8. CASE SetFailed(w)
        BY <2>0, <3>1, <3>8
        DEF SetFailed, SetMine, Mine, At, RowType, StepKnows, RowIsTrue
      <3>9. CASE UNCHANGED row
        BY <3>9
      <3>q. QED
        BY <2>2, <3>2, <3>3, <3>4, <3>5, <3>6, <3>7, <3>8, <3>9
        DEF PublishStep, ReconcileStep, ClaimRefused, CreateSucceeds,
            SendPublish, PublishUnclear, FetchStatus
    <2>3. CASE Environment \/ \E w \in Workers : Start(w) \/ Crash(w)
      BY <2>1, <2>3
      DEF Environment, ServerPublishes, ServerDrops, ContainerEnds, Tick, Start,
          Plan, ReconcileStart, Crash
    <2>q. QED BY <1>1, <2>1, <2>2, <2>3 DEF Next, vars
  <1>2. Stays => [Stays]_vars
    OBVIOUS
  <1>q. QED BY <1>1, OnceInvariant, PTL DEF Spec, PublishedIsFinal

-----------------------------------------------------------------------------
(* The gap and the growth day: the invariant LaneInv of serialised runs.     *)

LEMMA DivBounds ==
    ASSUME NEW a \in Nat, NEW k \in Nat \ {0}
    PROVE  a \div k \in Nat /\ k * (a \div k) <= a /\ a < k * (a \div k) + k
  BY SMT

LEMMA TimesMono ==
    ASSUME NEW x \in Nat, NEW y \in Nat, NEW k \in Nat \ {0}, x >= y + 1
    PROVE  k * x >= k * y + k
  BY SMT

\* A later time is not on an earlier day.
LEMMA DayMono ==
    ASSUME NEW a \in Nat, NEW b \in Nat, a <= b
    PROVE  Day(a) \in Nat /\ Day(b) \in Nat /\ Day(a) <= Day(b)
  <1> DEFINE k == DayLength
             x == a \div k
             y == b \div k
  <1>1. x \in Nat /\ y \in Nat /\ k * x <= a /\ b < k * y + k /\ k \in Nat \ {0}
    BY DivBounds, ConstantsAssumption
  <1> HIDE DEF k, x, y
  <1>2. k * x \in Int /\ k * y \in Int
    BY <1>1
  <1>3. x <= y
    <2> SUFFICES ASSUME x >= y + 1 PROVE FALSE
      BY <1>1
    <2>1. k * x >= k * y + k
      BY <1>1, TimesMono
    <2>q. QED BY <2>1, <1>1, <1>2
  <1>q. QED BY <1>1, <1>3 DEF Day, k, x, y

\* What OnceInv says about the posts of one proposal.
LEMMA PostIsRecorded ==
    ASSUME TypeOK, DataInv, NEW c \in AllPosts
    PROVE  /\ c \in Containers
           /\ box[c].owner \in Proposals
           /\ row[box[c].owner].creation = c
           /\ row[box[c].owner].status \in {"publishing", "uncertain", "published"}
  BY DEF AllPosts, DataInv, LiveIsRecorded, Live

LEMMA SlackBounds == \A c : Slack(c) \in 0 .. MaxLag
  BY ConstantsAssumption DEF Slack

\* All times of a day that is still going on are on it.
LEMMA SameDay ==
    ASSUME NEW a \in Nat, NEW b \in Nat, Day(b) * DayLength <= a, a <= b
    PROVE  Day(a) = Day(b)
  <1> DEFINE k == DayLength
             x == a \div k
             y == b \div k
  <1>1. x \in Nat /\ y \in Nat /\ a < k * x + k /\ k \in Nat \ {0} /\ x <= y
    BY DivBounds, DayMono, ConstantsAssumption DEF Day
  <1>2. y * k <= a
    BY DEF Day
  <1> HIDE DEF k, x, y
  <1>3. k * x \in Int /\ k * y \in Int /\ k * y = y * k
    BY <1>1
  <1>4. y <= x
    <2> SUFFICES ASSUME y >= x + 1 PROVE FALSE
      BY <1>1
    <2>1. k * y >= k * x + k
      BY <1>1, TimesMono
    <2>q. QED BY <2>1, <1>1, <1>2, <1>3
  <1>q. QED BY <1>1, <1>4 DEF Day, k, x, y

LEMMA InitLane == Init => LaneInv
  <1> SUFFICES ASSUME Init PROVE LaneInv
    OBVIOUS
  <1>1. AllPosts = {}
    BY DEF Init, NoBox, AllPosts
  <1>2. ASSUME NEW p \in Proposals PROVE BasisIsClose(p) /\ ~Flying(p)
    BY DEF Init, EmptyRow, BasisIsClose, Flying, InFlight, NoTime
  <1>3. \A w \in Workers : AttemptKnows(w)
    BY DEF Init, Idle, AttemptKnows, At
  <1>q. QED BY <1>1, <1>2, <1>3
            DEF LaneInv, PostsArePast, GapRespected, OneGrowthPostPerDay

\* Steps of one process that leave the clock and the containers alone, and may
\* learn the time of the post of the row they write when its lane is free.
LEMMA WriteLane ==
    ASSUME TypeInv, DataInv, LaneInv, UNCHANGED <<now, box>>,
           NEW w \in Workers, NEW p \in Proposals,
           row' \in [Proposals -> RowType],
           \A q \in Proposals \ {p} : row'[q] = row[q],
           \A v \in Workers \ {w} : op[v].pc = "idle" /\ op'[v] = op[v],
           BasisIsClose(p)',
           Flying(p)' => LaneIsFree(p) /\ Clear(p, row'[p].override) /\ IsNewest(p),
           row'[p].override # row[p].override => Posts(p) = {},
           \/ Posts(p) = {}
           \/ row'[p].remoteAt = row[p].remoteAt
           \/ LaneIsFree(p),
           GapRespected',
           AttemptKnows(w)'
    PROVE  LaneInv'
  <1>0. AllPosts' = AllPosts /\ \A c \in AllPosts : c \in Containers /\ box[c].owner \in Proposals
    BY PostIsRecorded DEF AllPosts, TypeInv
  <1>1. PostsArePast'
    BY <1>0 DEF LaneInv, PostsArePast
  <1>2. ASSUME NEW q \in Proposals PROVE BasisIsClose(q)'
    <2>1. CASE q = p
      BY <2>1
    <2>2. CASE q # p
      BY <2>2 DEF LaneInv, BasisIsClose, Answered
    <2>q. QED BY <2>1, <2>2
  <1>3. ASSUME NEW c \in AllPosts, box[c].owner # p PROVE Slack(c)' = Slack(c)
    BY <1>0, <1>3 DEF Slack
  <1>4. ASSUME NEW q \in Proposals, Flying(q)'
        PROVE  (LaneIsFree(q) /\ Clear(q, row[q].override) /\ IsNewest(q))'
    <2>1. CASE q = p
      <3>1. LaneIsFree(p) /\ Clear(p, row'[p].override) /\ IsNewest(p)
        BY <1>4, <2>1
      <3>2. LaneIsFree(p)'
        BY <3>1 DEF LaneIsFree, Flying
      <3>3. Clear(p, row[p].override)'
        BY <1>0, <1>3, <3>1 DEF Clear
      <3>4. IsNewest(p)'
        BY <1>0, <1>3, <3>1 DEF IsNewest, Follows, Posts, AllPosts
      <3>q. QED BY <2>1, <3>2, <3>3, <3>4
    <2>2. CASE q # p
      <3>1. Flying(q) /\ row'[q].override = row[q].override
        BY <1>4, <2>2 DEF Flying
      <3>2. LaneIsFree(q) /\ Clear(q, row[q].override) /\ IsNewest(q)
        BY <3>1 DEF LaneInv
      <3>3. SameLane(q, p) => ~Flying(p)'
        BY <2>2, <3>1, <1>4 DEF LaneIsFree, SameLane
      <3>4. LaneIsFree(q)'
        BY <3>2, <3>3 DEF LaneIsFree, Flying, SameLane
      <3>5. ASSUME NEW c \in AllPosts, q \in Articles, box[c].owner \in Articles
            PROVE  Slack(c)' = Slack(c)
        <4>1. CASE box[c].owner # p
          BY <4>1, <1>3
        <4>2. CASE box[c].owner = p
          <5>1. Posts(p) # {} /\ SameLane(p, q)
            BY <1>0, <3>5, <4>2 DEF Posts, AllPosts, SameLane, Articles
          <5>2. row'[p].remoteAt = row[p].remoteAt
            BY <2>2, <3>1, <5>1 DEF LaneIsFree
          <5>q. QED BY <1>0, <4>2, <5>2 DEF Slack
        <4>q. QED BY <4>1, <4>2
      <3>6. Clear(q, row[q].override)'
        BY <1>0, <3>1, <3>2, <3>5 DEF Clear
      <3>7. IsNewest(q)'
        BY <1>0, <3>1, <3>2, <3>5 DEF IsNewest, Follows
      <3>q. QED BY <3>4, <3>6, <3>7
    <2>q. QED BY <2>1, <2>2
  <1>6. OneGrowthPostPerDay'
    BY <1>0 DEF LaneInv, OneGrowthPostPerDay
  <1>7. ASSUME NEW v \in Workers \ {w} PROVE AttemptKnows(v)'
    BY DEF AttemptKnows, At
  <1>q. QED BY <1>1, <1>2, <1>4, <1>6, <1>7 DEF LaneInv

\* The ordinary write: the override and the remote time of a post stay.
LEMMA RowStep ==
    ASSUME TypeInv, DataInv, LaneInv, UNCHANGED <<now, box>>,
           NEW w \in Workers, NEW p \in Proposals,
           row' \in [Proposals -> RowType],
           \A q \in Proposals \ {p} : row'[q] = row[q],
           \A v \in Workers \ {w} : op[v].pc = "idle" /\ op'[v] = op[v],
           BasisIsClose(p)',
           Flying(p)' => LaneIsFree(p) /\ Clear(p, row'[p].override) /\ IsNewest(p),
           \/ Posts(p) = {}
           \/ /\ row'[p].override = row[p].override
              /\ row'[p].remoteAt = row[p].remoteAt,
           AttemptKnows(w)'
    PROVE  LaneInv'
  <1>1. AllPosts' = AllPosts
    BY DEF AllPosts
  <1>2. \A c \in AllPosts : /\ row'[box[c].owner].override = row[box[c].owner].override
                            /\ Slack(c)' = Slack(c)
    BY PostIsRecorded DEF TypeInv, AllPosts, Posts, Slack
  <1>3. GapRespected'
    BY <1>1, <1>2 DEF LaneInv, GapRespected, Follows
  <1>q. QED BY <1>3, WriteLane

\* Rows that are not published have no post to be overridden.
LEMMA FreeHasNoPost ==
    ASSUME TypeOK, DataInv, NEW p \in Proposals,
           row[p].status \notin {"publishing", "uncertain", "published"}
    PROVE  /\ Posts(p) = {}
           /\ row[p].media = NoContainer
           /\ \A c \in AllPosts : box[c].owner # p
  BY DEF TypeOK, RowType, DataInv, LiveIsRecorded, Live, RowIsTrue, Exists,
         Posts, AllPosts

\* The gap is measured from the time of the post if that is known, else from
\* not long before it; never from the future.
LEMMA BasisNearPost ==
    ASSUME TypeInv, DataInv, LaneInv, NEW c \in AllPosts,
           row[box[c].owner].status = "published"
    PROVE  /\ GapBasis(row[box[c].owner]) \in 0 .. now
           /\ GapBasis(row[box[c].owner]) + Slack(c) >= box[c].at
           /\ box[c].at \in 0 .. now /\ now \in Nat
           /\ GapBasis(row[box[c].owner]) # NoTime
  <1> DEFINE p == box[c].owner
  <1>1. c \in Containers /\ p \in Proposals /\ row[p].creation = c
    BY PostIsRecorded DEF TypeInv
  <1>2. row[p].media # NoContainer => row[p].media = c
    BY <1>1 DEF DataInv, RowIsTrue
  <1>3. box[c].at \in 0 .. now /\ now \in Nat
    BY DEF LaneInv, PostsArePast, TypeInv, TypeOK, Time
  <1>4. BasisIsClose(p)
    BY <1>1 DEF LaneInv
  <1>5. /\ row[p].remoteAt \in Stamp /\ row[p].returnedAt \in Stamp
        /\ row[p].reconciledAt \in Stamp
    BY <1>1 DEF TypeInv, TypeOK, RowType
  <1> HIDE DEF p
  <1>6. row[p].status = "published"
    BY DEF p
  <1>7. CASE row[p].remoteAt # NoTime
    <2>1. GapBasis(row[p]) = box[c].at
      BY <1>2, <1>4, <1>6, <1>7 DEF BasisIsClose, GapBasis, FirstKnown
    <2>q. QED BY <2>1, <1>3, SlackBounds, ConstantsAssumption DEF NoTime, p
  <1>8. CASE row[p].remoteAt = NoTime /\ row[p].returnedAt # NoTime
    <2>1. GapBasis(row[p]) = row[p].returnedAt /\ Slack(c) = MaxLag
      BY <1>6, <1>8 DEF GapBasis, FirstKnown, Slack, p
    <2>2. row[p].returnedAt + MaxLag >= box[c].at /\ row[p].returnedAt <= now
      BY <1>2, <1>4, <1>8 DEF BasisIsClose
    <2>3. row[p].returnedAt \in Nat
      BY <1>5, <1>8, ConstantsAssumption DEF Stamp, Time
    <2>q. QED BY <2>1, <2>2, <2>3, <1>3 DEF NoTime, p
  <1>9. CASE row[p].remoteAt = NoTime /\ row[p].returnedAt = NoTime
    <2>1. /\ row[p].reconciledAt # NoTime
          /\ row[p].reconciledAt + MaxLag >= box[c].at
          /\ row[p].reconciledAt <= now
      BY <1>1, <1>4, <1>6, <1>9 DEF BasisIsClose, Answered, p
    <2>2. row[p].reconciledAt \in Nat
      BY <1>5, <2>1, ConstantsAssumption DEF Stamp, Time
    <2>3. GapBasis(row[p]) = row[p].reconciledAt /\ Slack(c) = MaxLag
      BY <1>6, <1>9, <2>1 DEF GapBasis, FirstKnown, Slack, p
    <2>q. QED BY <2>1, <2>2, <2>3, <1>3 DEF NoTime, p
  <1>q. QED BY <1>7, <1>8, <1>9

\* What plan() checks is what an attempt relies on.
LEMMA PlanIsClear ==
    ASSUME TypeInv, DataInv, LaneInv, NEW w \in Workers, NEW p \in Proposals,
           NEW t \in CycleTimes, NEW b \in BOOLEAN, Plan(w, p, t, b)
    PROVE  LaneIsFree(p) /\ Clear(p, p \in Articles /\ ~GapElapsed(p, t))
  <1>0. now \in Nat /\ t \in Nat /\ t <= now /\ t + MaxLag >= now
    BY ConstantsAssumption DEF CycleTimes, TypeInv, TypeOK, Time
  <1>1. OthersSettled(p)
    BY DEF Plan
  <1>2. LaneIsFree(p)
    BY <1>1 DEF OthersSettled, LaneIsFree, SameLane, Flying, Articles
  <1>3. ASSUME NEW c \in AllPosts, box[c].owner # p,
               (box[c].owner \in Growth) = (p \in Growth)
        PROVE  row[box[c].owner].status = "published"
    <2>1. /\ box[c].owner \in Proposals
          /\ row[box[c].owner].status \in {"publishing", "uncertain", "published"}
      BY PostIsRecorded DEF TypeInv
    <2>q. QED BY <2>1, <1>2, <1>3 DEF LaneIsFree, SameLane, Flying, InFlight
  <1>4. ASSUME NEW c \in AllPosts, box[c].owner # p,
               p \in Articles, box[c].owner \in Articles, GapElapsed(p, t)
        PROVE  now + Slack(c) >= box[c].at + Gap
    <2> DEFINE g == GapBasis(row[box[c].owner])
    <2>1. row[box[c].owner].status = "published"
      BY <1>3, <1>4 DEF Articles
    <2>2. g \in 0 .. now /\ g + Slack(c) >= box[c].at /\ box[c].at \in 0 .. now
          /\ g # NoTime
      BY <2>1, BasisNearPost
    <2>3. t >= g + Gap
      BY <1>4, <2>2 DEF GapElapsed
    <2> HIDE DEF g
    <2>4. Slack(c) \in Nat
      BY SlackBounds, ConstantsAssumption
    <2>q. QED BY <2>2, <2>3, <2>4, <1>0, ConstantsAssumption
  <1>5. ASSUME NEW c \in AllPosts, box[c].owner # p,
               p \in Growth, box[c].owner \in Growth
        PROVE  Day(box[c].at) < Day(now) \/ AtMidnight(box[c].at)
    <2> DEFINE g == GapBasis(row[box[c].owner])
    <2>1. row[box[c].owner].status = "published"
      BY <1>3, <1>5
    <2>2. g \in 0 .. now /\ g + Slack(c) >= box[c].at /\ box[c].at \in 0 .. now
          /\ g # NoTime
      BY <2>1, BasisNearPost
    <2>3. Day(g) # Day(t)
      BY <1>5, <2>2, ConstantsAssumption DEF Plan, GrowthAllowed
    <2> HIDE DEF g
    <2>4. Slack(c) \in 0 .. MaxLag /\ MaxLag \in Nat
      BY SlackBounds, ConstantsAssumption
    <2>5. Day(box[c].at) \in Nat /\ Day(now) \in Nat /\ Day(box[c].at) <= Day(now)
      BY <1>0, <2>2, DayMono
    <2> SUFFICES ASSUME Day(box[c].at) = Day(now), ~AtMidnight(box[c].at)
                 PROVE  FALSE
      BY <2>5
    <2>6. PICK m : m = Day(now) * DayLength
      OBVIOUS
    <2>7. m \in Nat /\ box[c].at >= m + MaxLag
      BY <2>2, <2>4, <2>5, <2>6, ConstantsAssumption DEF AtMidnight
    <2>8. m <= g /\ m <= t
      BY <2>2, <2>4, <2>7, <1>0
    <2>9. Day(g) = Day(now) /\ Day(t) = Day(now)
      BY <1>0, <2>2, <2>6, <2>8, SameDay
    <2>q. QED BY <2>3, <2>9
  <1>q. QED BY <1>2, <1>4, <1>5 DEF Clear

LEMMA StartLane ==
    ASSUME Serialised, TypeInv, OnceInv, LaneInv, NEW w \in Workers, Start(w)
    PROVE  LaneInv'
  <1>0. /\ op \in [Workers -> OpType] /\ row \in [Proposals -> RowType] /\ DataInv
    BY DEF TypeInv, TypeOK, OnceInv, DataInv
  <1>1. \A v \in Workers \ {w} : op[v].pc = "idle" /\ op'[v] = op[v]
    BY <1>0 DEF Start, Plan, ReconcileStart, MayStart, At
  <1>2. UNCHANGED <<now, row, box, sent>>
    BY DEF Start, Plan, ReconcileStart
  <1>3. ASSUME NEW p \in Proposals, AttemptKnows(w)' PROVE LaneInv'
    <2>1. BasisIsClose(p)'
      BY <1>2 DEF LaneInv, BasisIsClose, Answered
    <2>2. Flying(p)' => LaneIsFree(p) /\ Clear(p, row'[p].override) /\ IsNewest(p)
      BY <1>2 DEF LaneInv, Flying
    <2>q. QED BY <2>1, <2>2, <1>0, <1>1, <1>2, <1>3, RowStep
  <1>4. ASSUME NEW p \in Proposals, NEW t \in CycleTimes, NEW b \in BOOLEAN,
               Plan(w, p, t, b)
        PROVE  LaneInv'
    <2> DEFINE said == p \in Articles /\ ~GapElapsed(p, t)
    <2>1. /\ op'[w].pc = "claim" /\ op'[w].prop = p /\ op'[w].media = NoContainer
          /\ op'[w].override = said
      BY <1>0, <1>4 DEF Plan, Idle
    <2>2. LaneIsFree(p) /\ Clear(p, said)
      BY <1>0, <1>4, PlanIsClear
    <2> HIDE DEF said
    <2>3. (LaneIsFree(p) /\ Clear(p, op[w].override))'
      BY <2>1, <2>2, <1>2 DEF LaneIsFree, SameLane, Flying, Clear, AllPosts, Slack
    <2>4. AttemptKnows(w)'
      BY <2>1, <2>3 DEF AttemptKnows, At
    <2>q. QED BY <2>4, <1>3
  <1>5. ASSUME NEW p \in Proposals, ReconcileStart(w, p)
        PROVE  LaneInv'
    <2>1. /\ op'[w].pc \in {"no_container", "fetch_status"} /\ op'[w].prop = p
          /\ op'[w].media = row[p].media
      BY <1>0, <1>5 DEF ReconcileStart, Idle
    <2>2. row[p].media # NoContainer => Flying(p)
      <3>1. row[p].media # NoContainer =>
              /\ row[p].media \in Containers
              /\ box[row[p].media].status = "published" /\ box[row[p].media].owner = p
        BY <1>0 DEF DataInv, RowIsTrue, Exists, RowType
      <3>2. ~(row[p].status = "published" /\ row[p].media # NoContainer)
        BY <1>5 DEF ReconcileStart
      <3>q. QED BY <3>1, <3>2, <1>0 DEF DataInv, LiveIsRecorded, Live, Flying, InFlight
    <2>3. AttemptKnows(w)'
      BY <2>1, <2>2, <1>2 DEF AttemptKnows, At, Flying
    <2>q. QED BY <2>3, <1>3
  <1>q. QED BY <1>4, <1>5 DEF Start

\* What is late enough stays late enough.
LEMMA ClearLater ==
    ASSUME PostsArePast, now \in Nat, now' \in Nat, now' >= now,
           NEW p, NEW said, Clear(p, said)
    PROVE  \A c \in AllPosts : box[c].owner # p =>
              /\ p \in Articles /\ box[c].owner \in Articles =>
                    said \/ now' + Slack(c) >= box[c].at + Gap
              /\ p \in Growth /\ box[c].owner \in Growth =>
                    Day(box[c].at) < Day(now') \/ AtMidnight(box[c].at)
  <1> SUFFICES ASSUME NEW c \in AllPosts, box[c].owner # p
               PROVE  /\ p \in Articles /\ box[c].owner \in Articles =>
                            said \/ now' + Slack(c) >= box[c].at + Gap
                      /\ p \in Growth /\ box[c].owner \in Growth =>
                            Day(box[c].at) < Day(now') \/ AtMidnight(box[c].at)
    OBVIOUS
  <1>1. box[c].at \in Nat /\ box[c].at <= now /\ Slack(c) \in Nat
    BY SlackBounds, ConstantsAssumption DEF PostsArePast
  <1>2. /\ Day(box[c].at) \in Nat /\ Day(now) \in Nat /\ Day(now') \in Nat
        /\ Day(now) <= Day(now')
    BY <1>1, DayMono
  <1>q. QED BY <1>1, <1>2, ConstantsAssumption DEF Clear

\* Steps that leave the rows and the posts alone; time may pass.
LEMMA PostsKept ==
    ASSUME TypeInv, DataInv, LaneInv, UNCHANGED row,
           now' \in Nat, now' >= now,
           AllPosts' = AllPosts, \A c \in AllPosts : box'[c] = box[c],
           \A w \in Workers : AttemptKnows(w)'
    PROVE  LaneInv'
  <1>0. now \in Nat /\ row \in [Proposals -> RowType] /\ PostsArePast
    BY DEF TypeInv, TypeOK, Time, LaneInv
  <1>1. PostsArePast'
    BY <1>0 DEF PostsArePast
  <1>2. ASSUME NEW p \in Proposals PROVE BasisIsClose(p)'
    <2>1. BasisIsClose(p) /\ row[p].returnedAt \in Stamp /\ row[p].reconciledAt \in Stamp
      BY <1>0 DEF LaneInv, RowType
    <2>2. row[p].media # NoContainer => row[p].media \in AllPosts
      BY <1>0 DEF DataInv, RowIsTrue, RowType, AllPosts
    <2>3. row[p].status = "published" => row[p].creation \in AllPosts
      BY <1>0 DEF DataInv, RowIsTrue, RowType, AllPosts
    <2>q. QED BY <1>0, <2>1, <2>2, <2>3, ConstantsAssumption
              DEF BasisIsClose, Answered, Stamp, Time, NoTime
  <1>s. \A c \in AllPosts : Slack(c)' = Slack(c)
    BY DEF Slack
  <1>3. ASSUME NEW p \in Proposals, Flying(p)'
        PROVE  (LaneIsFree(p) /\ Clear(p, row[p].override) /\ IsNewest(p))'
    <2>1. LaneIsFree(p) /\ Clear(p, row[p].override) /\ IsNewest(p)
      BY <1>3 DEF LaneInv, Flying
    <2>2. Clear(p, row[p].override)'
      BY <1>0, <1>s, <2>1, ClearLater DEF Clear
    <2>3. IsNewest(p)'
      BY <1>s, <2>1 DEF IsNewest, Follows
    <2>q. QED BY <2>1, <2>2, <2>3 DEF LaneIsFree, Flying
  <1>4. GapRespected'
    BY <1>s DEF LaneInv, GapRespected, Follows
  <1>5. OneGrowthPostPerDay'
    BY DEF LaneInv, OneGrowthPostPerDay
  <1>q. QED BY <1>1, <1>2, <1>3, <1>4, <1>5 DEF LaneInv

\* The fields of a row that LaneInv speaks of, but for the status.
SameStamps(p) ==
    /\ row'[p].creation = row[p].creation
    /\ row'[p].media = row[p].media
    /\ row'[p].remoteAt = row[p].remoteAt
    /\ row'[p].returnedAt = row[p].returnedAt
    /\ row'[p].reconciledAt = row[p].reconciledAt

LEMMA StampsKept ==
    ASSUME NEW p \in Proposals, BasisIsClose(p), SameStamps(p),
           UNCHANGED <<now, box>>, row'[p].status = "published" => Answered(p)
    PROVE  BasisIsClose(p)' /\ (Answered(p)' <=> Answered(p))
  BY DEF BasisIsClose, Answered, SameStamps

\* Every step of a process at work keeps LaneInv.
LEMMA StepLane ==
    ASSUME TypeInv, OnceInv, LaneInv, NEW w \in Workers,
           PublishStep(w) \/ ReconcileStep(w) \/ Crash(w)
    PROVE  LaneInv'
  <1> DEFINE Moving == \A v \in Workers \ {w} : op[v].pc = "idle" /\ op'[v] = op[v]
  <1>0. /\ op \in [Workers -> OpType] /\ row \in [Proposals -> RowType]
        /\ box \in [Containers -> BoxType] /\ now \in Nat
        /\ TypeOK /\ DataInv /\ StepKnows(w) /\ AttemptKnows(w)
    BY DEF TypeInv, TypeOK, OnceInv, DataInv, LaneInv, Time
  <1>1. ~At(w, "idle") /\ op[w].prop \in Proposals
    BY DEF TypeInv, At, PublishStep, ReconcileStep, Crash, Claim, ClaimRefused,
           RecordTrigger, SetCreating, CreateSucceeds, CreateFails,
           FlagTopicRejected, StoreCreation, SetContainerCreated, SetPublishing,
           SendPublish, PublishSucceeds, PublishUnclear, SetUncertain,
           FinishPublished, Readback, FlagMismatch, FetchStatus, StoreReconcile,
           SetFailed
  <1>p. PICK p \in Proposals : p = op[w].prop
    BY <1>1
  <1>2. \A v \in Workers \ {w} : op[v].pc = "idle"
    BY <1>1, OthersIdle DEF OnceInv
  <1>3. row' \in [Proposals -> RowType]
    BY StepTypes DEF TypeInv, TypeOK
  <1>4. /\ BasisIsClose(p)
        /\ Flying(p) => LaneIsFree(p) /\ Clear(p, row[p].override) /\ IsNewest(p)
    BY <1>1 DEF LaneInv
  \* What the process knows after returning, and after moving on.
  <1>5. ASSUME Return(w) PROVE AttemptKnows(w)' /\ Moving
    <2>1. op'[w].pc = "idle" /\ \A v \in Workers \ {w} : op'[v] = op[v]
      BY <1>0, <1>5, ReturnKeeps
    <2>q. QED BY <2>1, <1>2 DEF AttemptKnows, At
  <1>6. ASSUME NEW l \in PCs, Goto(w, l)
        PROVE  /\ op'[w].pc = l /\ op'[w].prop = p /\ op'[w].media = op[w].media
               /\ op'[w].override = op[w].override
               /\ Moving
    BY <1>p, <1>0, <1>2, <1>6, GotoKeeps DEF Goto, OpType
  <1>7. ASSUME NEW l \in PCs \ {"claim", "record_trigger", "set_creating",
                                "readback", "finish", "fetch_status", "store_reconcile"},
               op'[w].pc = l, op'[w].prop = p,
               op'[w].media \in {NoContainer, row'[p].media}
        PROVE  AttemptKnows(w)'
    BY <1>7 DEF AttemptKnows, At
  <1>a. ASSUME NEW l \in {"finish", "store_reconcile"},
               op'[w].pc = l, op'[w].prop = p,
               op'[w].media \in {NoContainer, row'[p].media},
               op'[w].media # NoContainer => Flying(p)',
               l = "finish" => Answered(p)'
        PROVE  AttemptKnows(w)'
    BY <1>a DEF AttemptKnows, At
  <1>8. op[w].media \in {NoContainer, row[p].media}
    BY <1>p, <1>0, <1>1 DEF AttemptKnows
  \* A write that leaves the stamps alone.
  <1>9. ASSUME UNCHANGED <<now, box>>,
               \A q \in Proposals \ {p} : row'[q] = row[q],
               SameStamps(p), row'[p].override = row[p].override,
               row'[p].status = "published" => Answered(p),
               Flying(p)' => \/ Flying(p)
                             \/ LaneIsFree(p) /\ Clear(p, row[p].override) /\ IsNewest(p),
               AttemptKnows(w)', Moving
        PROVE  LaneInv'
    <2>1. BasisIsClose(p)'
      BY <1>1, <1>4, <1>9, StampsKept
    <2>2. row'[p].remoteAt = row[p].remoteAt
      BY <1>9 DEF SameStamps
    <2>q. QED BY <2>1, <2>2, <1>0, <1>1, <1>3, <1>4, <1>9, RowStep
  <1>10. ASSUME NEW s, SetMine(w, [Mine(w) EXCEPT !.status = s])
         PROVE  /\ SameStamps(p) /\ row'[p].override = row[p].override
                /\ row'[p].status = s
                /\ \A q \in Proposals \ {p} : row'[q] = row[q]
    BY <1>p, <1>0, <1>1, <1>10 DEF SetMine, Mine, RowType, SameStamps
  <1>11. ASSUME NEW b \in BOOLEAN, SetMine(w, [Mine(w) EXCEPT !.recon = b])
         PROVE  /\ SameStamps(p) /\ row'[p].override = row[p].override
                /\ row'[p].status = row[p].status
                /\ \A q \in Proposals \ {p} : row'[q] = row[q]
    BY <1>p, <1>0, <1>1, <1>11 DEF SetMine, Mine, RowType, SameStamps
  <1>12. ASSUME SameStamps(p) PROVE row'[p].media = row[p].media
    BY <1>12 DEF SameStamps
  <1>13. row'[p].status = row[p].status
           => (Flying(p)' => Flying(p))
              /\ (row'[p].status = "published" => Answered(p))
    BY <1>4 DEF Flying, BasisIsClose
  <1>20. CASE SetCreating(w)
    <2>1. LaneIsFree(p) /\ Clear(p, row[p].override) /\ IsNewest(p)
      <3>1. row[p].status = "planned"
        BY <1>p, <1>0, <1>20 DEF SetCreating, StepKnows, At
      <3>2. \A c \in AllPosts : box[c].owner # p
        BY <3>1, <1>0, <1>1, FreeHasNoPost
      <3>q. QED BY <3>2, <1>p, <1>0, <1>20 DEF SetCreating, AttemptKnows, At, IsNewest
    <2>2. /\ SameStamps(p) /\ row'[p].override = row[p].override
          /\ row'[p].status = "creating"
          /\ \A q \in Proposals \ {p} : row'[q] = row[q]
      BY <1>10, <1>20 DEF SetCreating
    <2>3. AttemptKnows(w)' /\ Moving
      BY <2>2, <1>6, <1>7, <1>8, <1>12, <1>20 DEF SetCreating, PCs
    <2>q. QED BY <2>1, <2>2, <2>3, <1>9, <1>20 DEF SetCreating
  <1>21. CASE CreateFails(w)
    <2>1. /\ SameStamps(p) /\ row'[p].override = row[p].override
          /\ row'[p].status = "failed"
          /\ \A q \in Proposals \ {p} : row'[q] = row[q]
      BY <1>10, <1>21 DEF CreateFails
    <2>2. AttemptKnows(w)' /\ Moving
      BY <2>1, <1>5, <1>6, <1>7, <1>8, <1>12, <1>21 DEF CreateFails, PCs
    <2>q. QED BY <2>1, <2>2, <1>9, <1>21 DEF CreateFails, Flying, InFlight
  <1>22. CASE SetContainerCreated(w)
    <2>1. /\ SameStamps(p) /\ row'[p].override = row[p].override
          /\ row'[p].status = "container_created"
          /\ \A q \in Proposals \ {p} : row'[q] = row[q]
      BY <1>10, <1>22 DEF SetContainerCreated
    <2>2. Flying(p)
      BY <1>p, <1>0, <1>22 DEF SetContainerCreated, StepKnows, At, Flying, InFlight
    <2>3. AttemptKnows(w)' /\ Moving
      BY <2>1, <1>6, <1>7, <1>8, <1>12, <1>22 DEF SetContainerCreated, PCs
    <2>q. QED BY <2>1, <2>2, <2>3, <1>9, <1>22 DEF SetContainerCreated
  <1>23. CASE SetPublishing(w)
    <2>1. /\ SameStamps(p) /\ row'[p].override = row[p].override
          /\ row'[p].status = "publishing"
          /\ \A q \in Proposals \ {p} : row'[q] = row[q]
      BY <1>10, <1>23 DEF SetPublishing
    <2>2. Flying(p)
      BY <1>p, <1>0, <1>23 DEF SetPublishing, StepKnows, At, Flying, InFlight
    <2>3. AttemptKnows(w)' /\ Moving
      BY <2>1, <1>6, <1>7, <1>8, <1>12, <1>23 DEF SetPublishing, PCs
    <2>q. QED BY <2>1, <2>2, <2>3, <1>9, <1>23 DEF SetPublishing
  <1>24. CASE SetUncertain(w)
    <2>1. /\ SameStamps(p) /\ row'[p].override = row[p].override
          /\ row'[p].status = "uncertain"
          /\ \A q \in Proposals \ {p} : row'[q] = row[q]
      BY <1>10, <1>24 DEF SetUncertain
    <2>2. Flying(p)
      BY <1>p, <1>0, <1>24 DEF SetUncertain, StepKnows, At, Flying, InFlight
    <2>3. AttemptKnows(w)' /\ Moving
      BY <1>5, <1>24 DEF SetUncertain
    <2>q. QED BY <2>1, <2>2, <2>3, <1>9, <1>24 DEF SetUncertain
  <1>25. CASE SetFailed(w)
    <2>1. /\ SameStamps(p) /\ row'[p].override = row[p].override
          /\ row'[p].status = "failed"
          /\ \A q \in Proposals \ {p} : row'[q] = row[q]
      BY <1>10, <1>25 DEF SetFailed
    <2>2. AttemptKnows(w)' /\ Moving
      BY <1>5, <1>25 DEF SetFailed
    <2>q. QED BY <2>1, <2>2, <1>9, <1>25 DEF SetFailed, Flying, InFlight
  <1>26. CASE FinishPublished(w)
    <2>1. /\ SameStamps(p) /\ row'[p].override = row[p].override
          /\ row'[p].status = "published"
          /\ \A q \in Proposals \ {p} : row'[q] = row[q]
      BY <1>p, <1>0, <1>1, <1>26 DEF FinishPublished, SetMine, Mine, RowType, SameStamps
    <2>2. Answered(p)
      BY <1>p, <1>0, <1>26 DEF FinishPublished, AttemptKnows, At
    <2>3. AttemptKnows(w)' /\ Moving
      <3>1. CASE Return(w)
        BY <3>1, <1>5
      <3>2. CASE op[w].media # NoContainer /\ Goto(w, "readback")
        <4>1. LaneIsFree(p) /\ IsNewest(p)
          BY <3>2, <1>p, <1>0, <1>4, <1>26 DEF FinishPublished, AttemptKnows, At
        <4>2. AllPosts' = AllPosts /\ \A c \in AllPosts : Slack(c)' = Slack(c)
          BY <2>1, <1>26, <1>0, PostIsRecorded
          DEF FinishPublished, AllPosts, Slack, SameStamps
        <4>3. (LaneIsFree(p) /\ IsNewest(p))'
          BY <2>1, <4>1, <4>2, <1>26
          DEF FinishPublished, LaneIsFree, Flying, IsNewest, Follows
        <4>4. /\ op'[w].pc = "readback" /\ op'[w].prop = p
              /\ op'[w].media = op[w].media /\ Moving
          BY <3>2, <1>6 DEF PCs
        <4>q. QED BY <2>1, <4>3, <4>4, <1>8, <1>12 DEF AttemptKnows, At
      <3>q. QED BY <3>1, <3>2, <1>26 DEF FinishPublished
    <2>q. QED BY <2>1, <2>2, <2>3, <1>9, <1>26 DEF FinishPublished, Flying, InFlight
  <1>27. CASE FlagTopicRejected(w) \/ FlagMismatch(w)
    <2>1. /\ SameStamps(p) /\ row'[p].override = row[p].override
          /\ row'[p].status = row[p].status
          /\ \A q \in Proposals \ {p} : row'[q] = row[q]
      BY <1>11, <1>27 DEF FlagTopicRejected, FlagMismatch
    <2>2. AttemptKnows(w)' /\ Moving
      BY <1>5, <1>27 DEF FlagTopicRejected, FlagMismatch
    <2>3. UNCHANGED <<now, box>>
      BY <1>27 DEF FlagTopicRejected, FlagMismatch
    <2>q. QED BY <2>1, <2>2, <2>3, <1>9, <1>13
  <1>28. CASE ClaimRefused(w) \/ Crash(w)
    <2>1. AttemptKnows(w)' /\ Moving /\ UNCHANGED <<now, row, box>>
      BY <1>5, <1>28 DEF ClaimRefused, Crash
    <2>q. QED BY <2>1, <1>9, <1>13 DEF SameStamps
  <1>29. CASE SendPublish(w) \/ PublishUnclear(w)
    <2>1. AttemptKnows(w)' /\ Moving /\ UNCHANGED <<now, row, box>>
      BY <1>6, <1>7, <1>8, <1>29 DEF SendPublish, PublishUnclear, PCs
    <2>q. QED BY <2>1, <1>9, <1>13 DEF SameStamps
  <1>30. CASE FetchStatus(w)
    <2>1. /\ op'[w].pc = "store_reconcile" /\ op'[w].prop = p
          /\ op'[w].media = op[w].media /\ Moving
      BY <1>p, <1>0, <1>2, <1>30 DEF FetchStatus, OpType
    <2>2. UNCHANGED <<now, row, box>>
      BY <1>30 DEF FetchStatus
    <2>3. op[w].media # NoContainer => Flying(p)'
      BY <2>2, <1>p, <1>0, <1>30 DEF FetchStatus, AttemptKnows, At, Flying
    <2>4. AttemptKnows(w)'
      BY <2>1, <2>2, <2>3, <1>a, <1>8
    <2>q. QED BY <2>1, <2>2, <2>4, <1>9, <1>13 DEF SameStamps
  <1>31. CASE RecordTrigger(w)
    <2>1. /\ SameStamps(p) /\ row'[p].override = op[w].override
          /\ row'[p].status = row[p].status
          /\ \A q \in Proposals \ {p} : row'[q] = row[q]
          /\ UNCHANGED <<now, box>>
      BY <1>p, <1>0, <1>1, <1>31 DEF RecordTrigger, SetMine, Mine, RowType, SameStamps
    <2>2. row[p].status = "planned"
      BY <1>p, <1>0, <1>31 DEF RecordTrigger, StepKnows, At
    <2>3. /\ op'[w].pc = "set_creating" /\ op'[w].prop = p
          /\ op'[w].media = op[w].media /\ Moving
      BY <1>6, <1>31 DEF RecordTrigger, PCs
    <2>4. LaneIsFree(p) /\ Clear(p, op[w].override)
      BY <1>p, <1>0, <1>31 DEF RecordTrigger, AttemptKnows, At
    <2>5. (LaneIsFree(p) /\ Clear(p, row[p].override))'
      <3>1. \A c \in AllPosts : Slack(c)' = Slack(c)
        BY <2>1, <1>0, PostIsRecorded DEF Slack, SameStamps, AllPosts
      <3>q. QED BY <2>1, <2>4, <3>1 DEF LaneIsFree, Flying, Clear, AllPosts
    <2>6. AttemptKnows(w)'
      BY <2>3, <2>5, <1>8, <1>12, <2>1 DEF AttemptKnows, At
    <2>7. BasisIsClose(p)'
      BY <2>1, <2>2, <1>1, <1>4, StampsKept
    <2>8. Posts(p) = {} /\ ~Flying(p)'
      BY <2>1, <2>2, <1>0, <1>1, FreeHasNoPost DEF Flying, InFlight
    <2>q. QED BY <2>1, <2>3, <2>6, <2>7, <2>8, <1>0, <1>1, <1>3, RowStep
  <1>32. CASE Claim(w)
    <2>1. row[p].status \in Retryable \cup {"none"}
      BY <1>p, <1>32 DEF Claim, Mine
    <2>2. Posts(p) = {} /\ row[p].media = NoContainer
      BY <2>1, <1>0, <1>1, FreeHasNoPost DEF Retryable
    <2>3. /\ row'[p].status = "planned" /\ row'[p].media = NoContainer
          /\ \A q \in Proposals \ {p} : row'[q] = row[q]
          /\ UNCHANGED <<now, box>>
      <3>1. CASE SetMine(w, [EmptyRow EXCEPT !.status = "planned"])
        BY <1>p, <3>1, <1>0, <1>32 DEF Claim, SetMine, EmptyRow
      <3>2. CASE SetMine(w, [Mine(w) EXCEPT !.status = "planned", !.retries = @ + 1])
        BY <1>p, <2>2, <3>2, <1>0, <1>32 DEF Claim, SetMine, Mine, RowType
      <3>q. QED BY <3>1, <3>2, <1>32 DEF Claim
    <2>4. BasisIsClose(p)'
      <3>1. CASE SetMine(w, [EmptyRow EXCEPT !.status = "planned"])
        <4>1. row'[p].remoteAt = NoTime /\ row'[p].returnedAt = NoTime
              /\ row'[p].reconciledAt = NoTime
          BY <1>p, <3>1, <1>0, <1>1 DEF SetMine, EmptyRow
        <4>q. QED BY <4>1, <2>3, <1>0 DEF BasisIsClose, NoTime
      <3>2. CASE SetMine(w, [Mine(w) EXCEPT !.status = "planned", !.retries = @ + 1])
        <4>1. SameStamps(p)
          BY <1>p, <3>2, <1>0, <1>1 DEF SetMine, Mine, RowType, SameStamps
        <4>q. QED BY <4>1, <2>3, <1>1, <1>4, StampsKept
      <3>q. QED BY <3>1, <3>2, <1>32 DEF Claim
    <2>5. /\ op'[w].pc = "record_trigger" /\ op'[w].prop = p
          /\ op'[w].media = op[w].media /\ op'[w].override = op[w].override
          /\ Moving
      BY <1>6, <1>32 DEF Claim, PCs
    <2>6. LaneIsFree(p) /\ Clear(p, op[w].override)
      BY <1>p, <1>0, <1>32 DEF Claim, AttemptKnows, At
    <2>7. (LaneIsFree(p) /\ Clear(p, op[w].override))'
      <3>1. \A c \in AllPosts : box[c].owner # p => Slack(c)' = Slack(c)
        BY <2>3, <1>0, PostIsRecorded DEF Slack, AllPosts
      <3>q. QED BY <2>3, <2>5, <2>6, <3>1 DEF LaneIsFree, Flying, Clear, AllPosts
    <2>8. AttemptKnows(w)'
      BY <2>2, <2>3, <2>5, <2>7, <1>8 DEF AttemptKnows, At
    <2>q. QED BY <2>2, <2>3, <2>4, <2>5, <2>8, <1>0, <1>1, <1>3, RowStep
              DEF Flying, InFlight
  <1>33. CASE StoreCreation(w)
    <2>1. /\ row'[p].status = row[p].status /\ row'[p].override = row[p].override
          /\ row'[p].media = row[p].media /\ row'[p].remoteAt = row[p].remoteAt
          /\ row'[p].returnedAt = row[p].returnedAt
          /\ row'[p].reconciledAt = row[p].reconciledAt
          /\ \A q \in Proposals \ {p} : row'[q] = row[q]
          /\ UNCHANGED <<now, box>>
      BY <1>p, <1>0, <1>1, <1>33 DEF StoreCreation, SetMine, Mine, RowType
    <2>2. row[p].status = "creating"
      BY <1>p, <1>0, <1>33 DEF StoreCreation, StepKnows, At
    <2>3. BasisIsClose(p)'
      BY <2>1, <2>2, <1>4 DEF BasisIsClose
    <2>4. AttemptKnows(w)' /\ Moving
      BY <2>1, <1>6, <1>7, <1>8, <1>33 DEF StoreCreation, PCs
    <2>q. QED BY <2>1, <2>3, <2>4, <1>0, <1>1, <1>3, <1>4, RowStep DEF Flying
  <1>34. CASE PublishSucceeds(w)
    <2> DEFINE c == op[w].creation
    <2>a. PICK t \in OpNow(w) :
             SetMine(w, [Mine(w) EXCEPT !.media = c, !.returnedAt = t])
      BY <1>34 DEF PublishSucceeds
    <2>b. t \in Nat /\ t <= now /\ t + MaxLag >= now
      BY OpNowIsTime, ConstantsAssumption DEF Time
    <2>1. /\ row'[p].status = row[p].status /\ row'[p].override = row[p].override
          /\ row'[p].media = c /\ row'[p].remoteAt = row[p].remoteAt
          /\ row'[p].returnedAt = t
          /\ row'[p].reconciledAt = row[p].reconciledAt
          /\ \A q \in Proposals \ {p} : row'[q] = row[q]
          /\ UNCHANGED <<now, box>>
      BY <2>a, <1>p, <1>0, <1>1, <1>34 DEF PublishSucceeds, SetMine, Mine, RowType
    <2>2. /\ c \in Containers /\ c = row[p].creation /\ row[p].status = "publishing"
          /\ box[c].status = "published"
      BY <1>p, <1>0, <1>34 DEF PublishSucceeds, StepKnows, At
    <2>3. row[p].media # NoContainer => row[p].media = c
      BY <2>2, <1>0, <1>1 DEF DataInv, RowIsTrue
    <2>4. box[c].at \in 0 .. now
      BY <2>2 DEF LaneInv, PostsArePast, AllPosts
    <2> HIDE DEF c
    <2>5. BasisIsClose(p)'
      <3>1. t + MaxLag >= box[c].at
        BY <2>b, <2>4, <1>0, ConstantsAssumption
      <3>q. QED BY <2>1, <2>2, <2>3, <2>b, <3>1, <1>0, <1>4, ConstantsAssumption
                DEF BasisIsClose, Answered
    <2>6. Answered(p)'
      BY <2>1, <2>b DEF Answered, NoTime
    <2>7. /\ op'[w].pc = "finish" /\ op'[w].prop = p /\ op'[w].media = c /\ Moving
      BY <1>p, <1>0, <1>2, <1>34 DEF PublishSucceeds, OpType, c
    <2>8. AttemptKnows(w)'
      <3>1. Flying(p)'
        BY <2>1, <2>2 DEF Flying, InFlight
      <3>q. QED BY <2>1, <2>6, <2>7, <3>1, <1>a
    <2>q. QED BY <2>1, <2>5, <2>7, <2>8, <1>0, <1>1, <1>3, <1>4, RowStep DEF Flying
  <1>35. CASE Readback(w)
    <2>1. PICK t \in {box[op[w].media].at, NoTime} :
             SetMine(w, [Mine(w) EXCEPT !.remoteAt = t])
      BY <1>35 DEF Readback
    <2>2. /\ row'[p].status = row[p].status /\ row'[p].override = row[p].override
          /\ row'[p].media = row[p].media /\ row'[p].remoteAt = t
          /\ row'[p].creation = row[p].creation
          /\ row'[p].returnedAt = row[p].returnedAt
          /\ row'[p].reconciledAt = row[p].reconciledAt
          /\ \A q \in Proposals \ {p} : row'[q] = row[q]
          /\ UNCHANGED <<now, box>>
      BY <1>p, <2>1, <1>0, <1>1, <1>35 DEF Readback, SetMine, Mine, RowType
    <2>3. op[w].media = row[p].media /\ row[p].media # NoContainer
      BY <1>8, <1>35, ConstantsAssumption DEF Readback, TypeInv
    <2>4. BasisIsClose(p)'
      BY <2>1, <2>2, <2>3, <1>4 DEF BasisIsClose, Answered
    <2>5. AttemptKnows(w)' /\ Moving
      BY <2>2, <1>5, <1>6, <1>7, <1>8, <1>35 DEF Readback, PCs
    <2>6. LaneIsFree(p) /\ IsNewest(p)
      BY <1>p, <1>0, <1>35 DEF Readback, AttemptKnows, At
    <2>7. GapRespected'
      <3>1. AllPosts' = AllPosts
        BY <2>2 DEF AllPosts
      <3>2. \A a \in AllPosts : /\ box[a].owner \in Proposals /\ a \in Containers
                                /\ row'[box[a].owner].override = row[box[a].owner].override
                                /\ box[a].owner # p => Slack(a)' = Slack(a)
        BY <2>2, <1>0, PostIsRecorded DEF Slack, AllPosts
      <3> SUFFICES ASSUME NEW a \in AllPosts, NEW b \in AllPosts,
                          box[a].owner \in Articles, box[b].owner \in Articles,
                          a # b, box[a].at <= box[b].at
                   PROVE  \/ Follows(b, a)'
                          \/ row[box[b].owner].override
                          \/ /\ box[a].at = box[b].at
                             /\ row[box[a].owner].override \/ Follows(a, b)'
        BY <2>2, <3>1, <3>2 DEF GapRespected
      <3>3. box[a].at \in Nat /\ box[b].at \in Nat
        BY DEF LaneInv, PostsArePast
      <3>4. box[a].owner # box[b].owner
        BY <1>0, PostIsRecorded
      <3>5. CASE box[a].owner = p
        <4>1. box[b].at <= box[a].at /\ (Follows(a, b) \/ row[p].override)
          BY <2>6, <3>4, <3>5 DEF IsNewest
        <4>2. Follows(a, b)' <=> Follows(a, b)
          BY <2>2, <3>2, <3>4, <3>5 DEF Follows
        <4>q. QED BY <3>3, <3>5, <4>1, <4>2
      <3>6. CASE box[b].owner = p
        <4>1. Follows(b, a) \/ row[p].override
          BY <2>6, <3>4, <3>6 DEF IsNewest
        <4>2. Follows(b, a)' <=> Follows(b, a)
          BY <2>2, <3>2, <3>4, <3>6 DEF Follows
        <4>q. QED BY <3>6, <4>1, <4>2
      <3>7. CASE box[a].owner # p /\ box[b].owner # p
        <4>1. (Follows(b, a)' <=> Follows(b, a)) /\ (Follows(a, b)' <=> Follows(a, b))
          BY <2>2, <3>2, <3>7 DEF Follows
        <4>q. QED BY <4>1 DEF LaneInv, GapRespected
      <3>q. QED BY <3>5, <3>6, <3>7
    <2>q. QED BY <2>2, <2>4, <2>5, <2>6, <2>7, <1>0, <1>1, <1>3, <1>4, WriteLane
              DEF Flying
  <1>36. CASE StoreReconcile(w)
    <2>a. PICK t \in OpNow(w) :
             SetMine(w, [Mine(w) EXCEPT !.reconciledAt =
                           Later(Mine(w).reconciledAt, t)])
      BY <1>36 DEF StoreReconcile
    <2>b. PICK late : late = Later(row[p].reconciledAt, t)
      OBVIOUS
    <2>c. late \in Nat /\ late <= now /\ late + MaxLag >= now
      <3>1. t \in Nat /\ t <= now /\ t + MaxLag >= now
        BY OpNowIsTime, ConstantsAssumption DEF Time
      <3>2. row[p].reconciledAt \in Nat \cup {-1} /\ row[p].reconciledAt <= now
        BY <1>0, <1>1, <1>4, ConstantsAssumption
        DEF RowType, Stamp, Time, NoTime, BasisIsClose
      <3>q. QED BY <2>b, <3>1, <3>2, <1>0, ConstantsAssumption DEF Later
    <2>1. /\ row'[p].status = row[p].status /\ row'[p].override = row[p].override
          /\ row'[p].media = row[p].media /\ row'[p].remoteAt = row[p].remoteAt
          /\ row'[p].creation = row[p].creation
          /\ row'[p].returnedAt = row[p].returnedAt
          /\ row'[p].reconciledAt = late
          /\ \A q \in Proposals \ {p} : row'[q] = row[q]
          /\ UNCHANGED <<now, box>>
      BY <2>a, <2>b, <1>p, <1>0, <1>1, <1>36
      DEF StoreReconcile, SetMine, Mine, RowType
    <2>2. row[p].creation \in AllPosts => Answered(p)'
      <3>1. row[p].creation \in AllPosts => box[row[p].creation].at \in 0 .. now
        BY DEF LaneInv, PostsArePast
      <3>q. QED BY <2>1, <2>c, <3>1, <1>0, ConstantsAssumption DEF Answered, NoTime
    <2>3. row[p].status = "published" => row[p].creation \in AllPosts
      BY <1>0, <1>1 DEF DataInv, RowIsTrue, RowType, AllPosts
    <2>4. BasisIsClose(p)'
      BY <2>1, <2>2, <2>3, <2>c, <1>0, <1>4 DEF BasisIsClose
    <2>5. CASE Return(w)
      BY <2>1, <2>4, <2>5, <1>0, <1>1, <1>3, <1>4, <1>5, RowStep DEF Flying
    <2>6. CASE op[w].seen = "ended" /\ Goto(w, "set_failed")
      <3>1. AttemptKnows(w)' /\ Moving
        BY <2>1, <2>6, <1>6, <1>7, <1>8 DEF PCs
      <3>q. QED BY <2>1, <2>4, <3>1, <1>0, <1>1, <1>3, <1>4, RowStep DEF Flying
    <2>7. CASE op[w].seen = "published" /\ Goto(w, "finish")
      <3>1. row[p].creation \in AllPosts
        BY <1>p, <2>7, <1>0, <1>36 DEF StoreReconcile, StepKnows, At, AllPosts
      <3>a. op[w].media # NoContainer => Flying(p)'
        BY <2>1, <1>p, <1>0, <1>36 DEF StoreReconcile, AttemptKnows, At, Flying
      <3>b. /\ op'[w].pc = "finish" /\ op'[w].prop = p
            /\ op'[w].media = op[w].media /\ Moving
        BY <2>7, <1>6 DEF PCs
      <3>2. AttemptKnows(w)' /\ Moving
        BY <2>1, <2>2, <3>1, <3>a, <3>b, <1>a, <1>8
      <3>q. QED BY <2>1, <2>4, <3>2, <1>0, <1>1, <1>3, <1>4, RowStep DEF Flying
    <2>q. QED BY <2>5, <2>6, <2>7, <1>36 DEF StoreReconcile
  <1>37. ASSUME NEW d \in Containers, CreateSucceeds(w, d)
         PROVE  LaneInv'
    <2>1. /\ box[d].status = "absent" /\ box'[d].status = "open"
          /\ \A e \in Containers \ {d} : box'[e] = box[e]
          /\ UNCHANGED <<now, row>>
      BY <1>0, <1>37 DEF CreateSucceeds
    <2>2. AllPosts' = AllPosts /\ \A e \in AllPosts : box'[e] = box[e]
      BY <2>1 DEF AllPosts
    <2>3. /\ op'[w].pc = "store_creation" /\ op'[w].prop = p
          /\ op'[w].media = op[w].media /\ Moving
      BY <1>p, <1>0, <1>2, <1>37 DEF CreateSucceeds, OpType
    <2>4. AttemptKnows(w)'
      BY <2>1, <2>3, <1>7, <1>8 DEF PCs
    <2>5. ASSUME NEW v \in Workers \ {w} PROVE AttemptKnows(v)'
      BY <2>3 DEF AttemptKnows, At
    <2>q. QED BY <2>1, <2>2, <2>4, <2>5, <1>0, PostsKept
  <1>q. QED
    BY <1>20, <1>21, <1>22, <1>23, <1>24, <1>25, <1>26, <1>27, <1>28, <1>29,
       <1>30, <1>31, <1>32, <1>33, <1>34, <1>35, <1>36, <1>37
    DEF PublishStep, ReconcileStep

\* The one step that makes a post: it joins posts it keeps its distance from.
LEMMA AppearsClear ==
    ASSUME TypeInv, OnceInv, LaneInv, NEW c \in Containers, ServerPublishes(c)
    PROVE  LaneInv'
  <1>0. /\ box \in [Containers -> BoxType] /\ row \in [Proposals -> RowType]
        /\ now \in Nat /\ TypeOK /\ DataInv /\ UNCHANGED <<now, row, op>>
    BY DEF TypeInv, TypeOK, OnceInv, DataInv, Time, ServerPublishes
  <1>1. /\ box[c].status = "open" /\ c \in sent
        /\ box'[c].owner = box[c].owner /\ box'[c].status = "published"
        /\ box'[c].at = now
        /\ \A d \in Containers \ {c} : box'[d] = box[d]
    BY <1>0 DEF ServerPublishes, BoxType
  <1>2. c \notin AllPosts /\ AllPosts' = AllPosts \cup {c}
    BY <1>1 DEF AllPosts
  <1>p. PICK p \in Proposals : /\ p = box[c].owner /\ row[p].creation = c
                               /\ row[p].status \in {"publishing", "uncertain", "published"}
    BY <1>1 DEF OnceInv, LiveIsRecorded, Live
  <1>3. Flying(p)
    BY <1>p, <1>0, <1>1 DEF DataInv, RowIsTrue, Flying, InFlight
  <1>4. LaneIsFree(p) /\ Clear(p, row[p].override)
    BY <1>3 DEF LaneInv
  <1>5. \A d \in AllPosts : /\ d \in Containers /\ box'[d] = box[d] /\ d # c
                            /\ box[d].at \in Nat /\ box[d].at <= now
                            /\ box[d].owner # p
    <2>1. \A d \in AllPosts : box[d].at \in 0 .. now /\ d \in Containers /\ d # c
      BY <1>2 DEF LaneInv, PostsArePast, AllPosts
    <2>2. \A d \in AllPosts : row[box[d].owner].creation = d
      BY <1>0, PostIsRecorded
    <2>q. QED BY <1>1, <1>p, <2>1, <2>2
  <1>6. PostsArePast'
    BY <1>0, <1>1, <1>2, <1>5 DEF LaneInv, PostsArePast
  <1>7. ASSUME NEW q \in Proposals PROVE BasisIsClose(q)'
    <2>1. row[q].media # NoContainer => row[q].media \in AllPosts
      BY <1>0 DEF DataInv, RowIsTrue, RowType, AllPosts
    <2>2. row[q].status = "published" => row[q].creation \in AllPosts
      BY <1>0 DEF DataInv, RowIsTrue, RowType, AllPosts
    <2>q. QED BY <1>0, <1>5, <2>1, <2>2 DEF LaneInv, BasisIsClose, Answered
  <1>s. \A d \in AllPosts : Slack(d)' = Slack(d)
    BY <1>0, <1>5 DEF Slack
  <1>t. ASSUME NEW d \in AllPosts, p \in Articles, box[d].owner \in Articles
        PROVE  Follows(c, d)' \/ row[p].override
    <2>1. row[p].override \/ now + Slack(d) >= box[d].at + Gap
      BY <1>4, <1>5, <1>t DEF Clear
    <2>q. QED BY <2>1, <1>0, <1>1, <1>5, <1>s DEF Follows
  <1>8. ASSUME NEW q \in Proposals, Flying(q)'
        PROVE  (LaneIsFree(q) /\ Clear(q, row[q].override) /\ IsNewest(q))'
    <2>1. LaneIsFree(q) /\ Clear(q, row[q].override) /\ IsNewest(q) /\ Flying(q)
      BY <1>0, <1>8 DEF LaneInv, Flying
    <2>2. q # p => ~SameLane(p, q)
      BY <1>4, <2>1 DEF LaneIsFree
    <2>3. Clear(q, row[q].override)'
      BY <1>0, <1>1, <1>2, <1>5, <1>p, <1>s, <2>1, <2>2
      DEF Clear, SameLane, Articles
    <2>4. IsNewest(q)'
      <3>1. CASE q = p
        BY <3>1, <1>0, <1>1, <1>2, <1>5, <1>p, <1>t DEF IsNewest
      <3>2. CASE q # p
        <4>1. \A a, d \in AllPosts : Follows(a, d)' <=> Follows(a, d)
          BY <1>0, <1>5, <1>s DEF Follows
        <4>q. QED BY <3>2, <4>1, <1>0, <1>1, <1>2, <1>5, <1>p, <2>1, <2>2
                  DEF IsNewest, SameLane, Articles
      <3>q. QED BY <3>1, <3>2
    <2>q. QED BY <1>0, <2>1, <2>3, <2>4 DEF LaneIsFree, Flying
  <1>9. GapRespected'
    <2> SUFFICES ASSUME NEW a \in AllPosts', NEW b \in AllPosts',
                        box'[a].owner \in Articles, box'[b].owner \in Articles,
                        a # b, box'[a].at <= box'[b].at
                 PROVE  \/ Follows(b, a)'
                        \/ row'[box'[b].owner].override
                        \/ /\ box'[a].at = box'[b].at
                           /\ row'[box'[a].owner].override \/ Follows(a, b)'
      BY DEF GapRespected
    <2>1. CASE a # c /\ b # c
      <3>1. a \in AllPosts /\ b \in AllPosts /\ box'[a] = box[a] /\ box'[b] = box[b]
        BY <1>2, <1>5, <2>1
      <3>2. (Follows(b, a)' <=> Follows(b, a)) /\ (Follows(a, b)' <=> Follows(a, b))
        BY <3>1, <1>0, <1>s DEF Follows
      <3>q. QED BY <1>0, <3>1, <3>2 DEF LaneInv, GapRespected
    <2>2. CASE b = c
      <3>1. a \in AllPosts /\ box'[a] = box[a] /\ box[a].owner # p
        BY <1>2, <1>5, <2>2
      <3>q. QED BY <1>0, <1>1, <1>t, <1>p, <2>2, <3>1
    <2>3. CASE a = c
      <3>1. b \in AllPosts /\ box'[b] = box[b] /\ box[b].at <= now /\ box[b].at \in Nat
        BY <1>2, <1>5, <2>3
      <3>2. box[b].at = now
        BY <1>0, <1>1, <2>3, <3>1
      <3>q. QED BY <1>0, <1>1, <1>t, <1>p, <2>3, <3>1, <3>2
    <2>q. QED BY <2>1, <2>2, <2>3
  <1>10. OneGrowthPostPerDay'
    <2>1. \A d \in AllPosts : box[d].owner \in Growth /\ p \in Growth
                                => Day(box[d].at) # Day(now) \/ AtMidnight(box[d].at)
      <3>1. \A d \in AllPosts : Day(box[d].at) \in Nat
        BY <1>0, <1>5, DayMono
      <3>q. QED BY <1>0, <1>4, <1>5, <3>1, DayMono DEF Clear
    <2> SUFFICES ASSUME NEW a \in AllPosts', NEW b \in AllPosts', a # b,
                        box'[a].owner \in Growth, box'[b].owner \in Growth,
                        Day(box'[a].at) = Day(box'[b].at), box'[a].at <= box'[b].at
                 PROVE  AtMidnight(box'[a].at)
      BY DEF OneGrowthPostPerDay
    <2>2. CASE a # c /\ b # c
      BY <2>2, <1>2, <1>5 DEF LaneInv, OneGrowthPostPerDay
    <2>3. CASE b = c
      BY <2>1, <2>3, <1>0, <1>1, <1>2, <1>5, <1>p
    <2>4. CASE a = c
      <3>1. b \in AllPosts /\ box'[b] = box[b] /\ box[b].at <= now /\ box[b].at \in Nat
        BY <1>2, <1>5, <2>4
      <3>2. box[b].at = now
        BY <1>0, <1>1, <2>4, <3>1
      <3>q. QED BY <2>1, <2>4, <3>1, <3>2, <1>0, <1>1, <1>p
    <2>q. QED BY <2>2, <2>3, <2>4
  <1>11. ASSUME NEW w \in Workers PROVE AttemptKnows(w)'
    <2>1. AttemptKnows(w) /\ StepKnows(w) /\ (~At(w, "idle") => op[w].prop \in Proposals)
      BY DEF LaneInv, OnceInv, TypeInv
    <2>2. At(w, "finish") => (row[op[w].prop].creation \in AllPosts)
      BY <2>1 DEF StepKnows, AllPosts
    <2>3. At(w, "finish") => Answered(op[w].prop)'
      BY <1>0, <1>5, <2>1, <2>2 DEF AttemptKnows, Answered
    <2>4. \A q \in Proposals : LaneIsFree(q) /\ q # p => ~SameLane(q, p)
      BY <1>3 DEF LaneIsFree
    <2>5. op[w].pc \in {"claim", "record_trigger", "set_creating"} =>
            op[w].prop \in Proposals /\ ~Flying(op[w].prop)
      BY <2>1 DEF StepKnows, At, Flying, InFlight, Retryable
    <2>6. op[w].pc \in {"claim", "record_trigger"} =>
            (LaneIsFree(op[w].prop) /\ Clear(op[w].prop, op[w].override))'
      BY <1>0, <1>1, <1>2, <1>3, <1>5, <1>p, <1>s, <2>1, <2>4, <2>5
      DEF AttemptKnows, LaneIsFree, Flying, Clear, SameLane, Articles
    <2>7. At(w, "set_creating") =>
            (LaneIsFree(op[w].prop) /\ Clear(op[w].prop, row[op[w].prop].override))'
      BY <1>0, <1>1, <1>2, <1>3, <1>5, <1>p, <1>s, <2>1, <2>4, <2>5
      DEF AttemptKnows, LaneIsFree, Flying, Clear, SameLane, Articles, At
    <2>8. At(w, "readback") => (LaneIsFree(op[w].prop) /\ IsNewest(op[w].prop))'
      <3> SUFFICES ASSUME At(w, "readback")
                   PROVE  (LaneIsFree(op[w].prop) /\ IsNewest(op[w].prop))'
        OBVIOUS
      <3>1. PICK q \in Proposals : q = op[w].prop
        BY <2>1 DEF At
      <3>2. LaneIsFree(q) /\ IsNewest(q)
        BY <2>1, <3>1 DEF AttemptKnows
      <3>3. CASE q = p
        BY <3>1, <3>3, <1>0, <1>3, <1>8 DEF Flying
      <3>4. CASE q # p
        <4>1. ~SameLane(q, p)
          BY <2>4, <3>2, <3>4
        <4>2. \A a, d \in AllPosts : Follows(a, d)' <=> Follows(a, d)
          BY <1>0, <1>5, <1>s DEF Follows
        <4>3. IsNewest(q)'
          BY <3>2, <3>4, <4>1, <4>2, <1>0, <1>1, <1>2, <1>5, <1>p
          DEF IsNewest, SameLane, Articles
        <4>q. QED BY <1>0, <3>1, <3>2, <4>3 DEF LaneIsFree, Flying
      <3>q. QED BY <3>3, <3>4
    <2>q. QED BY <1>0, <2>1, <2>3, <2>6, <2>7, <2>8 DEF AttemptKnows, At, Flying
  <1>q. QED BY <1>6, <1>7, <1>8, <1>9, <1>10, <1>11 DEF LaneInv

LEMMA EnvironmentLane ==
    ASSUME TypeInv, OnceInv, LaneInv, Environment
    PROVE  LaneInv'
  <1>0. /\ box \in [Containers -> BoxType] /\ now \in Nat /\ DataInv
    BY DEF TypeInv, TypeOK, OnceInv, DataInv, Time
  <1>1. ASSUME NEW c \in Containers, ServerPublishes(c)
        PROVE  LaneInv'
    BY <1>1, AppearsClear
  \* Nothing becomes a post, and nothing that is one changes.
  <1>2. ASSUME UNCHANGED <<row, op>>, now' \in Nat, now' >= now,
               AllPosts' = AllPosts, \A c \in AllPosts : box'[c] = box[c]
        PROVE  LaneInv'
    <2>1. ASSUME NEW w \in Workers PROVE AttemptKnows(w)'
      <3>1. AttemptKnows(w) /\ StepKnows(w) /\ PostsArePast
        BY DEF LaneInv, OnceInv
      <3>2. At(w, "finish") => row[op[w].prop].creation \in AllPosts
        BY <3>1 DEF StepKnows, AllPosts
      <3>3. At(w, "finish") => Answered(op[w].prop)'
        BY <1>2, <3>1, <3>2 DEF AttemptKnows, Answered
      <3>s. \A c \in AllPosts : Slack(c)' = Slack(c)
        BY <1>2 DEF Slack
      <3>4. ASSUME op[w].pc \in {"claim", "record_trigger"}
            PROVE  (LaneIsFree(op[w].prop) /\ Clear(op[w].prop, op[w].override))'
        <4>1. LaneIsFree(op[w].prop) /\ Clear(op[w].prop, op[w].override)
          BY <3>1, <3>4 DEF AttemptKnows
        <4>2. Clear(op[w].prop, op[w].override)'
          BY <1>0, <1>2, <3>1, <3>s, <4>1, ClearLater DEF Clear
        <4>q. QED BY <1>2, <4>1, <4>2 DEF LaneIsFree, Flying
      <3>5. ASSUME At(w, "set_creating")
            PROVE  (LaneIsFree(op[w].prop) /\ Clear(op[w].prop, row[op[w].prop].override))'
        <4>1. LaneIsFree(op[w].prop) /\ Clear(op[w].prop, row[op[w].prop].override)
          BY <3>1, <3>5 DEF AttemptKnows
        <4>2. Clear(op[w].prop, row[op[w].prop].override)'
          BY <1>0, <1>2, <3>1, <3>s, <4>1, ClearLater DEF Clear
        <4>q. QED BY <1>2, <4>1, <4>2 DEF LaneIsFree, Flying
      <3>6. ASSUME At(w, "readback")
            PROVE  (LaneIsFree(op[w].prop) /\ IsNewest(op[w].prop))'
        <4>1. LaneIsFree(op[w].prop) /\ IsNewest(op[w].prop)
          BY <3>1, <3>6 DEF AttemptKnows
        <4>q. QED BY <1>2, <3>s, <4>1 DEF LaneIsFree, Flying, IsNewest, Follows
      <3>q. QED BY <1>2, <3>1, <3>3, <3>4, <3>5, <3>6 DEF AttemptKnows, At, Flying
    <2>q. QED BY <1>0, <1>2, <2>1, PostsKept
  <1>3. ASSUME NEW c \in Containers, ServerDrops(c)
        PROVE  LaneInv'
    BY <1>0, <1>2, <1>3 DEF ServerDrops, AllPosts
  <1>4. ASSUME NEW c \in Containers, ContainerEnds(c)
        PROVE  LaneInv'
    <2>1. /\ box[c].status = "open" /\ box'[c].status = "ended"
          /\ \A d \in Containers \ {c} : box'[d] = box[d]
      BY <1>0, <1>4 DEF ContainerEnds, BoxType
    <2>2. AllPosts' = AllPosts /\ \A d \in AllPosts : box'[d] = box[d]
      BY <2>1 DEF AllPosts
    <2>q. QED BY <1>0, <1>2, <1>4, <2>2 DEF ContainerEnds
  <1>5. CASE Tick
    BY <1>0, <1>2, <1>5 DEF Tick, AllPosts
  <1>q. QED BY <1>1, <1>3, <1>4, <1>5 DEF Environment

LEMMA NextLane ==
    ASSUME Serialised
    PROVE  TypeInv /\ OnceInv /\ LaneInv /\ [Next]_vars => LaneInv'
  <1> SUFFICES ASSUME TypeInv, OnceInv, LaneInv, [Next]_vars PROVE LaneInv'
    OBVIOUS
  <1>1. CASE UNCHANGED vars
    <2>1. PostsArePast' /\ GapRespected' /\ OneGrowthPostPerDay'
      BY <1>1 DEF vars, LaneInv, PostsArePast, GapRespected, OneGrowthPostPerDay,
                  AllPosts, Follows, Slack
    <2>2. \A p \in Proposals :
            /\ BasisIsClose(p)'
            /\ (Flying(p) => LaneIsFree(p) /\ Clear(p, row[p].override) /\ IsNewest(p))'
      BY <1>1 DEF vars, LaneInv, BasisIsClose, Answered, Flying, LaneIsFree, Clear,
                  AllPosts, IsNewest, Follows, Slack
    <2>3. \A w \in Workers : AttemptKnows(w)'
      BY <1>1 DEF vars, LaneInv, AttemptKnows, Answered, At, Flying, LaneIsFree,
                  Clear, AllPosts, IsNewest, Follows, Slack
    <2>q. QED BY <2>1, <2>2, <2>3 DEF LaneInv
  <1>2. CASE Next
    BY <1>2, StartLane, StepLane, EnvironmentLane DEF Next
  <1>q. QED BY <1>1, <1>2

\* The whole inductive invariant of a serialised run.
THEOREM LaneInvariant ==
    ASSUME Serialised
    PROVE  Spec => [](TypeInv /\ OnceInv /\ LaneInv)
  BY InitTypes, NextTypes, InitOnce, NextOnce, InitLane, NextLane, PTL DEF Spec

\* Any two article posts are Gap apart as readers see them, unless the row of
\* the later one records a human's override, or the time of the earlier one was
\* not read back, which costs MaxLag: although _check_gap measures from what the
\* rows say, with a clock that is behind, before several commits and an
\* unbounded wait.
THEOREM GapKept ==
    ASSUME Serialised
    PROVE  Spec => []GapRespected
  <1>1. LaneInv => GapRespected
    BY DEF LaneInv
  <1>q. QED BY <1>1, LaneInvariant, PTL

\* No JST day sees two growth posts, on whichever day the requests of
\* _check_growth's posts take effect, unless the first came within MaxLag of
\* midnight.
THEOREM GrowthOncePerDay ==
    ASSUME Serialised
    PROVE  Spec => []OneGrowthPostPerDay
  <1>1. LaneInv => OneGrowthPostPerDay
    BY DEF LaneInv
  <1>q. QED BY <1>1, LaneInvariant, PTL

-----------------------------------------------------------------------------
(* The refinement: serialised operations implement PublicationPromise.       *)

\* The time of a proposal's post is the time of its only post.
PostTimeIs(p) ==
    \/ Posts(p) = {} /\ PostTime(p) = NoTime
    \/ \E c \in Posts(p) : PostTime(p) = box[c].at /\ box[c].at \in 0 .. now

LEMMA PostTimeKnown ==
    /\ PostsArePast => \A p \in Proposals : PostTimeIs(p)
    /\ PostsArePast' => \A p \in Proposals : PostTimeIs(p)'
  <1>1. ASSUME PostsArePast, NEW p \in Proposals PROVE PostTimeIs(p)
    BY <1>1 DEF PostTimeIs, PostTime, Posts, PostsArePast, AllPosts
  <1>2. ASSUME PostsArePast', NEW p \in Proposals PROVE PostTimeIs(p)'
    BY <1>2 DEF PostTimeIs, PostTime, Posts, PostsArePast, AllPosts
  <1>q. QED BY <1>1, <1>2

\* A proposal whose posts stay as they are keeps the time of its post.
LEMMA PostTimeKept ==
    ASSUME TypeOK, DataInv, DataInv', PostsArePast, PostsArePast',
           NEW p \in Proposals,
           Posts(p)' = Posts(p), \A c \in Posts(p) : box'[c].at = box[c].at
    PROVE  PostTime(p)' = PostTime(p)
  <1>1. \A c, d \in Posts(p) : c = d
    BY PostIsRecorded DEF Posts, AllPosts
  <1>2. PostTimeIs(p) /\ PostTimeIs(p)'
    BY PostTimeKnown
  <1>q. QED BY <1>1, <1>2 DEF PostTimeIs

\* The refinement mapping, under the names of PublicationPromise.
belief    == [p \in Proposals |-> BeliefOf(row[p])]
postedAt  == [p \in Proposals |-> PostTime(p)]
humanSaid == [p \in Proposals |-> row[p].override]

LEMMA InitPromise == Init => Promise!Init
  <1> SUFFICES ASSUME Init PROVE Promise!Init
    OBVIOUS
  <1>1. \A p \in Proposals : Posts(p) = {}
    BY DEF Init, NoBox, Posts
  <1>2. \A p \in Proposals : PostTime(p) = NoTime
    BY <1>1 DEF PostTime
  <1>3. \A p \in Proposals : BeliefOf(row[p]) = "free" /\ row[p].override = FALSE
    BY DEF Init, EmptyRow, BeliefOf, InFlight
  <1>q. QED BY <1>2, <1>3 DEF Init, Promise!Init, Promise!NoTime, NoTime

\* A step that keeps clock and posts, and writes one row at most.
LEMMA WriteIsPromised ==
    ASSUME TypeInv, DataInv, DataInv', LaneInv, LaneInv',
           UNCHANGED <<now>>, AllPosts' = AllPosts,
           \A c \in AllPosts : box'[c] = box[c],
           NEW p \in Proposals,
           row' \in [Proposals -> RowType],
           \A q \in Proposals \ {p} : row'[q] = row[q],
           \/ /\ BeliefOf(row'[p]) = BeliefOf(row[p])
              /\ row'[p].override = row[p].override
           \/ BeliefOf(row[p]) = "free" /\ BeliefOf(row'[p]) = "free"
           \/ /\ BeliefOf(row[p]) = "free" /\ BeliefOf(row'[p]) = "unsettled"
              /\ LaneIsFree(p) /\ row'[p].override = row[p].override
           \/ /\ BeliefOf(row[p]) = "unsettled" /\ row'[p].override = row[p].override
              /\ BeliefOf(row'[p]) = IF Posts(p) = {} THEN "free" ELSE "posted"
    PROVE  [Promise!Next]_Promise!vars
  <1>0. row \in [Proposals -> RowType] /\ TypeOK /\ PostsArePast /\ PostsArePast'
    BY DEF TypeInv, TypeOK, LaneInv
  <1>1. postedAt' = postedAt
    <2>1. ASSUME NEW q \in Proposals PROVE PostTime(q)' = PostTime(q)
      <3>1. Posts(q) = {c \in AllPosts : box[c].owner = q}
        BY DEF Posts, AllPosts
      <3>2. Posts(q)' = {c \in AllPosts' : box'[c].owner = q}
        BY DEF Posts, AllPosts
      <3>q. QED BY <3>1, <3>2, <1>0, PostTimeKept
    <2>q. QED BY <2>1 DEF postedAt
  <1>2. CASE /\ BeliefOf(row'[p]) = BeliefOf(row[p])
             /\ row'[p].override = row[p].override
    <2>1. belief' = belief /\ humanSaid' = humanSaid
      BY <1>2 DEF belief, humanSaid
    <2>q. QED BY <1>1, <2>1 DEF Promise!vars, belief, humanSaid, postedAt
  <1>3. CASE BeliefOf(row[p]) = "free" /\ BeliefOf(row'[p]) = "free"
    <2>1. belief' = belief
      BY <1>3 DEF belief
    <2>2. humanSaid' = [humanSaid EXCEPT ![p] = row'[p].override]
      BY DEF humanSaid
    <2>3. row'[p].override \in BOOLEAN
      BY DEF RowType
    <2>4. Promise!Decide(p)
      BY <1>1, <1>3, <2>1, <2>2, <2>3 DEF Promise!Decide, belief, humanSaid, postedAt
    <2>q. QED BY <2>4 DEF Promise!Next
  <1>4. CASE /\ BeliefOf(row[p]) = "free" /\ BeliefOf(row'[p]) = "unsettled"
             /\ LaneIsFree(p) /\ row'[p].override = row[p].override
    <2>1. belief' = [belief EXCEPT ![p] = "unsettled"] /\ humanSaid' = humanSaid
      BY <1>4 DEF belief, humanSaid
    <2>2. \A q \in Proposals \ {p} :
            (p \in Growth) = (q \in Growth) => BeliefOf(row[q]) # "unsettled"
      BY <1>4 DEF LaneIsFree, SameLane, Flying, BeliefOf
    <2>3. Promise!Begin(p)
      BY <1>1, <1>4, <2>1, <2>2 DEF Promise!Begin, belief, humanSaid, postedAt
    <2>q. QED BY <2>3 DEF Promise!Next
  <1>5. CASE /\ BeliefOf(row[p]) = "unsettled" /\ row'[p].override = row[p].override
             /\ BeliefOf(row'[p]) = IF Posts(p) = {} THEN "free" ELSE "posted"
    <2>1. humanSaid' = humanSaid
      BY <1>5 DEF humanSaid
    <2>2. (Posts(p) = {}) <=> (PostTime(p) = NoTime)
      BY <1>0, PostTimeKnown DEF PostTimeIs, NoTime
    <2>3. belief' = [belief EXCEPT ![p] =
                        IF postedAt[p] = NoTime THEN "free" ELSE "posted"]
      BY <1>5, <2>2 DEF belief, postedAt
    <2>4. Promise!Settle(p)
      BY <1>1, <1>5, <2>1, <2>3
      DEF Promise!Settle, Promise!NoTime, NoTime, belief, humanSaid, postedAt
    <2>q. QED BY <2>4 DEF Promise!Next
  <1>q. QED BY <1>2, <1>3, <1>4, <1>5

\* Every step of a process is one of the promise's, or none.
LEMMA StepPromised ==
    ASSUME TypeInv, OnceInv, LaneInv, TypeInv', OnceInv', LaneInv',
           NEW w \in Workers,
           PublishStep(w) \/ ReconcileStep(w) \/ Crash(w)
    PROVE  [Promise!Next]_Promise!vars
  <1>0. /\ row \in [Proposals -> RowType] /\ row' \in [Proposals -> RowType]
        /\ box \in [Containers -> BoxType]
        /\ TypeOK /\ DataInv /\ DataInv' /\ StepKnows(w) /\ AttemptKnows(w)
    BY DEF TypeInv, TypeOK, OnceInv, DataInv, LaneInv
  <1>1. op[w].prop \in Proposals
    BY DEF TypeInv, At, PublishStep, ReconcileStep, Crash, Claim, ClaimRefused,
           RecordTrigger, SetCreating, CreateSucceeds, CreateFails,
           FlagTopicRejected, StoreCreation, SetContainerCreated, SetPublishing,
           SendPublish, PublishSucceeds, PublishUnclear, SetUncertain,
           FinishPublished, Readback, FlagMismatch, FetchStatus, StoreReconcile,
           SetFailed
  <1>p. PICK p \in Proposals : p = op[w].prop
    BY <1>1
  <1> DEFINE Others == \A q \in Proposals \ {p} : row'[q] = row[q]
             Stays  == UNCHANGED <<now, box>>
  \* A write of the status alone.
  <1>2. ASSUME NEW s, SetMine(w, [Mine(w) EXCEPT !.status = s])
        PROVE  /\ row'[p].override = row[p].override /\ row'[p].status = s
               /\ Others
    BY <1>p, <1>0, <1>2 DEF SetMine, Mine, RowType
  <1>3. ASSUME Stays, Others,
               row'[p].status = row[p].status, row'[p].override = row[p].override
        PROVE  [Promise!Next]_Promise!vars
    BY <1>0, <1>3, WriteIsPromised DEF BeliefOf, AllPosts
  <1>4. ASSUME Stays, Others, row'[p].override = row[p].override,
               row[p].status \in InFlight, row'[p].status \in InFlight
        PROVE  [Promise!Next]_Promise!vars
    <2>1. BeliefOf(row'[p]) = BeliefOf(row[p])
      BY <1>4 DEF BeliefOf, InFlight
    <2>q. QED BY <1>0, <1>4, <2>1, WriteIsPromised DEF AllPosts
  \* A settled attempt that reached nobody.
  <1>5. ASSUME Stays, Others, row'[p].override = row[p].override,
               Posts(p) = {}, row'[p].status = "failed"
        PROVE  [Promise!Next]_Promise!vars
    <2>1. BeliefOf(row'[p]) = "free"
      BY <1>5 DEF BeliefOf, InFlight
    <2>2. row[p].status # "published"
      BY <1>0, <1>5 DEF DataInv, RowIsTrue, RowType, Exists, Posts
    <2>3. BeliefOf(row[p]) \in {"free", "unsettled"}
      BY <2>2 DEF BeliefOf
    <2>q. QED BY <1>0, <1>5, <2>1, <2>3, WriteIsPromised DEF AllPosts
  <1>10. CASE Claim(w) \/ RecordTrigger(w)
    <2>1. row[p].status \in Retryable \cup {"none"}
      BY <1>p, <1>0, <1>10 DEF Claim, RecordTrigger, Mine, StepKnows, At, Retryable
    <2>2. row'[p].status = "planned" /\ Others /\ Stays
      <3>1. CASE RecordTrigger(w)
        BY <1>p, <1>0, <3>1 DEF RecordTrigger, SetMine, Mine, RowType, StepKnows, At
      <3>2. CASE SetMine(w, [EmptyRow EXCEPT !.status = "planned"]) /\ Claim(w)
        BY <1>p, <1>0, <3>2 DEF Claim, SetMine, EmptyRow
      <3>3. CASE /\ SetMine(w, [Mine(w) EXCEPT !.status = "planned", !.retries = @ + 1])
                 /\ Claim(w)
        BY <1>p, <1>0, <3>3 DEF Claim, SetMine, Mine, RowType
      <3>q. QED BY <3>1, <3>2, <3>3, <1>10 DEF Claim
    <2>3. BeliefOf(row[p]) = "free" /\ BeliefOf(row'[p]) = "free"
      BY <2>1, <2>2 DEF BeliefOf, InFlight, Retryable
    <2>q. QED BY <1>0, <2>2, <2>3, WriteIsPromised DEF AllPosts
  <1>11. CASE SetCreating(w)
    <2>1. /\ row'[p].override = row[p].override /\ row'[p].status = "creating"
          /\ Others
      BY <1>2, <1>11 DEF SetCreating
    <2>2. row[p].status = "planned" /\ LaneIsFree(p)
      BY <1>p, <1>0, <1>11 DEF SetCreating, StepKnows, AttemptKnows, At
    <2>3. BeliefOf(row[p]) = "free" /\ BeliefOf(row'[p]) = "unsettled"
      BY <2>1, <2>2 DEF BeliefOf, InFlight
    <2>q. QED BY <1>0, <1>11, <2>1, <2>2, <2>3, WriteIsPromised
              DEF SetCreating, AllPosts
  <1>12. CASE CreateFails(w)
    <2>1. row[p].status = "creating"
      BY <1>p, <1>0, <1>12 DEF CreateFails, StepKnows, At
    <2>2. Posts(p) = {}
      BY <1>0, <2>1, FreeHasNoPost
    <2>q. QED BY <1>2, <1>5, <1>12, <2>2 DEF CreateFails
  <1>13. CASE SetFailed(w)
    <2>1. Posts(p) = {}
      <3>1. \A c \in Posts(p) : row[p].creation = c /\ c \in Containers
                                /\ box[c].status = "published"
        BY <1>0, PostIsRecorded DEF Posts, AllPosts
      <3>2. \/ row[p].creation = NoContainer
            \/ box[row[p].creation].status = "ended"
        BY <1>p, <1>0, <1>13 DEF SetFailed, StepKnows, At
      <3>q. QED BY <3>1, <3>2, ConstantsAssumption
    <2>q. QED BY <1>2, <1>5, <1>13, <2>1 DEF SetFailed
  <1>14. CASE SetContainerCreated(w) \/ SetPublishing(w) \/ SetUncertain(w)
    <2>1. row[p].status \in InFlight /\ Stays
      BY <1>p, <1>0, <1>14
      DEF SetContainerCreated, SetPublishing, SetUncertain, StepKnows, At, InFlight
    <2>2. row'[p].override = row[p].override /\ row'[p].status \in InFlight /\ Others
      BY <1>2, <1>14 DEF SetContainerCreated, SetPublishing, SetUncertain, InFlight
    <2>q. QED BY <2>1, <2>2, <1>4
  <1>15. CASE FinishPublished(w)
    <2>1. /\ row'[p].override = row[p].override /\ row'[p].status = "published"
          /\ Others /\ Stays
      BY <1>p, <1>0, <1>15 DEF FinishPublished, SetMine, Mine, RowType
    <2>2. row[p].creation \in Containers /\ box[row[p].creation].status = "published"
      BY <1>p, <1>0, <1>15 DEF FinishPublished, StepKnows, At
    <2>3. row[p].creation \in Posts(p)
      BY <2>2, <1>0, ConstantsAssumption DEF DataInv, RowIsTrue, Exists, Posts
    <2>4. row[p].status \in {"publishing", "uncertain", "published"}
      BY <2>3, <1>0, PostIsRecorded DEF Posts, AllPosts
    <2>5. BeliefOf(row[p]) \in {"unsettled", "posted"} /\ BeliefOf(row'[p]) = "posted"
      BY <2>1, <2>4 DEF BeliefOf, InFlight
    <2>q. QED BY <1>0, <2>1, <2>3, <2>5, WriteIsPromised DEF AllPosts
  <1>16. CASE FlagTopicRejected(w) \/ FlagMismatch(w)
    <2>1. SetMine(w, [Mine(w) EXCEPT !.recon = TRUE]) /\ Stays
      BY <1>16 DEF FlagTopicRejected, FlagMismatch
    <2>q. QED BY <2>1, <1>p, <1>0, <1>3 DEF SetMine, Mine, RowType
  <1>17. CASE StoreCreation(w)
    <2>1. SetMine(w, [Mine(w) EXCEPT !.creation = op[w].creation]) /\ Stays
      BY <1>17 DEF StoreCreation
    <2>q. QED BY <2>1, <1>p, <1>0, <1>3 DEF SetMine, Mine, RowType
  <1>18. CASE PublishSucceeds(w)
    <2>1. PICK t : SetMine(w, [Mine(w) EXCEPT !.media = op[w].creation,
                                              !.returnedAt = t])
      BY <1>18 DEF PublishSucceeds
    <2>2. Stays
      BY <1>18 DEF PublishSucceeds
    <2>q. QED BY <2>1, <2>2, <1>p, <1>0, <1>3 DEF SetMine, Mine, RowType
  <1>19. CASE Readback(w)
    <2>1. PICK t : SetMine(w, [Mine(w) EXCEPT !.remoteAt = t])
      BY <1>19 DEF Readback
    <2>q. QED BY <2>1, <1>p, <1>0, <1>3, <1>19 DEF Readback, SetMine, Mine, RowType
  <1>20. CASE StoreReconcile(w)
    <2>1. PICK t : SetMine(w, [Mine(w) EXCEPT !.reconciledAt = t])
      BY <1>20 DEF StoreReconcile
    <2>2. Stays
      BY <1>20 DEF StoreReconcile
    <2>q. QED BY <2>1, <2>2, <1>p, <1>0, <1>3 DEF SetMine, Mine, RowType
  <1>21. CASE \/ ClaimRefused(w) \/ Crash(w) \/ SendPublish(w) \/ PublishUnclear(w)
              \/ FetchStatus(w)
    BY <1>3, <1>21
    DEF ClaimRefused, Crash, SendPublish, PublishUnclear, FetchStatus
  <1>22. ASSUME NEW c \in Containers, CreateSucceeds(w, c)
         PROVE  [Promise!Next]_Promise!vars
    <2>1. /\ box[c].status = "absent" /\ box'[c].status = "open"
          /\ \A d \in Containers \ {c} : box'[d] = box[d]
          /\ UNCHANGED <<now, row>>
      BY <1>0, <1>22 DEF CreateSucceeds
    <2>2. AllPosts' = AllPosts /\ \A d \in AllPosts : box'[d] = box[d]
      BY <2>1 DEF AllPosts
    <2>q. QED BY <1>0, <2>1, <2>2, WriteIsPromised
  <1>q. QED
    BY <1>10, <1>11, <1>12, <1>13, <1>14, <1>15, <1>16, <1>17, <1>18, <1>19,
       <1>20, <1>21, <1>22
    DEF PublishStep, ReconcileStep

LEMMA EnvironmentPromised ==
    ASSUME TypeInv, OnceInv, LaneInv, TypeInv', OnceInv', LaneInv',
           Environment
    PROVE  [Promise!Next]_Promise!vars
  <1>0. /\ row \in [Proposals -> RowType] /\ box \in [Containers -> BoxType]
        /\ now \in Nat /\ TypeOK /\ DataInv /\ DataInv' /\ UNCHANGED <<row, op>>
        /\ PostsArePast /\ PostsArePast'
    <2>1. UNCHANGED <<row, op>>
      BY DEF Environment, ServerPublishes, ServerDrops, ContainerEnds, Tick
    <2>2. DataInv /\ DataInv'
      BY DEF OnceInv, DataInv
    <2>q. QED BY <2>1, <2>2 DEF TypeInv, TypeOK, LaneInv, Time
  <1>1. belief' = belief /\ humanSaid' = humanSaid
    BY <1>0 DEF belief, humanSaid
  <1>2. ASSUME NEW p \in Proposals,
               \A c \in Containers : box[c].owner = p \/ box'[c].owner = p
                                        => box'[c] = box[c]
        PROVE  PostTime(p)' = PostTime(p)
    <2>1. Posts(p)' = Posts(p) /\ \A c \in Posts(p) : box'[c].at = box[c].at
      BY <1>2 DEF Posts
    <2>q. QED BY <1>0, <2>1, PostTimeKept
  <1>3. ASSUME AllPosts' = AllPosts, \A c \in AllPosts : box'[c] = box[c]
        PROVE  postedAt' = postedAt
    <2>1. ASSUME NEW p \in Proposals PROVE PostTime(p)' = PostTime(p)
      <3>1. Posts(p) = {c \in AllPosts : box[c].owner = p}
        BY DEF Posts, AllPosts
      <3>2. Posts(p)' = {c \in AllPosts' : box'[c].owner = p}
        BY DEF Posts, AllPosts
      <3>q. QED BY <1>0, <1>3, <3>1, <3>2, PostTimeKept
    <2>q. QED BY <2>1 DEF postedAt
  <1>4. ASSUME NEW c \in Containers, ServerPublishes(c)
        PROVE  Promise!Next
    <2>1. /\ box[c].status = "open" /\ c \in sent /\ now' = now
          /\ box'[c].owner = box[c].owner /\ box'[c].status = "published"
          /\ box'[c].at = now
          /\ \A d \in Containers \ {c} : box'[d] = box[d]
      BY <1>0, <1>4 DEF ServerPublishes, BoxType
    <2>p. PICK p \in Proposals : /\ p = box[c].owner /\ row[p].creation = c
                                 /\ row[p].status \in {"publishing", "uncertain", "published"}
      BY <2>1 DEF OnceInv, LiveIsRecorded, Live
    <2>2. Flying(p)
      BY <2>p, <1>0, <2>1 DEF DataInv, RowIsTrue, Flying, InFlight
    <2>3. Clear(p, row[p].override)
      BY <2>2 DEF LaneInv
    <2>4. Posts(p) = {} /\ PostTime(p) = NoTime
      <3>1. \A d \in Posts(p) : d = c /\ box[d].status = "published"
        BY <2>p, <1>0, PostIsRecorded DEF Posts, AllPosts
      <3>2. Posts(p) = {}
        BY <3>1, <2>1
      <3>q. QED BY <3>2 DEF PostTime
    <2>5. PostTime(p)' = now
      <3>1. Posts(p)' = {c}
        BY <2>1, <2>4, <2>p DEF Posts
      <3>2. PostTimeIs(p)'
        BY <1>0, PostTimeKnown
      <3>q. QED BY <3>1, <3>2, <2>1 DEF PostTimeIs
    <2>6. \A q \in Proposals \ {p} : PostTime(q)' = PostTime(q)
      BY <1>2, <2>1, <2>p
    <2>7. postedAt' = [postedAt EXCEPT ![p] = now]
      BY <2>5, <2>6 DEF postedAt
    <2>8. ASSUME NEW q \in Proposals, PostTime(q) # NoTime
          PROVE  \E d \in AllPosts : /\ PostTime(q) = box[d].at /\ box[d].owner = q
                                     /\ q # p /\ box[d].at \in Nat
      <3>1. PostTimeIs(q)
        BY <1>0, PostTimeKnown
      <3>q. QED BY <3>1, <2>4, <2>8 DEF PostTimeIs, Posts, AllPosts
    <2>9. p \in Promise!Articles =>
            \/ row[p].override
            \/ \A q \in Promise!Articles :
                  PostTime(q) # NoTime => now + MaxLag >= PostTime(q) + Gap
      <3> SUFFICES ASSUME p \in Articles, ~row[p].override,
                          NEW q \in Promise!Articles, PostTime(q) # NoTime
                   PROVE  now + MaxLag >= PostTime(q) + Gap
        BY DEF Articles, Promise!Articles
      <3>1. PICK d \in AllPosts : /\ PostTime(q) = box[d].at /\ box[d].owner = q
                                  /\ q # p /\ box[d].at \in Nat
        BY <2>8 DEF Promise!Articles
      <3>2. now + Slack(d) >= box[d].at + Gap
        BY <2>3, <3>1 DEF Clear, Articles, Promise!Articles
      <3>q. QED BY <1>0, <3>1, <3>2, SlackBounds, ConstantsAssumption
    <2>10. p \in Growth => \A q \in Growth : PostTime(q) # NoTime =>
              Day(PostTime(q)) # Day(now) \/ AtMidnight(PostTime(q))
      <3> SUFFICES ASSUME p \in Growth, NEW q \in Growth, PostTime(q) # NoTime,
                          ~AtMidnight(PostTime(q))
                   PROVE  Day(PostTime(q)) # Day(now)
        OBVIOUS
      <3>1. PICK d \in AllPosts : /\ PostTime(q) = box[d].at /\ box[d].owner = q
                                  /\ q # p /\ box[d].at \in Nat
        BY <2>8, ConstantsAssumption
      <3>2. Day(box[d].at) < Day(now) /\ Day(box[d].at) \in Nat /\ Day(now) \in Nat
        BY <2>3, <3>1, <1>0, DayMono DEF Clear
      <3>q. QED BY <3>1, <3>2
    <2>11. BeliefOf(row[p]) = "unsettled"
      BY <2>2 DEF Flying, BeliefOf, InFlight
    <2>12. Promise!Appear(p)
      <3>1. \A q \in Growth : q \in Proposals
        BY ConstantsAssumption
      <3>2. \A q \in Promise!Articles : q \in Proposals
        BY DEF Promise!Articles
      <3>3. \A t : /\ Promise!Day(t) = Day(t)
                   /\ Promise!AtMidnight(t) = AtMidnight(t)
        BY DEF Promise!Day, Day, Promise!AtMidnight, AtMidnight
      <3>q. QED BY <3>1, <3>2, <3>3, <1>1, <2>1, <2>4, <2>7, <2>9, <2>10, <2>11
                DEF Promise!Appear, Promise!NoTime, NoTime,
                    belief, postedAt, humanSaid
    <2>q. QED BY <2>12 DEF Promise!Next
  <1>5. ASSUME NEW c \in Containers, ServerDrops(c) \/ ContainerEnds(c)
        PROVE  UNCHANGED Promise!vars
    <2>1. now' = now /\ AllPosts' = AllPosts /\ \A d \in AllPosts : box'[d] = box[d]
      <3>1. CASE ServerDrops(c)
        BY <3>1 DEF ServerDrops, AllPosts
      <3>2. CASE ContainerEnds(c)
        <4>1. /\ box[c].status = "open" /\ box'[c].status = "ended" /\ now' = now
              /\ \A d \in Containers \ {c} : box'[d] = box[d]
          BY <1>0, <3>2 DEF ContainerEnds, BoxType
        <4>q. QED BY <4>1 DEF AllPosts
      <3>q. QED BY <1>5, <3>1, <3>2
    <2>q. QED BY <2>1, <1>1, <1>3 DEF Promise!vars, belief, postedAt, humanSaid
  <1>6. ASSUME Tick PROVE Promise!Tick
    <2>1. postedAt' = postedAt
      BY <1>3, <1>6 DEF Tick, AllPosts
    <2>q. QED BY <2>1, <1>1, <1>6 DEF Tick, Promise!Tick, belief, postedAt, humanSaid
  <1>q. QED BY <1>4, <1>5, <1>6 DEF Environment, Promise!Next

\* Serialised publish, retry and reconcile runs keep the promise a reader of
\* the account is given: PublicationPromise, which knows no rows, containers,
\* requests or processes.
THEOREM KeepsPromiseCorrect ==
    ASSUME Serialised
    PROVE  Spec => KeepsPromise
  <1> DEFINE Inv == TypeInv /\ OnceInv /\ LaneInv
  <1>1. Inv /\ Inv' /\ [Next]_vars => [Promise!Next]_Promise!vars
    <2> SUFFICES ASSUME Inv, Inv', [Next]_vars
                 PROVE  [Promise!Next]_Promise!vars
      OBVIOUS
    <2>1. ASSUME UNCHANGED <<now, row, box>>
          PROVE  UNCHANGED Promise!vars
      BY <2>1 DEF Promise!vars, PostTime, Posts
    <2>2. CASE UNCHANGED vars
      BY <2>1, <2>2 DEF vars
    <2>3. ASSUME NEW w \in Workers, Start(w)
          PROVE  UNCHANGED Promise!vars
      BY <2>1, <2>3 DEF Start, Plan, ReconcileStart
    <2>q. QED BY <2>2, <2>3, StepPromised, EnvironmentPromised DEF Next
  <1> HIDE DEF Inv
  <1>2. Spec => []Inv
    BY LaneInvariant DEF Inv
  <1>q. QED BY <1>1, <1>2, InitPromise, PTL DEF Spec, KeepsPromise, Promise!Spec
=============================================================================
