----------------------- MODULE WordPressPlugins_proofs -----------------------
(***************************************************************************)
(* Proofs about what affiliate-ai and its two WordPress plugins know of    *)
(* another: affiliate links, for any targets, links of the article, pushes *)
(* and updates, and mobile approval, for any sessions, proposals and       *)
(* length of the relay's list.  That a proposal is decided once, and that  *)
(* both ends agree, needs one local process at a time (OneProcess).        *)
(***************************************************************************)
EXTENDS AffiliateLinks, MobileApproval, SequenceTheorems, FiniteSetTheorems,
        WellFoundedInduction, TLAPS

----------------------------------------------------------------------------
(* Affiliate links.                                                        *)

\* The plugin knows no target the database does not have, and holds none for
\* disabled that people did not retire.
RuntimeTells ==
    \A t \in Targets :
        /\ runtime[t] # "none" => target[t] # "none"
        /\ runtime[t] = "disabled" => target[t] \in Retired

\* The same is true of what a push sends.  A request that is planned may have
\* been overtaken, but a row it saw is still there and a disabled one still
\* disabled; one that was applied left every target it sent in the table, and
\* disabled those it sent as disabled.
PushTold(p) ==
    /\ push[p].pc \in {"idle", "read", "post"} => push[p].wire = "none"
    /\ push[p].pc \in {"idle", "read", "post", "await"} => push[p].status # "succeeded"
    /\ push[p].status = "succeeded" => push[p].wire = "applied"
    /\ \A t \in Targets :
          /\ Sent(p)[t] # "none" => target[t] # "none"
          /\ Sent(p)[t] = "disabled" => target[t] \in Retired
          /\ push[p].wire = "planned" =>
                /\ Seen(p)[t] # "none" => runtime[t] # "none"
                /\ Seen(p)[t] = "disabled" =>
                      runtime[t] = "disabled" /\ Sent(p)[t] # "active"
          /\ push[p].wire = "applied" =>
                /\ Sent(p)[t] # "none" => runtime[t] # "none"
                /\ Sent(p)[t] = "disabled" => runtime[t] = "disabled"

PushTells == \A p \in Pushes : PushTold(p)

\* An artifact links to mappings whose targets the plugin knows.
LinksAreRows == \A u \in Updates, o \in Occurrences : update[u].links[o] \in Rows \cup {NoRow}

LinksTell ==
    \A u \in Updates, o \in Occurrences :
        update[u].links[o] # NoRow => runtime[mappings[update[u].links[o]].target] # "none"

LiveTells == \A o \in Occurrences : live[o] # NoTarget => runtime[live[o]] # "none"

AffiliateInv == LinksAreRows /\ RuntimeTells /\ PushTells /\ LinksTell /\ LiveTells

-----------------------------------------------------------------------------
(* Types.                                                                   *)

LEMMA RowsAreMappings ==
    ASSUME AffiliateTypeOK
    PROVE  \A m \in Rows : m \in 1..Len(mappings) /\ mappings[m] \in MappingType
BY DEF Rows, AffiliateTypeOK

\* The table of mappings only grows, and a row keeps its occurrence and target.
MappingsGrow ==
    /\ Rows \subseteq Rows'
    /\ \A m \in Rows : mappings'[m].target = mappings[m].target

LEMMA MappingsStep ==
    ASSUME AffiliateTypeOK, [Next]_vars PROVE mappings' \in Seq(MappingType) /\ MappingsGrow
<1> USE DEF AffiliateTypeOK
<1>1. \A m \in Rows : m \in 1..Len(mappings) /\ mappings[m] \in MappingType
  BY RowsAreMappings
<1>2. ASSUME NEW s \in Seq(MappingType), NEW o \in Occurrences, NEW t \in Targets,
             Len(s) = Len(mappings), \A m \in Rows : s[m].target = mappings[m].target,
             mappings' = Append(s, NewRow(o, t))
      PROVE  mappings' \in Seq(MappingType) /\ MappingsGrow
  <2>1. NewRow(o, t) \in MappingType
    BY DEF NewRow, MappingType
  <2>2. /\ mappings' \in Seq(MappingType) /\ Len(mappings') = Len(mappings) + 1
        /\ \A i \in 1..Len(mappings) : mappings'[i] = s[i]
    BY <1>2, <2>1, AppendProperties
  <2>3. QED
    BY <1>1, <1>2, <2>2 DEF MappingsGrow, Rows
<1>3. ASSUME NEW m \in Rows, NEW to \in {"superseded", "revoked"}
      PROVE  LET s == [mappings EXCEPT ![m].status = to]
             IN  /\ s \in Seq(MappingType) /\ Len(s) = Len(mappings)
                 /\ \A i \in Rows : s[i].target = mappings[i].target
  <2>1. [mappings[m] EXCEPT !.status = to] \in MappingType
    BY <1>1 DEF MappingType
  <2>2. LET s == [mappings EXCEPT ![m].status = to]
        IN  /\ s \in Seq(MappingType) /\ Len(s) = Len(mappings)
            /\ \A i \in 1..Len(mappings) :
                  s[i] = IF i = m THEN [mappings[m] EXCEPT !.status = to] ELSE mappings[i]
    BY <1>1, <2>1, ExceptSeq
  <2>3. [mappings[m] EXCEPT !.status = to].target = mappings[m].target
    BY <1>1 DEF MappingType
  <2>4. QED
    BY <1>1, <2>2, <2>3
<1>4. ASSUME NEW t \in Targets, NEW o \in Occurrences, CreateMapping(o, t)
      PROVE  mappings' \in Seq(MappingType) /\ MappingsGrow
  BY <1>2, <1>4 DEF CreateMapping
<1>5. ASSUME NEW t \in Targets, NEW m \in Rows, RemapOccurrence(m, t)
      PROVE  mappings' \in Seq(MappingType) /\ MappingsGrow
  <2>1. mappings[m].occurrence \in Occurrences
    BY <1>1 DEF MappingType
  <2>2. QED
    BY <1>2, <1>3, <1>5, <2>1 DEF RemapOccurrence
<1>6. ASSUME NEW m \in Rows, RevokeMapping(m)
      PROVE  mappings' \in Seq(MappingType) /\ MappingsGrow
  BY <1>3, <1>6 DEF RevokeMapping, MappingsGrow, Rows
<1>7. CASE UNCHANGED mappings
  BY <1>7 DEF MappingsGrow, Rows
<1>8. ASSUME NEW p \in Pushes, Service(p) \/ Plugin(p) PROVE UNCHANGED mappings
  BY <1>8 DEF Service, Plugin, ReadTargets, StoreRun, Post, Succeed, Fail, OutcomeUnknown,
              EndPush, PushDies, PlanBatch, RefuseBatch, CommitBatch, LoseRequest
<1>9. ASSUME NEW u \in Updates, Article(u) PROVE UNCHANGED mappings
  BY <1>9 DEF Article, Prepare, Approve, Classify, Execute, Land, Settle, Advance
<1>10. ASSUME People PROVE mappings' \in Seq(MappingType) /\ MappingsGrow
  BY <1>4, <1>5, <1>6, <1>7, <1>10
     DEF People, CreateTarget, DisableTarget, SupersedeTarget, SetProgram
<1>11. QED
  BY <1>7, <1>8, <1>9, <1>10 DEF Next, vars

LEMMA PushValues ==
    ASSUME NEW x \in PushType
    PROVE  /\ \A pc \in {"await", "dead"} : [x EXCEPT !.pc = pc] \in PushType
           /\ [x EXCEPT !.pc = "post", !.status = "running"] \in PushType
           /\ [x EXCEPT !.pc = "await", !.wire = "sent"] \in PushType
           /\ \A to \in {"succeeded", "failed", "outcome_unknown"} :
                [x EXCEPT !.pc = "done", !.status = to] \in PushType
           /\ \A wire \in {"applied", "refused", "lost"} : [x EXCEPT !.wire = wire] \in PushType
           /\ \A e \in [Targets -> Projection] :
                /\ [x EXCEPT !.pc = "read", !.entries = e] \in PushType
                /\ [x EXCEPT !.wire = "planned", !.seen = e] \in PushType
BY DEF PushType

\* Every variable keeps its type.
LEMMA AffiliateTypeStep ==
    ASSUME AffiliateTypeOK, LinksAreRows, [Next]_vars PROVE AffiliateTypeOK'
<1> USE AffiliateAssumption DEF AffiliateTypeOK
<1>1. CASE UNCHANGED vars
  BY <1>1 DEF vars
<1>2. CASE People
  <2>1. ASSUME NEW t \in Targets, CreateTarget(t) \/ DisableTarget(t) PROVE AffiliateTypeOK'
    BY <2>1 DEF CreateTarget, DisableTarget, Retired
  <2>2. ASSUME NEW old \in Targets, NEW new \in Targets, SupersedeTarget(old, new)
        PROVE  AffiliateTypeOK'
    BY <2>2 DEF SupersedeTarget, Retired
  <2>3. ASSUME NEW b \in BOOLEAN, SetProgram(b) PROVE AffiliateTypeOK'
    BY <2>3 DEF SetProgram
  <2>4. ASSUME NEW t \in Targets, NEW o \in Occurrences, CreateMapping(o, t)
        PROVE  AffiliateTypeOK'
    BY <2>4, MappingsStep DEF CreateMapping
  <2>5. ASSUME NEW t \in Targets, NEW m \in Rows, RemapOccurrence(m, t)
        PROVE  AffiliateTypeOK'
    BY <2>5, MappingsStep DEF RemapOccurrence
  <2>6. ASSUME NEW m \in Rows, RevokeMapping(m) PROVE AffiliateTypeOK'
    BY <2>6, MappingsStep DEF RevokeMapping
  <2>7. QED
    BY <1>2, <2>1, <2>2, <2>3, <2>4, <2>5, <2>6 DEF People
<1>3. ASSUME NEW p \in Pushes, Service(p) PROVE AffiliateTypeOK'
  <2>1. push[p] \in PushType
    OBVIOUS
  <2>2. CASE ReadTargets(p)
    <3>1. [t \in Targets |-> Projected(target[t])] \in [Targets -> Projection]
      BY DEF Projected, Projection, Retired
    <3>2. QED
      BY <2>1, <2>2, <3>1, PushValues DEF ReadTargets
  <2>3. CASE StoreRun(p)
    <3>1. runs' \in Seq(Pushes)
      BY <2>3, AppendProperties DEF StoreRun
    <3>2. QED
      BY <2>1, <2>3, <3>1, PushValues DEF StoreRun
  <2>4. CASE Post(p)
    BY <2>1, <2>4, PushValues DEF Post
  <2>5. CASE Succeed(p) \/ Fail(p) \/ OutcomeUnknown(p)
    BY <2>1, <2>5, PushValues DEF Succeed, Fail, OutcomeUnknown, EndPush
  <2>6. CASE PushDies(p)
    BY <2>1, <2>6, PushValues DEF PushDies
  <2>7. QED
    BY <1>3, <2>2, <2>3, <2>4, <2>5, <2>6 DEF Service
<1>4. ASSUME NEW p \in Pushes, Plugin(p) PROVE AffiliateTypeOK'
  <2>1. push[p] \in PushType
    OBVIOUS
  <2>2. CASE PlanBatch(p)
    BY <2>1, <2>2, PushValues DEF PlanBatch
  <2>3. CASE RefuseBatch(p) \/ LoseRequest(p)
    BY <2>1, <2>3, PushValues DEF RefuseBatch, LoseRequest, SetWire
  <2>4. CASE CommitBatch(p)
    <3>1. Sent(p) \in [Targets -> Projection]
      BY <2>1 DEF Sent, PushType
    <3>2. runtime' \in [Targets -> Projection]
      BY <2>4, <3>1 DEF CommitBatch, Projection
    <3>3. QED
      BY <2>1, <2>4, <3>2, PushValues DEF CommitBatch, SetWire
  <2>5. QED
    BY <1>4, <2>2, <2>3, <2>4 DEF Plugin
<1>5. ASSUME NEW u \in Updates, Article(u) PROVE AffiliateTypeOK'
  <2>1. update[u] \in UpdateType
    OBVIOUS
  <2>2. CASE Prepare(u)
    <3>1. Rows \subseteq Nat
      BY DEF Rows
    <3>2. \A o \in Occurrences :
              EligibleRows(o) # {} => (CHOOSE m \in EligibleRows(o) : TRUE) \in Nat
      BY <3>1 DEF EligibleRows, ActiveRows
    <3>3. QED
      BY <2>2, <3>2 DEF Prepare, UpdateType, NoRow
  <2>3. CASE Approve(u) \/ Classify(u) \/ Execute(u) \/ Settle(u)
    <3>1. \A pc \in {"approved", "classified", "running", "settled"} :
              [update[u] EXCEPT !.pc = pc] \in UpdateType
      BY <2>1 DEF UpdateType
    <3>2. QED
      BY <2>3, <3>1 DEF Approve, Classify, Execute, Settle, Advance
  <2>4. CASE Land(u)
    <3>1. [update[u] EXCEPT !.pc = "landed"] \in UpdateType
      BY <2>1 DEF UpdateType
    <3>2. \A m \in Rows : mappings[m].target \in Targets
      BY RowsAreMappings DEF MappingType
    <3>3. live' \in [Occurrences -> Targets \cup {NoTarget}]
      BY <2>4, <3>2 DEF Land, LinksAreRows
    <3>4. QED
      BY <2>4, <3>1, <3>3 DEF Land
  <2>5. QED
    BY <1>5, <2>2, <2>3, <2>4 DEF Article
<1>6. QED
  BY <1>1, <1>2, <1>3, <1>4, <1>5 DEF Next

\* The rows of an artifact are rows of the table.
LEMMA LinksStep ==
    ASSUME AffiliateTypeOK, LinksAreRows, [Next]_vars PROVE LinksAreRows'
<1>1. Rows \subseteq Rows'
  BY MappingsStep DEF MappingsGrow
<1>2. CASE UNCHANGED update
  BY <1>1, <1>2 DEF LinksAreRows
<1>3. ASSUME NEW u \in Updates, Article(u) PROVE LinksAreRows'
  <2>1. CASE Prepare(u)
    <3>1. \A o \in Occurrences : update'[u].links[o] \in Rows \cup {NoRow}
      BY <2>1 DEF Prepare, EligibleRows, ActiveRows, AffiliateTypeOK
    <3>2. QED
      BY <1>1, <2>1, <3>1 DEF Prepare, LinksAreRows, AffiliateTypeOK
  <2>2. CASE ~Prepare(u)
    <3>1. \A pc : [update[u] EXCEPT !.pc = pc].links = update[u].links
      BY DEF AffiliateTypeOK, UpdateType
    <3>2. \E pc : update' = [update EXCEPT ![u].pc = pc]
      BY <1>3, <2>2 DEF Article, Approve, Classify, Execute, Land, Settle, Advance
    <3>3. \A v \in Updates : update'[v].links = update[v].links
      BY <3>1, <3>2 DEF AffiliateTypeOK
    <3>4. QED
      BY <1>1, <3>3 DEF LinksAreRows
  <2>3. QED
    BY <2>1, <2>2
<1>4. ASSUME NEW p \in Pushes, Service(p) \/ Plugin(p) PROVE UNCHANGED update
  BY <1>4 DEF Service, Plugin, ReadTargets, StoreRun, Post, Succeed, Fail, OutcomeUnknown,
              EndPush, PushDies, PlanBatch, RefuseBatch, CommitBatch, LoseRequest
<1>5. ASSUME People PROVE UNCHANGED update
  BY <1>5 DEF People, CreateTarget, DisableTarget, SupersedeTarget, SetProgram, CreateMapping,
              RemapOccurrence, RevokeMapping
<1>6. QED
  BY <1>2, <1>3, <1>4, <1>5 DEF Next, vars

\* The state of the links keeps its type.
THEOREM AffiliateTypeCorrect == Spec => []AffiliateTypeOK
<1>1. Init => AffiliateTypeOK
  <2>1. ASSUME Init PROVE mappings \in Seq(MappingType) /\ runs \in Seq(Pushes)
    BY <2>1 DEF Init
  <2>2. QED
    BY <2>1 DEF Init, AffiliateTypeOK, NoPush, NoEntries, NoRow, PushType, UpdateType, Projection
<1>2. Init => LinksAreRows
  BY DEF Init, LinksAreRows
<1>3. QED
  BY <1>1, <1>2, AffiliateTypeStep, LinksStep, PTL DEF Spec

-----------------------------------------------------------------------------
(* The plugin and the database.                                             *)

\* A target that exists stays, and one that is retired stays retired.
TargetsGrow ==
    \A t \in Targets :
        /\ target[t] # "none" => target'[t] # "none"
        /\ target[t] \in Retired => target'[t] \in Retired

\* A row of the plugin stays, and a disabled one stays disabled.
RuntimeGrows ==
    \A t \in Targets :
        /\ runtime[t] # "none" => runtime'[t] # "none"
        /\ runtime[t] = "disabled" => runtime'[t] = "disabled"

LEMMA TargetsStep ==
    ASSUME AffiliateTypeOK, [Next]_vars PROVE TargetsGrow
<1> USE DEF TargetsGrow, AffiliateTypeOK, Retired
<1>1. CASE UNCHANGED target
  BY <1>1
<1>2. ASSUME NEW t \in Targets, CreateTarget(t) \/ DisableTarget(t) PROVE TargetsGrow
  BY <1>2 DEF CreateTarget, DisableTarget
<1>3. ASSUME NEW old \in Targets, NEW new \in Targets, SupersedeTarget(old, new)
      PROVE  TargetsGrow
  BY <1>3 DEF SupersedeTarget
<1>4. ASSUME People PROVE TargetsGrow
  BY <1>1, <1>2, <1>3, <1>4 DEF People, SetProgram, CreateMapping, RemapOccurrence, RevokeMapping
<1>5. ASSUME NEW p \in Pushes, Service(p) \/ Plugin(p) PROVE UNCHANGED target
  BY <1>5 DEF Service, Plugin, ReadTargets, StoreRun, Post, Succeed, Fail, OutcomeUnknown,
              EndPush, PushDies, PlanBatch, RefuseBatch, CommitBatch, LoseRequest
<1>6. ASSUME NEW u \in Updates, Article(u) PROVE UNCHANGED target
  BY <1>6 DEF Article, Prepare, Approve, Classify, Execute, Land, Settle, Advance
<1>7. QED
  BY <1>1, <1>4, <1>5, <1>6 DEF Next, vars

LEMMA RuntimeStep ==
    ASSUME AffiliateTypeOK, PushTells, [Next]_vars PROVE RuntimeGrows
<1> USE DEF RuntimeGrows, AffiliateTypeOK
<1>1. CASE UNCHANGED runtime
  BY <1>1
<1>2. ASSUME NEW p \in Pushes, CommitBatch(p) PROVE RuntimeGrows
  <2>1. push[p] \in PushType
    OBVIOUS
  <2>2. \A t \in Targets : Sent(p)[t] \in Projection
    BY <2>1 DEF PushType, Sent
  <2>3. \A t \in Inserted(p) : runtime[t] = "none" /\ Sent(p)[t] # "none"
    BY <1>2 DEF CommitBatch, Inserted
  <2>4. \A t \in Targets : runtime'[t] = IF t \in Inserted(p) THEN Sent(p)[t]
                                     ELSE IF t \in Updated(p) THEN "disabled" ELSE runtime[t]
    BY <1>2 DEF CommitBatch
  <2>5. QED
    BY <2>2, <2>3, <2>4
<1>3. ASSUME NEW p \in Pushes, Service(p) \/ PlanBatch(p) \/ RefuseBatch(p) \/ LoseRequest(p)
      PROVE  UNCHANGED runtime
  BY <1>3 DEF Service, ReadTargets, StoreRun, Post, Succeed, Fail, OutcomeUnknown,
              EndPush, PushDies, PlanBatch, RefuseBatch, LoseRequest
<1>4. ASSUME NEW u \in Updates, Article(u) PROVE UNCHANGED runtime
  BY <1>4 DEF Article, Prepare, Approve, Classify, Execute, Land, Settle, Advance
<1>5. ASSUME People PROVE UNCHANGED runtime
  BY <1>5 DEF People, CreateTarget, DisableTarget, SupersedeTarget, SetProgram, CreateMapping,
              RemapOccurrence, RevokeMapping
<1>6. QED
  BY <1>1, <1>2, <1>3, <1>4, <1>5 DEF Next, Plugin, vars

\* What the plugin holds was sent, and what was sent was in the database.
LEMMA RuntimeTellsStep ==
    ASSUME AffiliateTypeOK, PushTells, RuntimeTells, [Next]_vars PROVE RuntimeTells'
<1>1. TargetsGrow
  BY TargetsStep
<1>2. CASE UNCHANGED runtime
  BY <1>1, <1>2 DEF TargetsGrow, RuntimeTells
<1>3. ASSUME NEW p \in Pushes, CommitBatch(p) PROVE RuntimeTells'
  <2>1. PushTold(p)
    BY DEF PushTells
  <2>2. \A t \in Targets : runtime'[t] = IF t \in Inserted(p) THEN Sent(p)[t]
                                     ELSE IF t \in Updated(p) THEN "disabled" ELSE runtime[t]
    BY <1>3 DEF CommitBatch
  <2>3. UNCHANGED target
    BY <1>3 DEF CommitBatch
  <2>4. \A t \in Updated(p) : Sent(p)[t] = "disabled"
    BY DEF Updated
  <2>5. QED
    BY <2>1, <2>2, <2>3, <2>4 DEF RuntimeTells, PushTold
<1>4. ASSUME NEW p \in Pushes, Service(p) \/ PlanBatch(p) \/ RefuseBatch(p) \/ LoseRequest(p)
      PROVE  UNCHANGED runtime
  BY <1>4 DEF Service, ReadTargets, StoreRun, Post, Succeed, Fail, OutcomeUnknown,
              EndPush, PushDies, PlanBatch, RefuseBatch, LoseRequest
<1>5. ASSUME NEW u \in Updates, Article(u) PROVE UNCHANGED runtime
  BY <1>5 DEF Article, Prepare, Approve, Classify, Execute, Land, Settle, Advance
<1>6. ASSUME People PROVE UNCHANGED runtime
  BY <1>6 DEF People, CreateTarget, DisableTarget, SupersedeTarget, SetProgram, CreateMapping,
              RemapOccurrence, RevokeMapping
<1>7. QED
  BY <1>2, <1>3, <1>4, <1>5, <1>6 DEF Next, Plugin, vars

-----------------------------------------------------------------------------
(* Pushes.                                                                  *)

\* What is true of a push stays true while it does not move.
LEMMA PushRests ==
    ASSUME NEW p \in Pushes, PushTold(p), push'[p] = push[p], TargetsGrow, RuntimeGrows
    PROVE  PushTold(p)'
BY DEF PushTold, TargetsGrow, RuntimeGrows, Sent, Seen

LEMMA PushServes ==
    ASSUME AffiliateTypeOK, PushTells, NEW p \in Pushes, Service(p) PROVE PushTold(p)'
<1> USE DEF AffiliateTypeOK
<1>1. push[p] \in PushType /\ PushTold(p)
  BY DEF PushTells
<1>2. UNCHANGED <<target, runtime>>
  BY DEF Service, ReadTargets, StoreRun, Post, Succeed, Fail, OutcomeUnknown, EndPush, PushDies
<1>3. CASE ReadTargets(p)
  <2>1. push'[p] = [push[p] EXCEPT !.pc = "read",
                       !.entries = [t \in Targets |-> Projected(target[t])]]
    BY <1>3 DEF ReadTargets
  <2>2. /\ push'[p].pc = "read" /\ push'[p].wire = "none" /\ push'[p].status # "succeeded"
        /\ push'[p].entries = [t \in Targets |-> Projected(target[t])]
    BY <1>1, <1>3, <2>1 DEF PushType, PushTold, ReadTargets, At
  <2>3. \A t \in Targets : /\ Projected(target[t]) # "none" => target[t] # "none"
                           /\ Projected(target[t]) = "disabled" => target[t] \in Retired
    BY DEF Projected, Retired
  <2>4. QED
    BY <1>2, <2>2, <2>3 DEF PushTold, Sent, Seen
<1>4. CASE ~ReadTargets(p)
  <2>1. /\ push'[p].entries = push[p].entries /\ push'[p].seen = push[p].seen
        /\ \/ push'[p].wire = push[p].wire
           \/ push'[p].wire = "sent"
    BY <1>1, <1>4 DEF Service, StoreRun, Post, Succeed, Fail, OutcomeUnknown, EndPush, PushDies,
                      PushType
  <2>2. /\ push'[p].pc \in {"idle", "read", "post"} => push'[p].wire = "none"
        /\ push'[p].pc \in {"idle", "read", "post", "await"} => push'[p].status # "succeeded"
        /\ push'[p].status = "succeeded" => push'[p].wire = "applied"
    <3>1. CASE StoreRun(p)
      BY <1>1, <3>1 DEF StoreRun, PushTold, PushType, At
    <3>2. CASE Post(p)
      BY <1>1, <3>2 DEF Post, PushTold, PushType, At
    <3>3. CASE Succeed(p) \/ Fail(p) \/ OutcomeUnknown(p)
      BY <1>1, <3>3 DEF Succeed, Fail, OutcomeUnknown, EndPush, PushTold, PushType, At
    <3>4. CASE PushDies(p)
      BY <1>1, <3>4 DEF PushDies, PushTold, PushType
    <3>5. QED
      BY <1>4, <3>1, <3>2, <3>3, <3>4 DEF Service
  <2>3. QED
    BY <1>1, <1>2, <2>1, <2>2 DEF PushTold, Sent, Seen
<1>5. QED
  BY <1>3, <1>4

LEMMA PushPlugs ==
    ASSUME AffiliateTypeOK, PushTells, NEW p \in Pushes, Plugin(p) PROVE PushTold(p)'
<1> USE DEF AffiliateTypeOK
<1>1. push[p] \in PushType /\ PushTold(p)
  BY DEF PushTells
<1>2. UNCHANGED target
  BY DEF Plugin, PlanBatch, RefuseBatch, CommitBatch, LoseRequest
<1>3. /\ push'[p].pc = push[p].pc /\ push'[p].status = push[p].status
      /\ push'[p].entries = push[p].entries
      /\ push[p].wire \in {"sent", "planned"}
  BY <1>1 DEF Plugin, PlanBatch, RefuseBatch, CommitBatch, LoseRequest, SetWire, PushType
<1>4. /\ push'[p].pc \notin {"idle", "read", "post"}
      /\ push'[p].status # "succeeded"
      /\ \A t \in Targets : /\ push'[p].entries[t] # "none" => target'[t] # "none"
                            /\ push'[p].entries[t] = "disabled" => target'[t] \in Retired
  BY <1>1, <1>2, <1>3 DEF PushTold, Sent
<1>5. CASE PlanBatch(p)
  <2>1. push'[p].wire = "planned" /\ push'[p].seen = runtime /\ runtime' = runtime
    BY <1>1, <1>5 DEF PlanBatch, PushType
  <2>2. \A t \in Targets : runtime[t] = "disabled" => push'[p].entries[t] # "active"
    BY <1>3, <1>5 DEF PlanBatch, Refusable, Sent
  <2>3. QED
    BY <1>4, <2>1, <2>2 DEF PushTold, Sent, Seen
<1>6. CASE RefuseBatch(p) \/ LoseRequest(p)
  <2>1. push'[p].wire \in {"refused", "lost"}
    BY <1>1, <1>6 DEF RefuseBatch, LoseRequest, SetWire, PushType
  <2>2. QED
    BY <1>4, <2>1 DEF PushTold, Sent, Seen
<1>7. CASE CommitBatch(p)
  <2>1. push[p].wire = "planned" /\ push'[p].wire = "applied"
    BY <1>1, <1>7 DEF CommitBatch, SetWire, PushType
  <2>2. \A t \in Targets : runtime'[t] = IF t \in Inserted(p) THEN Sent(p)[t]
                                     ELSE IF t \in Updated(p) THEN "disabled" ELSE runtime[t]
    BY <1>7 DEF CommitBatch
  <2>3. \A t \in Targets : Sent(p)[t] \in Projection /\ Seen(p)[t] \in Projection
    BY <1>1 DEF PushType, Sent, Seen
  <2>4. ASSUME NEW t \in Targets, Sent(p)[t] # "none"
        PROVE  runtime'[t] # "none" /\ (Sent(p)[t] = "disabled" => runtime'[t] = "disabled")
    <3>1. CASE Seen(p)[t] = "none"
      BY <2>2, <2>4, <3>1 DEF Inserted
    <3>2. CASE Seen(p)[t] = "active"
      BY <1>1, <2>1, <2>2, <2>3, <2>4, <3>2 DEF PushTold, Inserted, Updated, Projection
    <3>3. CASE Seen(p)[t] = "disabled"
      BY <1>1, <2>1, <2>2, <2>4, <3>3 DEF PushTold, Inserted, Updated
    <3>4. QED
      BY <2>3, <3>1, <3>2, <3>3 DEF Projection
  <2>5. QED
    BY <1>3, <1>4, <2>1, <2>4 DEF PushTold, Sent, Seen
<1>8. QED
  BY <1>5, <1>6, <1>7 DEF Plugin

\* What is known of every push stays true, whichever of them moves.
LEMMA PushTellsStep ==
    ASSUME AffiliateTypeOK, PushTells, [Next]_vars PROVE PushTells'
<1>1. TargetsGrow /\ RuntimeGrows
  BY TargetsStep, RuntimeStep
<1>2. CASE UNCHANGED push
  BY <1>1, <1>2, PushRests DEF PushTells
<1>3. ASSUME NEW p \in Pushes, Service(p) \/ Plugin(p) PROVE PushTells'
  <2>1. \A q \in Pushes \ {p} : push'[q] = push[q]
    BY <1>3 DEF Service, Plugin, ReadTargets, StoreRun, Post, Succeed, Fail, OutcomeUnknown,
                EndPush, PushDies, PlanBatch, RefuseBatch, CommitBatch, LoseRequest, SetWire,
                AffiliateTypeOK
  <2>2. \A q \in Pushes \ {p} : PushTold(q)'
    BY <1>1, <2>1, PushRests DEF PushTells
  <2>3. PushTold(p)'
    BY <1>3, PushServes, PushPlugs
  <2>4. QED
    BY <2>2, <2>3 DEF PushTells
<1>4. ASSUME NEW u \in Updates, Article(u) PROVE UNCHANGED push
  BY <1>4 DEF Article, Prepare, Approve, Classify, Execute, Land, Settle, Advance
<1>5. ASSUME People PROVE UNCHANGED push
  BY <1>5 DEF People, CreateTarget, DisableTarget, SupersedeTarget, SetProgram, CreateMapping,
              RemapOccurrence, RevokeMapping
<1>6. QED
  BY <1>2, <1>3, <1>4, <1>5 DEF Next, vars

-----------------------------------------------------------------------------
(* Links.                                                                   *)

\* What the newest acknowledged manifest says of an active target is what the
\* plugin does.
LEMMA EligibleRuns ==
    ASSUME AffiliateTypeOK, RuntimeTells, PushTells, NEW t \in Targets, Eligible(t)
    PROVE  runtime[t] = "active"
<1>1. PICK i \in DOMAIN runs :
          push[runs[i]].status = "succeeded" /\ push[runs[i]].entries[t] = "active"
  BY DEF Eligible, Acknowledged
<1>2. runs[i] \in Pushes
  BY <1>1 DEF AffiliateTypeOK
<1>3. push[runs[i]].wire = "applied" /\ runtime[t] # "none"
  BY <1>1, <1>2 DEF PushTells, PushTold, Sent
<1>4. target[t] \notin Retired
  BY DEF Eligible, Retired
<1>5. QED
  BY <1>3, <1>4 DEF RuntimeTells, AffiliateTypeOK, Projection

LEMMA LinksTellStep ==
    ASSUME AffiliateTypeOK, AffiliateInv, [Next]_vars PROVE LinksTell'
<1>1. RuntimeGrows /\ MappingsGrow
  BY RuntimeStep, MappingsStep DEF AffiliateInv
<1>2. \A m \in Rows : mappings[m].target \in Targets
  BY RowsAreMappings DEF MappingType
<1>3. ASSUME NEW u \in Updates, NEW o \in Occurrences, update'[u].links[o] = update[u].links[o],
             update'[u].links[o] # NoRow
      PROVE  runtime'[mappings'[update'[u].links[o]].target] # "none"
  BY <1>1, <1>2, <1>3 DEF AffiliateInv, LinksAreRows, LinksTell, RuntimeGrows, MappingsGrow
<1>4. CASE \A u \in Updates : update'[u].links = update[u].links
  BY <1>3, <1>4 DEF LinksTell
<1>5. ASSUME NEW u \in Updates, Prepare(u) PROVE LinksTell'
  <2>1. ASSUME NEW o \in Occurrences, update'[u].links[o] # NoRow
        PROVE  runtime'[mappings'[update'[u].links[o]].target] # "none"
    <3>1. update'[u].links[o] \in EligibleRows(o)
      BY <1>5, <2>1 DEF Prepare, AffiliateTypeOK
    <3>2. update'[u].links[o] \in Rows /\ Eligible(mappings[update'[u].links[o]].target)
      BY <3>1 DEF EligibleRows, ActiveRows
    <3>3. runtime[mappings[update'[u].links[o]].target] = "active"
      BY <1>2, <3>2, EligibleRuns DEF AffiliateInv
    <3>4. QED
      BY <1>5, <3>3 DEF Prepare
  <2>2. \A v \in Updates \ {u} : update'[v].links = update[v].links
    BY <1>5 DEF Prepare, AffiliateTypeOK
  <2>3. QED
    BY <1>3, <2>1, <2>2 DEF LinksTell
<1>6. ASSUME NEW u \in Updates, Article(u), ~Prepare(u)
      PROVE  \A v \in Updates : update'[v].links = update[v].links
  <2>1. \A pc : [update[u] EXCEPT !.pc = pc].links = update[u].links
    BY DEF AffiliateTypeOK, UpdateType
  <2>2. \E pc : update' = [update EXCEPT ![u].pc = pc]
    BY <1>6 DEF Article, Approve, Classify, Execute, Land, Settle, Advance
  <2>3. QED
    BY <2>1, <2>2 DEF AffiliateTypeOK
<1>7. CASE UNCHANGED update
  BY <1>4, <1>7
<1>8. ASSUME NEW p \in Pushes, Service(p) \/ Plugin(p) PROVE UNCHANGED update
  BY <1>8 DEF Service, Plugin, ReadTargets, StoreRun, Post, Succeed, Fail, OutcomeUnknown,
              EndPush, PushDies, PlanBatch, RefuseBatch, CommitBatch, LoseRequest
<1>9. ASSUME People PROVE UNCHANGED update
  BY <1>9 DEF People, CreateTarget, DisableTarget, SupersedeTarget, SetProgram, CreateMapping,
              RemapOccurrence, RevokeMapping
<1>10. QED
  BY <1>4, <1>5, <1>6, <1>7, <1>8, <1>9 DEF Next, vars

LEMMA LiveTellsStep ==
    ASSUME AffiliateTypeOK, AffiliateInv, [Next]_vars PROVE LiveTells'
<1>1. RuntimeGrows
  BY RuntimeStep DEF AffiliateInv
<1>2. CASE UNCHANGED live
  BY <1>1, <1>2 DEF AffiliateInv, LiveTells, RuntimeGrows, AffiliateTypeOK
<1>3. ASSUME NEW u \in Updates, Land(u) PROVE LiveTells'
  <2>1. UNCHANGED runtime
    BY <1>3 DEF Land
  <2>2. \A o \in Occurrences : live'[o] = IF update[u].links[o] = NoRow THEN NoTarget
                                          ELSE mappings[update[u].links[o]].target
    BY <1>3 DEF Land
  <2>3. QED
    BY <2>1, <2>2 DEF AffiliateInv, LinksTell, LiveTells
<1>4. ASSUME NEW u \in Updates, Article(u), ~Land(u) PROVE UNCHANGED live
  BY <1>4 DEF Article, Prepare, Approve, Classify, Execute, Settle, Advance
<1>5. ASSUME NEW p \in Pushes, Service(p) \/ Plugin(p) PROVE UNCHANGED live
  BY <1>5 DEF Service, Plugin, ReadTargets, StoreRun, Post, Succeed, Fail, OutcomeUnknown,
              EndPush, PushDies, PlanBatch, RefuseBatch, CommitBatch, LoseRequest
<1>6. ASSUME People PROVE UNCHANGED live
  BY <1>6 DEF People, CreateTarget, DisableTarget, SupersedeTarget, SetProgram, CreateMapping,
              RemapOccurrence, RevokeMapping
<1>7. QED
  BY <1>2, <1>3, <1>4, <1>5, <1>6 DEF Next, vars

-----------------------------------------------------------------------------
(* Theorems.                                                                *)

\* What is known of pushes, artifacts and the post holds whatever overlaps.
THEOREM AffiliateInvariant == Spec => [](AffiliateTypeOK /\ AffiliateInv)
<1>1. Init => AffiliateInv
  BY DEF Init, AffiliateInv, LinksAreRows, RuntimeTells, PushTells, PushTold, LinksTell,
         LiveTells, NoPush, NoEntries, Sent, Seen
<1>2. AffiliateTypeOK /\ AffiliateInv /\ [Next]_vars => AffiliateInv'
  <2>1. SUFFICES ASSUME AffiliateTypeOK, AffiliateInv, [Next]_vars PROVE AffiliateInv'
    OBVIOUS
  <2>2. LinksAreRows' /\ LinksTell' /\ LiveTells'
    BY <2>1, LinksStep, LinksTellStep, LiveTellsStep DEF AffiliateInv
  <2>3. RuntimeTells' /\ PushTells'
    BY <2>1, RuntimeTellsStep, PushTellsStep DEF AffiliateInv
  <2>4. QED
    BY <2>2, <2>3 DEF AffiliateInv
<1>3. QED
  BY <1>1, <1>2, AffiliateTypeCorrect, PTL DEF Spec

\* A target that is eligible redirects, whatever pushes overlap or are lost.
THEOREM EligibleIsServedCorrect == Spec => []EligibleIsServed
<1>1. AffiliateTypeOK /\ AffiliateInv => EligibleIsServed
  BY EligibleRuns DEF EligibleIsServed, AffiliateInv
<1>2. QED
  BY <1>1, AffiliateInvariant, PTL

\* No link of the post is unknown to the plugin, and one that is gone was
\* retired by a person.
THEOREM LiveLinkIsServedCorrect == Spec => []LiveLinkIsServed
<1>1. AffiliateTypeOK /\ AffiliateInv => LiveLinkIsServed
  BY DEF AffiliateTypeOK, AffiliateInv, LiveTells, RuntimeTells, LiveLinkIsServed, Projection
<1>2. QED
  BY <1>1, AffiliateInvariant, PTL

\* A retired link never redirects again.
THEOREM RetiredStaysRetiredCorrect == Spec => RetiredStaysRetired
<1>1. AffiliateTypeOK /\ AffiliateInv /\ [Next]_vars =>
          [\A t \in Targets : runtime[t] = "disabled" => runtime'[t] = "disabled"]_vars
  BY RuntimeStep DEF AffiliateInv, RuntimeGrows
<1>2. QED
  BY <1>1, AffiliateInvariant, PTL DEF Spec, RetiredStaysRetired

----------------------------------------------------------------------------
(* Mobile approval: what the two databases and a process know of another.  *)

\* Local processes that issue, revoke and sync do not overlap.
OneProcess == \A p, q \in Processes : p = q

RecordType == [by : Sessions \cup {Desk}, decision : Decisions]
ItemType == [id : Nat, session : Sessions, decision : Decisions]
JobType ==
    [pc : Jobs, session : Sessions \cup {NoSession}, subject : Subjects \cup {NoSubject},
     todo : SUBSET ItemType, late : SUBSET Sessions]

MobileTypes ==
    /\ MobileTypeOK
    /\ approvals \in [Subjects -> Seq(RecordType)]
    /\ created \in Seq(Sessions)
    /\ job \in [Processes -> JobType]

\* A decision at the relay was pressed, and is the last one that can be: no
\* other is between its check and its write.
RelayTells ==
    \A s \in Sessions :
        /\ relay[s].state \in {"decided", "consumed"} => relay[s].decision # NoDecision
        /\ relay[s].decision # NoDecision =>
              /\ relay[s].decision \in pressed[s] /\ phone[s] = NoDecision
              /\ relay[s].state \in {"decided", "consumed", "revoked"}
        /\ phone[s] # NoDecision => relay[s].state \in {"pending", "revoked"}

HasRecord(s) ==
    \E i \in DOMAIN approvals[row[s].subject] :
        /\ approvals[row[s].subject][i].by = s
        /\ approvals[row[s].subject][i].decision = relay[s].decision

\* A row has a session at the relay and, once it took its decision, a record.
RowTells ==
    \A s \in Sessions :
        /\ row[s].state # "none" => relay[s].state # "none" /\ row[s].subject \in Subjects
        /\ relay[s].state = "consumed" => row[s].state = "synchronized"
        /\ row[s].state \in {"approved_remote", "rejected_remote", "synchronized"} => HasRecord(s)

\* A record by phone is the decision of its session, the only one of its
\* proposal, and the proposal does not wait any more.
RecordTold(u, i) ==
    LET r == approvals[u][i] IN
    r.by # Desk =>
        /\ row[r.by].state # "none" /\ row[r.by].subject = u
        /\ r.decision = relay[r.by].decision
        /\ status[u] # "awaiting_approval"

RecordsTell ==
    \A u \in Subjects :
        /\ \A i \in DOMAIN approvals[u] : RecordTold(u, i)
        /\ \A i, j \in ByPhone(u) : i = j

First(todo) == CHOOSE item \in todo : \A other \in todo : item.id <= other.id

\* What a process knows at each of its steps.
Knows(j) ==
    LET c == First(j.todo).session IN
    /\ j.pc \in {"create", "store", "mail", "revoke"} => j.session \in Sessions
    /\ j.pc \in {"create", "store"} => j.subject \in Subjects /\ row[j.session].state = "none"
    /\ j.pc = "create" => relay[j.session].state = "none"
    /\ j.pc = "store" => relay[j.session].state # "none"
    /\ j.pc = "revoke" => row[j.session].state = "pending"
    /\ j.pc \in {"sync", "record", "receive", "finish", "ack"} => j.todo # {}
    /\ \A item \in j.todo : relay[item.session].decision = item.decision
    /\ j.pc \in {"record", "receive"} => row[c].state \in OpenStates
    /\ j.pc = "record" => ByPhone(row[c].subject) = {}
    /\ j.pc = "receive" => HasRecord(c)
    /\ j.pc = "finish" => row[c].state \in {"approved_remote", "rejected_remote"}
    /\ j.pc = "ack" => row[c].state = "synchronized"

JobsKnow == \A p \in Processes : Knows(job[p])

MobileInv == MobileTypes /\ RelayTells /\ RowTells /\ RecordsTell /\ JobsKnow

LEMMA SessionFacts ==
    /\ NoSession \notin Sessions /\ Desk \notin Sessions /\ NoDecision \notin Decisions
    /\ MaxEdits \in Nat /\ MaxCrashes \in Nat
BY MobileConstants, NoDecisionAssumption

\* The oldest item of a list is one of its items.
Smaller == {ss \in Nat \X Nat : ss[1] < ss[2]}

LEMMA SmallerEnds == IsWellFoundedOn(Smaller, Nat)
BY NatLessThanWellFounded DEF OpToRel, Smaller

LEMMA FirstIsIn ==
    ASSUME NEW todo, todo \subseteq ItemType, todo # {}
    PROVE  First(todo) \in todo
<1> DEFINE ids == {item.id : item \in todo}
<1>1. ids \subseteq Nat /\ ids # {}
  BY DEF ItemType
<1>2. PICK x \in ids : \A y \in ids : ~(<<y, x>> \in Smaller)
  <2> HIDE DEF ids
  <2> QED
    BY <1>1, WFMin, SmallerEnds, Zenon
<1>3. ASSUME NEW y \in ids
      PROVE  x <= y
  <2>1. x \in Nat /\ y \in Nat
    BY <1>1
  <2>2. y < x => <<y, x>> \in Smaller
    BY <2>1 DEF Smaller
  <2>3. QED
    BY <1>2, <2>1, <2>2
<1>4. \E item \in todo : \A other \in todo : item.id <= other.id
  BY <1>3
<1>5. QED
  BY <1>4 DEF First

LEMMA CurrentIs == \A p : Current(p) = First(job[p].todo)
BY DEF Current, First

\* The process moves to v.
JobMoves(p, v) == v \in JobType /\ job' = [job EXCEPT ![p] = v]

\* And knows there what it should.
JobGoes(p) == \E v : JobMoves(p, v) /\ Knows(v)'

LEMMA JobAfter ==
    ASSUME MobileTypes, OneProcess, NEW p \in Processes, JobGoes(p)
    PROVE  /\ job' \in [Processes -> JobType]
           /\ \A q \in Processes : /\ job'[q].pc \in Jobs
                                   /\ job'[q].pc \in {"sync", "record", "receive", "finish", "ack"}
                                         => job'[q].todo # {}
           /\ JobsKnow'
<1>1. PICK v : JobMoves(p, v) /\ Knows(v)'
  BY DEF JobGoes
<1>2. v \in JobType /\ job' = [job EXCEPT ![p] = v]
  BY <1>1 DEF JobMoves
<1>3. job \in [Processes -> JobType] /\ \A q \in Processes : q = p
  BY DEF MobileTypes, OneProcess
<1>4. job' \in [Processes -> JobType] /\ \A q \in Processes : job'[q] = v
  BY <1>2, <1>3
<1>5. JobsKnow'
  BY <1>1, <1>4 DEF JobsKnow, Knows
<1>6. v.pc \in Jobs
  BY <1>2 DEF JobType
<1>7. v.pc \in {"sync", "record", "receive", "finish", "ack"} => v.todo # {}
  BY <1>1 DEF Knows
<1>8. QED
  BY <1>4, <1>5, <1>6, <1>7

\* An idle process knows nothing, and need not.
LEMMA IdleKnows == Idle \in JobType /\ Knows(Idle) /\ (Knows(Idle))'
<1>1. Idle \in JobType
  BY DEF Idle, JobType, Jobs
<1>2. Idle.pc = "idle" /\ Idle.todo = {}
  BY DEF Idle
<1>3. QED
  BY <1>1, <1>2 DEF Knows

LEMMA GoesIdle ==
    ASSUME NEW p \in Processes, job' = [job EXCEPT ![p] = Idle]
    PROVE  JobGoes(p)
BY IdleKnows DEF JobGoes, JobMoves

LEMMA JobAtIs ==
    ASSUME MobileTypes, NEW p \in Processes, NEW pc \in Jobs, job' = JobAt(p, pc)
    PROVE  \E v : /\ JobMoves(p, v)
                  /\ v.pc = pc /\ v.session = job[p].session /\ v.subject = job[p].subject
                  /\ v.todo = job[p].todo
<1> DEFINE v == [job[p] EXCEPT !.pc = pc]
<1>1. job[p] \in JobType
  BY DEF MobileTypes
<1>2. /\ v \in JobType /\ v.pc = pc /\ v.session = job[p].session
      /\ v.subject = job[p].subject /\ v.todo = job[p].todo
  BY <1>1 DEF JobType
<1>3. job' = [job EXCEPT ![p] = v]
  BY DEF JobAt
<1> HIDE DEF v
<1>4. QED
  BY <1>2, <1>3 DEF JobMoves

\* What a process has listed, and where it is in the list.
LEMMA Listing ==
    ASSUME MobileTypes, JobsKnow, NEW p \in Processes,
           job[p].pc \in {"sync", "record", "receive", "finish", "ack"}
    PROVE  /\ Current(p) \in job[p].todo /\ Current(p) = First(job[p].todo)
           /\ Current(p).session \in Sessions /\ Current(p).decision \in Decisions
           /\ relay[Current(p).session].decision = Current(p).decision
<1>1. job[p] \in JobType /\ job[p].todo \subseteq ItemType
  BY DEF MobileTypes, JobType
<1>2. job[p].todo # {}
  BY DEF JobsKnow, Knows
<1>3. First(job[p].todo) \in job[p].todo
  BY <1>1, <1>2, FirstIsIn
<1>4. First(job[p].todo) \in ItemType
  BY <1>1, <1>3
<1>5. First(job[p].todo).session \in Sessions /\ First(job[p].todo).decision \in Decisions
  BY <1>4 DEF ItemType
<1>6. relay[First(job[p].todo).session].decision = First(job[p].todo).decision
  BY <1>3 DEF JobsKnow, Knows
<1>7. QED
  BY <1>3, <1>5, <1>6, CurrentIs

LEMMA ProceedGoes ==
    ASSUME MobileTypes, JobsKnow, NEW p \in Processes, Proceed(p),
           job[p].pc \in {"sync", "record", "receive", "finish", "ack"},
           \A s \in Sessions : relay'[s].decision = relay[s].decision
    PROVE  JobGoes(p)
<1>1. Current(p) \in job[p].todo
  BY Listing
<1>2. CASE job[p].todo = {Current(p)}
  BY <1>2, GoesIdle DEF Proceed
<1>3. CASE job[p].todo # {Current(p)}
  <2>1. job[p] \in JobType /\ job[p].todo \subseteq ItemType
    BY DEF MobileTypes, JobType
  <2>2. PICK rest : rest = job[p].todo \ {Current(p)}
    OBVIOUS
  <2>3. PICK v : v = [job[p] EXCEPT !.pc = "sync", !.todo = rest]
    OBVIOUS
  <2>4. rest \subseteq job[p].todo /\ rest # {} /\ rest \subseteq ItemType
    BY <1>1, <1>3, <2>1, <2>2
  <2>5. job' = [job EXCEPT ![p] = v]
    <3>1. job' = [job EXCEPT ![p] = IF job[p].todo = {Current(p)} THEN Idle
                      ELSE [job[p] EXCEPT !.pc = "sync", !.todo = job[p].todo \ {Current(p)}]]
      BY ONLY Proceed(p) DEF Proceed
    <3>2. v = IF job[p].todo = {Current(p)} THEN Idle
              ELSE [job[p] EXCEPT !.pc = "sync", !.todo = job[p].todo \ {Current(p)}]
      BY ONLY <1>3, <2>2, <2>3
    <3>3. QED
      BY ONLY <3>1, <3>2
  <2>6. v \in JobType /\ v.pc = "sync" /\ v.todo = rest
    BY <2>1, <2>3, <2>4 DEF JobType, Jobs
  <2>7. ASSUME NEW item \in rest
        PROVE  relay'[item.session].decision = item.decision
    <3>1. item \in job[p].todo /\ item.session \in Sessions
      BY <2>4 DEF ItemType
    <3>2. relay[item.session].decision = item.decision
      BY <3>1 DEF JobsKnow, Knows
    <3>3. QED
      BY <3>1, <3>2
  <2>8. Knows(v)'
    BY <2>4, <2>6, <2>7 DEF Knows
  <2>9. QED
    BY <2>5, <2>6, <2>8 DEF JobGoes, JobMoves
<1>4. QED
  BY <1>2, <1>3

----------------------------------------------------------------------------
(* What the steps change.                                                  *)

Tells == RelayTells /\ RowTells /\ RecordsTell

\* The rows, the relay and the records stay, and what a process knows with them.
LEMMA NothingTold ==
    ASSUME Tells, UNCHANGED <<status, approvals, row, relay, phone, pressed>>
    PROVE  Tells' /\ \A j : (Knows(j))' <=> Knows(j)
<1>1. RelayTells'
  BY DEF Tells, RelayTells
<1>2. \A s : (HasRecord(s))' <=> HasRecord(s)
  BY DEF HasRecord
<1>3. RowTells'
  BY <1>2 DEF Tells, RowTells
<1>4. \A u : ByPhone(u)' = ByPhone(u)
  BY DEF ByPhone
<1>5. RecordsTell'
  BY <1>4 DEF Tells, RecordsTell, RecordTold
<1>6. ASSUME NEW j
      PROVE  (Knows(j))' <=> Knows(j)
  BY <1>2, <1>4 DEF Knows
<1>7. QED
  BY <1>1, <1>3, <1>5, <1>6 DEF Tells

\* The row of a session moves.
LEMMA RowMoves ==
    ASSUME MobileTypes, Tells, NEW s \in Sessions, NEW to \in RowStates \ {"none"}, Move(s, to),
           UNCHANGED <<status, approvals, relay, phone, pressed>>,
           row[s].state # "none", relay[s].state = "consumed" => to = "synchronized",
           to \in {"approved_remote", "rejected_remote", "synchronized"} => HasRecord(s)
    PROVE  /\ row' \in [Sessions -> [state : RowStates, subject : Subjects \cup {NoSubject}]]
           /\ Tells'
           /\ \A t \in Sessions :
                /\ row'[t].subject = row[t].subject
                /\ row'[t].state = IF t = s THEN to ELSE row[t].state
                /\ (HasRecord(t))' <=> HasRecord(t)
           /\ \A u : ByPhone(u)' = ByPhone(u)
<1> DEFINE w == [row[s] EXCEPT !.state = to]
<1>1. row \in [Sessions -> [state : RowStates, subject : Subjects \cup {NoSubject}]]
  BY DEF MobileTypes, MobileTypeOK
<1>2. /\ w \in [state : RowStates, subject : Subjects \cup {NoSubject}]
      /\ w.state = to /\ w.subject = row[s].subject
  BY <1>1
<1>3. row' = [row EXCEPT ![s] = w]
  BY DEF Move
<1> HIDE DEF w
<1>4. /\ row' \in [Sessions -> [state : RowStates, subject : Subjects \cup {NoSubject}]]
      /\ \A t \in Sessions : /\ row'[t].subject = row[t].subject
                             /\ row'[t].state = IF t = s THEN to ELSE row[t].state
  BY <1>1, <1>2, <1>3
<1>5. \A t \in Sessions : (HasRecord(t))' <=> HasRecord(t)
  BY <1>4 DEF HasRecord
<1>6. \A u : ByPhone(u)' = ByPhone(u)
  BY DEF ByPhone
<1>7. RelayTells'
  BY DEF Tells, RelayTells
<1>8. RowTells'
  BY <1>4, <1>5 DEF Tells, RowTells
<1>9. RecordsTell'
  <2>1. ASSUME NEW u \in Subjects, NEW i \in DOMAIN approvals[u]
        PROVE  RecordTold(u, i)'
    <3>1. approvals[u][i].by \in Sessions \cup {Desk}
      BY <2>1 DEF MobileTypes, MobileTypeOK
    <3>2. RecordTold(u, i)
      BY <2>1 DEF Tells, RecordsTell
    <3>3. QED
      BY <1>4, <3>1, <3>2 DEF RecordTold
  <2>2. QED
    BY <1>6, <2>1 DEF Tells, RecordsTell
<1>10. QED
  BY <1>4, <1>5, <1>6, <1>7, <1>8, <1>9 DEF Tells

\* A call reaches the relay or does not.
LEMMA RelayMoves ==
    ASSUME MobileTypes, Tells, NEW s \in Sessions, NEW to \in {"consumed", "revoked"},
           Unreliably(s, to), UNCHANGED <<status, approvals, row, phone, pressed>>,
           to = "consumed" => row[s].state = "synchronized" /\ relay[s].decision # NoDecision,
           to = "revoked" => row[s].state # "synchronized"
    PROVE  /\ relay' \in [Sessions -> [state : RelayStates, decision : Decisions \cup {NoDecision}]]
           /\ Tells'
           /\ \A t \in Sessions : relay'[t].decision = relay[t].decision
           /\ \A t \in Sessions : (relay'[t].state = "none") <=> (relay[t].state = "none")
<1>1. relay \in [Sessions -> [state : RelayStates, decision : Decisions \cup {NoDecision}]]
  BY DEF MobileTypes, MobileTypeOK
<1>2. \/ UNCHANGED relay
      \/ relay[s].state # "none" /\ relay' = [relay EXCEPT ![s] = [relay[s] EXCEPT !.state = to]]
  BY DEF Unreliably
<1>3. PICK w : w = [relay[s] EXCEPT !.state = to]
  OBVIOUS
<1>4. /\ w \in [state : RelayStates, decision : Decisions \cup {NoDecision}]
      /\ w.state = to /\ w.decision = relay[s].decision
  BY <1>1, <1>3 DEF RelayStates
<1>5. /\ relay' \in [Sessions -> [state : RelayStates, decision : Decisions \cup {NoDecision}]]
      /\ \A t \in Sessions :
            /\ relay'[t].decision = relay[t].decision
            /\ \/ relay'[t].state = relay[t].state
               \/ t = s /\ relay[t].state # "none" /\ relay'[t].state = to
  BY <1>1, <1>2, <1>3, <1>4
<1>6. RelayTells'
  <2>1. ASSUME NEW t \in Sessions
        PROVE  /\ relay'[t].state \in {"decided", "consumed"} => relay'[t].decision # NoDecision
               /\ relay'[t].decision # NoDecision =>
                     /\ relay'[t].decision \in pressed[t] /\ phone[t] = NoDecision
                     /\ relay'[t].state \in {"decided", "consumed", "revoked"}
               /\ phone[t] # NoDecision => relay'[t].state \in {"pending", "revoked"}
    BY <1>5 DEF Tells, RelayTells
  <2>2. QED
    BY <2>1 DEF RelayTells
<1>7. \A t \in Sessions : HasRecord(t) => (HasRecord(t))'
  BY <1>5 DEF HasRecord
<1>8. RowTells'
  BY <1>5, <1>7 DEF Tells, RowTells
<1>9. RecordsTell'
  <2>1. ASSUME NEW u \in Subjects, NEW i \in DOMAIN approvals[u]
        PROVE  RecordTold(u, i)'
    <3>1. approvals[u][i].by \in Sessions \cup {Desk}
      BY <2>1 DEF MobileTypes, MobileTypeOK
    <3>2. RecordTold(u, i)
      BY <2>1 DEF Tells, RecordsTell
    <3>3. QED
      BY <1>5, <3>1, <3>2 DEF RecordTold
  <2>2. QED
    BY <2>1 DEF Tells, RecordsTell, ByPhone
<1>10. QED
  BY <1>5, <1>6, <1>8, <1>9, SessionFacts DEF Tells

\* The types of everything but the processes.
DataTypes ==
    /\ status \in [Subjects -> {"awaiting_approval"} \cup Decisions]
    /\ sound \in [Subjects -> BOOLEAN]
    /\ approvals \in [Subjects -> Seq(RecordType)]
    /\ row \in [Sessions -> [state : RowStates, subject : Subjects \cup {NoSubject}]]
    /\ relay \in [Sessions -> [state : RelayStates, decision : Decisions \cup {NoDecision}]]
    /\ created \in Seq(Sessions)
    /\ mailed \subseteq Sessions /\ late \subseteq Sessions
    /\ phone \in [Sessions -> Decisions \cup {NoDecision}]
    /\ pressed \in [Sessions -> SUBSET Decisions]
    /\ edits \in 0 .. MaxEdits /\ crashes \in 0 .. MaxCrashes

LEMMA TypesApart ==
    ASSUME MobileTypes
    PROVE  DataTypes /\ job \in [Processes -> JobType]
BY DEF MobileTypes, MobileTypeOK, DataTypes

LEMMA ElementsOfSeq ==
    ASSUME NEW S, NEW q \in Seq(S)
    PROVE  \A i \in DOMAIN q : q[i] \in S
OBVIOUS

\* A step of one process keeps the invariant when the data keeps its type,
\* the rows, the relay and the records still agree, and the process knows
\* where it is.
LEMMA StepKeeps ==
    ASSUME MobileTypes, OneProcess, NEW p \in Processes, JobGoes(p), DataTypes', Tells'
    PROVE  MobileInv'
<1>1. /\ job' \in [Processes -> JobType] /\ JobsKnow'
      /\ \A q \in Processes : /\ job'[q].pc \in Jobs
                              /\ job'[q].pc \in {"sync", "record", "receive", "finish", "ack"}
                                    => job'[q].todo # {}
  BY JobAfter
<1>2. \A u \in Subjects : \A i \in DOMAIN approvals'[u] : approvals'[u][i] \in RecordType
  <2>1. ASSUME NEW u \in Subjects
        PROVE  \A i \in DOMAIN approvals'[u] : approvals'[u][i] \in RecordType
    <3>1. approvals'[u] \in Seq(RecordType)
      BY DEF DataTypes
    <3>2. QED
      BY ONLY <3>1, ElementsOfSeq
  <2>2. QED
    BY <2>1
<1>3. \A i \in DOMAIN created' : created'[i] \in Sessions
  <2>1. created' \in Seq(Sessions)
    BY DEF DataTypes
  <2>2. QED
    BY ONLY <2>1, ElementsOfSeq
<1>4. MobileTypeOK'
  BY <1>1, <1>2, <1>3 DEF DataTypes, MobileTypeOK, RecordType
<1>5. MobileTypes'
  BY <1>1, <1>4 DEF MobileTypes, DataTypes
<1>6. QED
  BY <1>1, <1>5 DEF Tells, MobileInv

\* A process that stays where it is knows no less when the decisions at the
\* relay stay.
LEMMA IdleStays ==
    ASSUME MobileTypes, JobsKnow, NEW p \in Processes, job[p].pc = "idle", job' = job,
           \A s \in Sessions : relay'[s].decision = relay[s].decision
    PROVE  JobGoes(p)
<1>1. PICK v : v = job[p]
  OBVIOUS
<1>2. v \in JobType /\ v.pc = "idle" /\ job' = [job EXCEPT ![p] = v]
  BY <1>1 DEF MobileTypes
<1>3. ASSUME NEW item \in v.todo
      PROVE  relay'[item.session].decision = item.decision
  <2>1. item \in job[p].todo /\ item.session \in Sessions
    BY <1>1, <1>2 DEF JobType, ItemType
  <2>2. QED
    BY <2>1 DEF JobsKnow, Knows
<1>4. Knows(v)'
  BY <1>2, <1>3 DEF Knows
<1>5. QED
  BY <1>2, <1>4 DEF JobGoes, JobMoves

\* What a process has listed stays true of the relay.
LEMMA ListedStays ==
    ASSUME MobileTypes, JobsKnow, NEW p \in Processes,
           \A s \in Sessions : relay'[s].decision = relay[s].decision
    PROVE  \A item \in job[p].todo : relay'[item.session].decision = item.decision
<1>1. ASSUME NEW item \in job[p].todo
      PROVE  relay'[item.session].decision = item.decision
  <2>1. job[p] \in JobType
    BY DEF MobileTypes
  <2>2. item.session \in Sessions
    BY <2>1 DEF JobType, ItemType
  <2>3. QED
    BY <2>2 DEF JobsKnow, Knows
<1>2. QED
  BY <1>1

----------------------------------------------------------------------------
(* Issuing and closing a session.                                          *)

LEMMA BeginIssueKeeps ==
    ASSUME MobileInv, OneProcess, NEW p \in Processes, NEW s \in Sessions, NEW u \in Subjects,
           BeginIssue(p, s, u)
    PROVE  MobileInv'
<1>1. MobileTypes /\ Tells /\ DataTypes
  BY TypesApart DEF MobileInv, Tells
<1>2. UNCHANGED <<status, sound, approvals, row, relay, created, mailed, phone, pressed,
                  late, edits, crashes>>
  BY DEF BeginIssue, proposals, remote, bounds
<1>3. Tells' /\ \A j : Knows(j)' <=> Knows(j)
  BY <1>1, <1>2, NothingTold
<1>4. PICK v : v = [Idle EXCEPT !.pc = "create", !.session = s, !.subject = u]
  OBVIOUS
<1>5. v \in JobType /\ v.pc = "create" /\ v.session = s /\ v.subject = u /\ v.todo = {}
  BY <1>4 DEF Idle, JobType, Jobs
<1>6. row[s].state = "none" /\ relay[s].state = "none"
  BY DEF BeginIssue, Fresh
<1>7. Knows(v)
  BY <1>5, <1>6 DEF Knows
<1>8. JobGoes(p)
  BY <1>3, <1>4, <1>5, <1>7 DEF BeginIssue, JobGoes, JobMoves
<1>9. DataTypes'
  BY <1>1, <1>2 DEF DataTypes
<1>10. QED
  BY <1>1, <1>3, <1>8, <1>9, StepKeeps

\* A step that leaves the data and ends what the process does.
LEMMA EndsKeeps ==
    ASSUME MobileInv, OneProcess, NEW p \in Processes, job' = [job EXCEPT ![p] = Idle],
           UNCHANGED <<status, approvals, row, relay, phone, pressed>>, DataTypes'
    PROVE  MobileInv'
<1>1. MobileTypes /\ Tells
  BY DEF MobileInv, Tells
<1>2. Tells'
  BY <1>1, NothingTold
<1>3. QED
  BY <1>1, <1>2, GoesIdle, StepKeeps

LEMMA CreateFailsKeeps ==
    ASSUME MobileInv, OneProcess, NEW p \in Processes, CreateFails(p) \/ SyncRaises(p)
    PROVE  MobileInv'
<1>1. DataTypes
  BY TypesApart DEF MobileInv
<1>2. /\ job' = [job EXCEPT ![p] = Idle]
      /\ UNCHANGED <<status, sound, approvals, row, relay, created, mailed, phone, pressed,
                     late, edits, crashes>>
  BY DEF CreateFails, SyncRaises, proposals, remote, bounds
<1>3. DataTypes'
  BY <1>1, <1>2 DEF DataTypes
<1>4. QED
  BY <1>2, <1>3, EndsKeeps

LEMMA MailKeeps ==
    ASSUME MobileInv, OneProcess, NEW p \in Processes, Mail(p)
    PROVE  MobileInv'
<1>1. DataTypes
  BY TypesApart DEF MobileInv
<1>2. job[p].session \in Sessions
  BY DEF Mail, MobileInv, JobsKnow, Knows
<1>3. /\ job' = [job EXCEPT ![p] = Idle] /\ mailed' \subseteq Sessions
      /\ UNCHANGED <<status, sound, approvals, row, relay, created, phone, pressed,
                     late, edits, crashes>>
  BY <1>1, <1>2 DEF Mail, DataTypes, proposals, bounds
<1>4. DataTypes'
  BY <1>1, <1>3 DEF DataTypes
<1>5. QED
  BY <1>3, <1>4, EndsKeeps

LEMMA CrashKeeps ==
    ASSUME MobileInv, OneProcess, NEW p \in Processes, Crash(p)
    PROVE  MobileInv'
<1>1. DataTypes
  BY TypesApart DEF MobileInv
<1>2. crashes' \in 0 .. MaxCrashes
  BY <1>1, SessionFacts DEF Crash, DataTypes
<1>3. /\ job' = [job EXCEPT ![p] = Idle]
      /\ UNCHANGED <<status, sound, approvals, row, relay, created, mailed, phone, pressed,
                     late, edits>>
  BY DEF Crash, proposals, remote
<1>4. DataTypes'
  BY <1>1, <1>2, <1>3 DEF DataTypes
<1>5. QED
  BY <1>3, <1>4, EndsKeeps

LEMMA CreateSessionKeeps ==
    ASSUME MobileInv, OneProcess, NEW p \in Processes, CreateSession(p)
    PROVE  MobileInv'
<1>1. MobileTypes /\ Tells /\ DataTypes /\ JobsKnow
  BY TypesApart DEF MobileInv, Tells
<1>2. PICK s : s = job[p].session
  OBVIOUS
<1>3. /\ s \in Sessions /\ job[p].subject \in Subjects
      /\ row[s].state = "none" /\ relay[s].state = "none"
  BY <1>1, <1>2 DEF CreateSession, JobsKnow, Knows
<1>4. UNCHANGED <<status, sound, approvals, row, mailed, phone, pressed, late, edits, crashes>>
  BY DEF CreateSession, proposals, bounds
<1>5. relay' = [relay EXCEPT ![s] = [relay[s] EXCEPT !.state = "pending"]]
  BY <1>2 DEF CreateSession
<1>6. PICK w : w = [relay[s] EXCEPT !.state = "pending"]
  OBVIOUS
<1>7. /\ w \in [state : RelayStates, decision : Decisions \cup {NoDecision}]
      /\ w.state = "pending" /\ w.decision = relay[s].decision
  BY <1>1, <1>3, <1>6 DEF DataTypes, RelayStates
<1>8. /\ relay' \in [Sessions -> [state : RelayStates, decision : Decisions \cup {NoDecision}]]
      /\ \A t \in Sessions : /\ relay'[t].decision = relay[t].decision
                             /\ relay'[t].state = IF t = s THEN "pending" ELSE relay[t].state
  BY <1>1, <1>3, <1>5, <1>6, <1>7 DEF DataTypes
<1>9. relay[s].decision = NoDecision /\ phone[s] = NoDecision
  BY <1>1, <1>3 DEF Tells, RelayTells
<1>10. created' \in Seq(Sessions)
  BY <1>1, <1>2, <1>3 DEF CreateSession, DataTypes
<1>11. DataTypes'
  BY <1>1, <1>4, <1>8, <1>10 DEF DataTypes
<1>12. RelayTells'
  <2>1. ASSUME NEW t \in Sessions
        PROVE  /\ relay'[t].state \in {"decided", "consumed"} => relay'[t].decision # NoDecision
               /\ relay'[t].decision # NoDecision =>
                     /\ relay'[t].decision \in pressed'[t] /\ phone'[t] = NoDecision
                     /\ relay'[t].state \in {"decided", "consumed", "revoked"}
               /\ phone'[t] # NoDecision => relay'[t].state \in {"pending", "revoked"}
    BY <1>1, <1>4, <1>8, <1>9 DEF Tells, RelayTells
  <2>2. QED
    BY <2>1 DEF RelayTells
<1>13. \A t \in Sessions : HasRecord(t) => (HasRecord(t))'
  BY <1>4, <1>8 DEF HasRecord
<1>14. RowTells'
  BY <1>1, <1>3, <1>4, <1>8, <1>13 DEF Tells, RowTells
<1>15. RecordsTell'
  <2>1. ASSUME NEW u \in Subjects, NEW i \in DOMAIN approvals[u]
        PROVE  RecordTold(u, i)'
    <3>1. approvals[u][i].by \in Sessions \cup {Desk}
      BY <1>1, <2>1 DEF MobileTypes, MobileTypeOK
    <3>2. RecordTold(u, i)
      BY <1>1, <2>1 DEF Tells, RecordsTell
    <3>3. QED
      BY <1>4, <1>8, <3>1, <3>2 DEF RecordTold
  <2>2. QED
    BY <1>1, <1>4, <2>1 DEF Tells, RecordsTell, ByPhone
<1>16. JobGoes(p)
  <2>1. CASE job' = [job EXCEPT ![p] = Idle]
    BY <2>1, GoesIdle
  <2>2. CASE job' = JobAt(p, "store")
    <3>1. PICK v : /\ JobMoves(p, v)
                   /\ v.pc = "store" /\ v.session = job[p].session
                   /\ v.subject = job[p].subject /\ v.todo = job[p].todo
      BY <1>1, <2>2, JobAtIs DEF Jobs
    <3>2. \A item \in v.todo : relay'[item.session].decision = item.decision
      BY <1>1, <1>8, <3>1, ListedStays
    <3>3. row'[s].state = "none" /\ relay'[s].state # "none"
      BY <1>3, <1>4, <1>8
    <3>4. Knows(v)'
      BY <1>2, <1>3, <3>1, <3>2, <3>3 DEF Knows
    <3>5. QED
      BY <3>1, <3>4 DEF JobGoes
  <2>3. QED
    BY <2>1, <2>2 DEF CreateSession
<1>17. QED
  BY <1>1, <1>11, <1>12, <1>14, <1>15, <1>16, StepKeeps DEF Tells

LEMMA StoreSessionKeeps ==
    ASSUME MobileInv, OneProcess, NEW p \in Processes, StoreSession(p)
    PROVE  MobileInv'
<1>1. MobileTypes /\ Tells /\ DataTypes /\ JobsKnow
  BY TypesApart DEF MobileInv, Tells
<1>2. PICK s, u : s = job[p].session /\ u = job[p].subject
  OBVIOUS
<1>3. /\ s \in Sessions /\ u \in Subjects
      /\ row[s].state = "none" /\ relay[s].state # "none"
  BY <1>1, <1>2 DEF StoreSession, JobsKnow, Knows
<1>4. UNCHANGED <<status, sound, approvals, relay, created, mailed, phone, pressed, late,
                  edits, crashes>>
  BY DEF StoreSession, proposals, remote, bounds
<1>5. row' = [row EXCEPT ![s] = [state |-> "pending", subject |-> u]]
  BY <1>2 DEF StoreSession
<1>6. /\ row' \in [Sessions -> [state : RowStates, subject : Subjects \cup {NoSubject}]]
      /\ row'[s].state = "pending" /\ row'[s].subject = u
      /\ \A t \in Sessions : t # s => row'[t] = row[t]
  BY <1>1, <1>3, <1>5 DEF DataTypes, RowStates
<1>7. DataTypes'
  BY <1>1, <1>4, <1>6 DEF DataTypes
<1>8. RelayTells'
  BY <1>1, <1>4 DEF Tells, RelayTells
<1>9. \A t \in Sessions : t # s => (HasRecord(t) <=> (HasRecord(t))')
  BY <1>4, <1>6 DEF HasRecord
<1>10. RowTells'
  <2>1. ASSUME NEW t \in Sessions
        PROVE  /\ row'[t].state # "none" =>
                     relay'[t].state # "none" /\ row'[t].subject \in Subjects
               /\ relay'[t].state = "consumed" => row'[t].state = "synchronized"
               /\ row'[t].state \in {"approved_remote", "rejected_remote", "synchronized"}
                     => (HasRecord(t))'
    BY <1>1, <1>3, <1>4, <1>6, <1>9 DEF Tells, RowTells
  <2>2. QED
    BY <2>1 DEF RowTells
<1>11. RecordsTell'
  <2>1. ASSUME NEW v \in Subjects, NEW i \in DOMAIN approvals[v]
        PROVE  RecordTold(v, i)'
    <3>1. approvals[v][i].by \in Sessions \cup {Desk}
      BY <1>1, <2>1 DEF MobileTypes, MobileTypeOK
    <3>2. RecordTold(v, i)
      BY <1>1, <2>1 DEF Tells, RecordsTell
    <3>3. QED
      BY <1>3, <1>4, <1>6, <3>1, <3>2 DEF RecordTold
  <2>2. QED
    BY <1>1, <1>4, <2>1 DEF Tells, RecordsTell, ByPhone
<1>12. PICK v : JobMoves(p, v) /\ v.pc = "mail" /\ v.session = s /\ v.todo = job[p].todo
  BY <1>1, <1>2, JobAtIs DEF Jobs, StoreSession
<1>13. \A item \in v.todo : relay'[item.session].decision = item.decision
  BY <1>1, <1>4, <1>12, ListedStays
<1>14. Knows(v)'
  BY <1>3, <1>12, <1>13 DEF Knows
<1>15. QED
  BY <1>1, <1>7, <1>8, <1>10, <1>11, <1>12, <1>14, StepKeeps DEF Tells, JobGoes

LEMMA RevokeKeeps ==
    ASSUME MobileInv, OneProcess, NEW p \in Processes, NEW s \in Sessions, Revoke(p, s)
    PROVE  MobileInv'
<1>1. MobileTypes /\ Tells /\ DataTypes
  BY TypesApart DEF MobileInv, Tells
<1>2. /\ row[s].state = "pending" /\ Unreliably(s, "revoked")
      /\ UNCHANGED <<status, sound, approvals, row, created, mailed, phone, pressed, late,
                     edits, crashes>>
  BY DEF Revoke, proposals, bounds
<1>3. /\ relay' \in [Sessions -> [state : RelayStates, decision : Decisions \cup {NoDecision}]]
      /\ Tells'
  BY <1>1, <1>2, RelayMoves
<1>4. DataTypes'
  BY <1>1, <1>2, <1>3 DEF DataTypes
<1>5. PICK v : v = [Idle EXCEPT !.pc = "revoke", !.session = s]
  OBVIOUS
<1>6. v \in JobType /\ v.pc = "revoke" /\ v.session = s /\ v.todo = {}
  BY <1>5 DEF Idle, JobType, Jobs
<1>7. Knows(v)'
  BY <1>2, <1>6 DEF Knows
<1>8. JobGoes(p)
  BY <1>5, <1>6, <1>7 DEF Revoke, JobGoes, JobMoves
<1>9. QED
  BY <1>1, <1>3, <1>4, <1>8, StepKeeps

\* A row closes without a decision, and the process is over or stays idle.
LEMMA ClosesKeeps ==
    ASSUME MobileInv, OneProcess, NEW p \in Processes, NEW s \in Sessions,
           NEW to \in {"expired", "revoked", "stale"},
           row[s].state \in OpenStates, Move(s, to), JobGoes(p),
           UNCHANGED <<proposals, remote, late, bounds>>
    PROVE  MobileInv'
<1>1. MobileTypes /\ Tells /\ DataTypes
  BY TypesApart DEF MobileInv, Tells
<1>2. UNCHANGED <<status, sound, approvals, relay, created, mailed, phone, pressed, late,
                  edits, crashes>>
  BY DEF proposals, remote, bounds
<1>3. /\ row[s].state # "none" /\ relay[s].state # "consumed"
      /\ to \in RowStates \ {"none"}
      /\ to \notin {"approved_remote", "rejected_remote", "synchronized"}
  BY <1>1 DEF OpenStates, RowStates, ClosedStates, Tells, RowTells
<1>4. /\ row' \in [Sessions -> [state : RowStates, subject : Subjects \cup {NoSubject}]]
      /\ Tells'
  BY <1>1, <1>2, <1>3, RowMoves
<1>5. DataTypes'
  BY <1>1, <1>2, <1>4 DEF DataTypes
<1>6. QED
  BY <1>1, <1>4, <1>5, StepKeeps

LEMMA StoreRevokedKeeps ==
    ASSUME MobileInv, OneProcess, NEW p \in Processes, StoreRevoked(p)
    PROVE  MobileInv'
<1>1. job[p].session \in Sessions /\ row[job[p].session].state \in OpenStates
  BY DEF StoreRevoked, MobileInv, JobsKnow, Knows, OpenStates
<1>2. JobGoes(p)
  BY GoesIdle DEF StoreRevoked
<1>3. QED
  BY <1>1, <1>2, ClosesKeeps DEF StoreRevoked

LEMMA ExpireKeeps ==
    ASSUME MobileInv, OneProcess, NEW p \in Processes, NEW s \in Sessions, Expire(p, s)
    PROVE  MobileInv'
<1>1. relay' = relay /\ job' = job /\ job[p].pc = "idle"
  BY DEF Expire, remote
<1>2. JobGoes(p)
  BY <1>1, IdleStays DEF MobileInv
<1>3. row[s].state \in OpenStates
  BY DEF Expire, OpenStates
<1>4. QED
  BY <1>2, <1>3, ClosesKeeps DEF Expire

----------------------------------------------------------------------------
(* Collecting the decisions.                                               *)

LEMMA ListedIsItems ==
    ASSUME DataTypes, RelayTells
    PROVE  /\ Listed \subseteq ItemType
           /\ \A item \in Listed : relay[item.session].decision = item.decision
<1>1. ASSUME NEW item \in Listed
      PROVE  item \in ItemType /\ relay[item.session].decision = item.decision
  <2>1. PICK i \in DOMAIN created :
            /\ relay[created[i]].state = "decided"
            /\ item = [id |-> i, session |-> created[i], decision |-> relay[created[i]].decision]
    BY <1>1 DEF Listed
  <2>2. i \in Nat /\ created[i] \in Sessions
    BY <2>1 DEF DataTypes
  <2>3. relay[created[i]].decision \in Decisions
    BY <2>1, <2>2 DEF DataTypes, RelayTells
  <2>4. QED
    BY <2>1, <2>2, <2>3 DEF ItemType
<1>2. QED
  BY <1>1

LEMMA FetchKeeps ==
    ASSUME MobileInv, OneProcess, NEW p \in Processes, Fetch(p)
    PROVE  MobileInv'
<1>1. MobileTypes /\ Tells /\ DataTypes
  BY TypesApart DEF MobileInv, Tells
<1>2. UNCHANGED <<status, sound, approvals, row, relay, created, mailed, phone, pressed,
                  late, edits, crashes>>
  BY DEF Fetch, proposals, remote, bounds
<1>3. Tells' /\ \A j : (Knows(j))' <=> Knows(j)
  BY <1>1, <1>2, NothingTold
<1>4. PICK v : v = [Idle EXCEPT !.pc = "sync", !.todo = Listed, !.late = late]
  OBVIOUS
<1>5. v \in JobType /\ v.pc = "sync" /\ v.todo = Listed
  BY <1>1, <1>4, ListedIsItems DEF Tells, Idle, JobType, Jobs, DataTypes
<1>6. Knows(v)
  BY <1>1, <1>5, ListedIsItems DEF Tells, Fetch, Knows
<1>7. JobGoes(p)
  BY <1>3, <1>4, <1>5, <1>6 DEF Fetch, JobGoes, JobMoves
<1>8. DataTypes'
  BY <1>1, <1>2 DEF DataTypes
<1>9. QED
  BY <1>1, <1>3, <1>7, <1>8, StepKeeps

LEMMA SkipKeeps ==
    ASSUME MobileInv, OneProcess, NEW p \in Processes, Skip(p)
    PROVE  MobileInv'
<1>1. MobileTypes /\ Tells /\ DataTypes /\ JobsKnow
  BY TypesApart DEF MobileInv, Tells
<1>2. UNCHANGED <<status, sound, approvals, row, relay, created, mailed, phone, pressed,
                  late, edits, crashes>>
  BY DEF Skip, proposals, remote, bounds
<1>3. Tells' /\ DataTypes'
  BY <1>1, <1>2, NothingTold DEF DataTypes
<1>4. JobGoes(p)
  BY <1>1, <1>2, ProceedGoes DEF Skip
<1>5. QED
  BY <1>1, <1>3, <1>4, StepKeeps

LEMMA SyncClosesKeeps ==
    ASSUME MobileInv, OneProcess, NEW p \in Processes, SyncExpires(p) \/ SyncStale(p)
    PROVE  MobileInv'
<1>1. MobileTypes /\ JobsKnow
  BY DEF MobileInv
<1>2. /\ job[p].pc = "sync" /\ row[Current(p).session].state \in OpenStates
      /\ Proceed(p) /\ UNCHANGED <<proposals, remote, late, bounds>>
      /\ \/ Move(Current(p).session, "expired")
         \/ Move(Current(p).session, "stale")
  BY DEF SyncExpires, SyncStale, Taken
<1>3. relay' = relay
  BY <1>2 DEF remote
<1>4. Current(p).session \in Sessions
  BY <1>1, <1>2, Listing
<1>5. JobGoes(p)
  BY <1>1, <1>2, <1>3, ProceedGoes
<1>6. QED
  BY <1>2, <1>4, <1>5, ClosesKeeps

LEMMA SyncAcceptsKeeps ==
    ASSUME MobileInv, OneProcess, NEW p \in Processes, SyncAccepts(p)
    PROVE  MobileInv'
<1>1. MobileTypes /\ Tells /\ DataTypes /\ JobsKnow
  BY TypesApart DEF MobileInv, Tells
<1>2. UNCHANGED <<status, sound, approvals, row, relay, created, mailed, phone, pressed,
                  late, edits, crashes>>
  BY DEF SyncAccepts, proposals, remote, bounds
<1>3. Tells' /\ DataTypes' /\ \A j : (Knows(j))' <=> Knows(j)
  BY <1>1, <1>2, NothingTold DEF DataTypes
<1>4. PICK c : c = Current(p).session
  OBVIOUS
<1>5. c \in Sessions /\ job[p].todo # {} /\ c = First(job[p].todo).session
  BY <1>1, <1>4, Listing DEF SyncAccepts, Taken
<1>6. row[c].state \in OpenStates /\ status[row[c].subject] = "awaiting_approval"
  BY <1>4 DEF SyncAccepts, Taken, Blocked
<1>7. row[c].subject \in Subjects
  BY <1>1, <1>5, <1>6 DEF Tells, RowTells, OpenStates
<1>8. ByPhone(row[c].subject) = {}
  BY <1>1, <1>6, <1>7 DEF Tells, RecordsTell, RecordTold, ByPhone
<1>9. PICK v : JobMoves(p, v) /\ v.pc = "record" /\ v.todo = job[p].todo
  BY <1>1, JobAtIs DEF Jobs, SyncAccepts
<1>10. \A item \in v.todo : relay[item.session].decision = item.decision
  BY <1>1, <1>9 DEF JobsKnow, Knows
<1>11. Knows(v)
  BY <1>5, <1>6, <1>8, <1>9, <1>10 DEF Knows
<1>12. QED
  BY <1>1, <1>3, <1>9, <1>11, StepKeeps DEF JobGoes

\* One more record of a proposal.
LEMMA RecordAdded ==
    ASSUME DataTypes, NEW u \in Subjects, NEW r \in RecordType,
           approvals' = [approvals EXCEPT ![u] = Append(@, r)]
    PROVE  /\ approvals' \in [Subjects -> Seq(RecordType)]
           /\ \A v \in Subjects : v # u => approvals'[v] = approvals[v]
           /\ \A v \in Subjects : \A i \in DOMAIN approvals[v] :
                 i \in DOMAIN approvals'[v] /\ approvals'[v][i] = approvals[v][i]
           /\ \E n : /\ n \notin DOMAIN approvals[u]
                     /\ DOMAIN approvals'[u] = DOMAIN approvals[u] \cup {n}
                     /\ approvals'[u][n] = r
<1>1. approvals \in [Subjects -> Seq(RecordType)]
  BY DEF DataTypes
<1>2. PICK q : q = approvals[u]
  OBVIOUS
<1>3. q \in Seq(RecordType)
  BY <1>1, <1>2
<1>4. PICK z : z = Append(q, r)
  OBVIOUS
<1>5. /\ z \in Seq(RecordType)
      /\ \A i \in DOMAIN q : i \in DOMAIN z /\ z[i] = q[i]
      /\ Len(q) + 1 \notin DOMAIN q
      /\ DOMAIN z = DOMAIN q \cup {Len(q) + 1}
      /\ z[Len(q) + 1] = r
  BY <1>3, <1>4
<1>6. approvals' = [approvals EXCEPT ![u] = z]
  BY <1>2, <1>4
<1>7. QED
  BY <1>1, <1>2, <1>5, <1>6

LEMMA RecordKeeps ==
    ASSUME MobileInv, OneProcess, NEW p \in Processes, Record(p)
    PROVE  MobileInv'
<1>1. MobileTypes /\ Tells /\ DataTypes /\ JobsKnow
  BY TypesApart DEF MobileInv, Tells
<1>2. PICK s, u, d : s = Current(p).session /\ u = row[s].subject /\ d = Current(p).decision
  OBVIOUS
<1>3. job[p].pc = "record"
  BY DEF Record
<1>4. /\ s \in Sessions /\ d \in Decisions /\ relay[s].decision = d
      /\ job[p].todo # {} /\ s = First(job[p].todo).session
  BY <1>1, <1>2, <1>3, Listing
<1>5. row[s].state \in OpenStates /\ ByPhone(u) = {}
  BY <1>1, <1>2, <1>3, <1>4 DEF JobsKnow, Knows
<1>6. u \in Subjects /\ row[s].state # "none"
  BY <1>1, <1>2, <1>4, <1>5 DEF Tells, RowTells, OpenStates
<1>7. PICK r : r = [by |-> s, decision |-> d]
  OBVIOUS
<1>8. r \in RecordType /\ r.by = s /\ r.decision = d
  BY <1>4, <1>7 DEF RecordType
<1>9. /\ approvals' = [approvals EXCEPT ![u] = Append(@, r)]
      /\ status' = [status EXCEPT ![u] = d] /\ job' = JobAt(p, "receive")
      /\ UNCHANGED <<sound, row, relay, created, mailed, phone, pressed, late, edits, crashes>>
  BY <1>2, <1>7 DEF Record, remote, bounds
<1>10. /\ approvals' \in [Subjects -> Seq(RecordType)]
       /\ \A v \in Subjects : v # u => approvals'[v] = approvals[v]
       /\ \A v \in Subjects : \A i \in DOMAIN approvals[v] :
             i \in DOMAIN approvals'[v] /\ approvals'[v][i] = approvals[v][i]
  BY <1>1, <1>6, <1>8, <1>9, RecordAdded
<1>11. PICK n : /\ n \notin DOMAIN approvals[u]
                /\ DOMAIN approvals'[u] = DOMAIN approvals[u] \cup {n} /\ approvals'[u][n] = r
  BY <1>1, <1>6, <1>8, <1>9, RecordAdded
<1>12. /\ status' \in [Subjects -> {"awaiting_approval"} \cup Decisions]
       /\ status'[u] # "awaiting_approval"
       /\ \A v \in Subjects : v # u => status'[v] = status[v]
  BY <1>1, <1>4, <1>6, <1>9 DEF DataTypes, Decisions
<1>13. DataTypes'
  BY <1>1, <1>9, <1>10, <1>12 DEF DataTypes
<1>14. RelayTells'
  BY <1>1, <1>9 DEF Tells, RelayTells
<1>15. ASSUME NEW t \in Sessions, HasRecord(t), row[t].subject \in Subjects
       PROVE  (HasRecord(t))'
  BY <1>9, <1>10, <1>15 DEF HasRecord
<1>16. RowTells'
  BY <1>1, <1>9, <1>15 DEF Tells, RowTells
<1>17. (HasRecord(s))'
  BY <1>2, <1>4, <1>8, <1>9, <1>11 DEF HasRecord
<1>18. ASSUME NEW v \in Subjects, NEW i \in DOMAIN approvals'[v]
       PROVE  RecordTold(v, i)'
  <2>1. CASE i \in DOMAIN approvals[v]
    <3>1. approvals'[v][i] = approvals[v][i] /\ RecordTold(v, i)
      BY <1>1, <1>10, <2>1 DEF Tells, RecordsTell
    <3>2. QED
      BY <1>9, <1>12, <3>1 DEF RecordTold
  <2>2. CASE i \notin DOMAIN approvals[v]
    <3>1. v = u /\ i = n
      BY <1>10, <1>11, <1>18, <2>2
    <3>2. QED
      BY <1>2, <1>4, <1>6, <1>8, <1>9, <1>11, <1>12, <3>1 DEF RecordTold
  <2>3. QED
    BY <2>1, <2>2
<1>19. ASSUME NEW v \in Subjects
       PROVE  \A i, j \in ByPhone(v)' : i = j
  <2>1. CASE v = u
    BY <1>5, <1>10, <1>11, <2>1 DEF ByPhone
  <2>2. CASE v # u
    BY <1>1, <1>10, <2>2 DEF Tells, RecordsTell, ByPhone
  <2>3. QED
    BY <2>1, <2>2
<1>20. RecordsTell'
  BY <1>18, <1>19 DEF RecordsTell
<1>21. PICK v : JobMoves(p, v) /\ v.pc = "receive" /\ v.todo = job[p].todo
  BY <1>1, <1>9, JobAtIs DEF Jobs
<1>22. \A item \in v.todo : relay'[item.session].decision = item.decision
  BY <1>1, <1>9, <1>21, ListedStays
<1>23. row'[s].state \in OpenStates
  BY <1>5, <1>9
<1>24. Knows(v)'
  BY <1>4, <1>17, <1>21, <1>22, <1>23 DEF Knows
<1>25. QED
  BY <1>1, <1>13, <1>14, <1>16, <1>20, <1>21, <1>24, StepKeeps DEF Tells, JobGoes

LEMMA ReceiveKeeps ==
    ASSUME MobileInv, OneProcess, NEW p \in Processes, Receive(p) \/ Finish(p)
    PROVE  MobileInv'
<1>1. MobileTypes /\ Tells /\ DataTypes /\ JobsKnow
  BY TypesApart DEF MobileInv, Tells
<1>2. PICK s : s = Current(p).session
  OBVIOUS
<1>3. PICK to, pc : /\ Move(s, to) /\ job' = JobAt(p, pc)
                    /\ \/ /\ job[p].pc = "receive" /\ pc = "finish"
                          /\ to \in {"approved_remote", "rejected_remote"}
                       \/ job[p].pc = "finish" /\ pc = "ack" /\ to = "synchronized"
  BY <1>2 DEF Receive, Finish
<1>4. UNCHANGED <<status, sound, approvals, relay, created, mailed, phone, pressed, late,
                  edits, crashes>>
  BY DEF Receive, Finish, proposals, remote, bounds
<1>5. s \in Sessions /\ job[p].todo # {} /\ s = First(job[p].todo).session
  BY <1>1, <1>2, <1>3, Listing
<1>6. row[s].state \in OpenStates /\ HasRecord(s)
  BY <1>1, <1>3, <1>5 DEF JobsKnow, Knows, OpenStates, Tells, RowTells
<1>7. row[s].state # "none" /\ relay[s].state # "consumed"
  BY <1>1, <1>5, <1>6 DEF OpenStates, Tells, RowTells
<1>8. to \in RowStates \ {"none"} /\ pc \in Jobs
  BY <1>3 DEF RowStates, ClosedStates, Jobs
<1>9. /\ row' \in [Sessions -> [state : RowStates, subject : Subjects \cup {NoSubject}]]
      /\ Tells'
      /\ \A t \in Sessions : row'[t].state = IF t = s THEN to ELSE row[t].state
  BY <1>1, <1>3, <1>4, <1>5, <1>6, <1>7, <1>8, RowMoves
<1>10. DataTypes'
  BY <1>1, <1>4, <1>9 DEF DataTypes
<1>11. PICK v : JobMoves(p, v) /\ v.pc = pc /\ v.todo = job[p].todo
  BY <1>1, <1>3, <1>8, JobAtIs
<1>12. \A item \in v.todo : relay'[item.session].decision = item.decision
  BY <1>1, <1>4, <1>11, ListedStays
<1>13. row'[s].state = to
  BY <1>5, <1>9
<1>14. Knows(v)'
  BY <1>3, <1>5, <1>11, <1>12, <1>13 DEF Knows
<1>15. QED
  BY <1>1, <1>9, <1>10, <1>11, <1>14, StepKeeps DEF JobGoes

LEMMA AcknowledgeKeeps ==
    ASSUME MobileInv, OneProcess, NEW p \in Processes, Acknowledge(p)
    PROVE  MobileInv'
<1>1. MobileTypes /\ Tells /\ DataTypes /\ JobsKnow
  BY TypesApart DEF MobileInv, Tells
<1>2. PICK s : s = Current(p).session
  OBVIOUS
<1>3. /\ job[p].pc = "ack" /\ Unreliably(s, "consumed") /\ Proceed(p)
      /\ UNCHANGED <<status, sound, approvals, row, created, mailed, phone, pressed, late,
                     edits, crashes>>
  BY <1>2 DEF Acknowledge, proposals, bounds
<1>4. /\ s \in Sessions /\ s = First(job[p].todo).session
      /\ relay[s].decision \in Decisions
  BY <1>1, <1>2, <1>3, Listing
<1>5. row[s].state = "synchronized" /\ relay[s].decision # NoDecision
  BY <1>1, <1>3, <1>4, SessionFacts DEF JobsKnow, Knows
<1>6. /\ relay' \in [Sessions -> [state : RelayStates, decision : Decisions \cup {NoDecision}]]
      /\ Tells' /\ \A t \in Sessions : relay'[t].decision = relay[t].decision
  BY <1>1, <1>3, <1>4, <1>5, RelayMoves
<1>7. DataTypes'
  BY <1>1, <1>3, <1>6 DEF DataTypes
<1>8. JobGoes(p)
  BY <1>1, <1>3, <1>6, ProceedGoes
<1>9. QED
  BY <1>1, <1>6, <1>7, <1>8, StepKeeps

----------------------------------------------------------------------------
(* The phone, the desk, the articles and the clock.                        *)

\* A step around the processes keeps the invariant when what they know stays.
LEMMA AroundKeeps ==
    ASSUME MobileInv, job' = job, DataTypes', Tells', \A p \in Processes : Knows(job[p])'
    PROVE  MobileInv'
<1>1. \A u \in Subjects : \A i \in DOMAIN approvals'[u] : approvals'[u][i] \in RecordType
  <2>1. ASSUME NEW u \in Subjects
        PROVE  \A i \in DOMAIN approvals'[u] : approvals'[u][i] \in RecordType
    <3>1. approvals'[u] \in Seq(RecordType)
      BY DEF DataTypes
    <3>2. QED
      BY ONLY <3>1, ElementsOfSeq
  <2>2. QED
    BY <2>1
<1>2. \A i \in DOMAIN created' : created'[i] \in Sessions
  <2>1. created' \in Seq(Sessions)
    BY DEF DataTypes
  <2>2. QED
    BY ONLY <2>1, ElementsOfSeq
<1>3. MobileTypeOK'
  BY <1>1, <1>2 DEF MobileInv, MobileTypes, DataTypes, MobileTypeOK, RecordType
<1>4. MobileTypes'
  BY <1>3 DEF MobileInv, MobileTypes, DataTypes
<1>5. QED
  BY <1>4 DEF Tells, MobileInv, JobsKnow

LEMMA EditKeeps ==
    ASSUME MobileInv, NEW u \in Subjects, Edit(u)
    PROVE  MobileInv'
<1>1. Tells /\ DataTypes
  BY TypesApart DEF MobileInv, Tells
<1>2. UNCHANGED <<status, approvals, row, relay, created, mailed, phone, pressed, late, job,
                  crashes>>
  BY DEF Edit, remote
<1>3. sound' \in [Subjects -> BOOLEAN] /\ edits' \in 0 .. MaxEdits
  BY <1>1, SessionFacts DEF Edit, DataTypes
<1>4. DataTypes'
  BY <1>1, <1>2, <1>3 DEF DataTypes
<1>5. Tells' /\ \A j : (Knows(j))' <=> Knows(j)
  BY <1>1, <1>2, NothingTold
<1>6. \A p \in Processes : Knows(job[p])'
  BY <1>2, <1>5 DEF MobileInv, JobsKnow
<1>7. QED
  BY <1>2, <1>4, <1>5, <1>6, AroundKeeps

LEMMA PassesKeeps ==
    ASSUME MobileInv, NEW s \in Sessions, Passes(s)
    PROVE  MobileInv'
<1>1. Tells /\ DataTypes
  BY TypesApart DEF MobileInv, Tells
<1>2. UNCHANGED <<status, sound, approvals, row, relay, created, mailed, phone, pressed, job,
                  edits, crashes>>
  BY DEF Passes, remote, proposals, bounds
<1>3. late' \subseteq Sessions
  BY <1>1 DEF Passes, DataTypes
<1>4. DataTypes'
  BY <1>1, <1>2, <1>3 DEF DataTypes
<1>5. Tells' /\ \A j : (Knows(j))' <=> Knows(j)
  BY <1>1, <1>2, NothingTold
<1>6. \A p \in Processes : Knows(job[p])'
  BY <1>2, <1>5 DEF MobileInv, JobsKnow
<1>7. QED
  BY <1>2, <1>4, <1>5, <1>6, AroundKeeps

LEMMA PressKeeps ==
    ASSUME MobileInv, NEW s \in Sessions, NEW d \in Decisions, Press(s, d)
    PROVE  MobileInv'
<1>1. Tells /\ DataTypes
  BY TypesApart DEF MobileInv, Tells
<1>2. UNCHANGED <<status, sound, approvals, row, relay, created, mailed, pressed, late, job,
                  edits, crashes>>
  BY DEF Press, proposals, bounds
<1>3. /\ phone' \in [Sessions -> Decisions \cup {NoDecision}]
      /\ phone'[s] = d /\ \A t \in Sessions : t # s => phone'[t] = phone[t]
  BY <1>1 DEF Press, DataTypes
<1>4. DataTypes'
  BY <1>1, <1>2, <1>3 DEF DataTypes
<1>5. relay[s].state = "pending" /\ relay[s].decision = NoDecision
  BY <1>1 DEF Press, Tells, RelayTells
<1>6. RelayTells'
  <2>1. ASSUME NEW t \in Sessions
        PROVE  /\ relay'[t].state \in {"decided", "consumed"} => relay'[t].decision # NoDecision
               /\ relay'[t].decision # NoDecision =>
                     /\ relay'[t].decision \in pressed'[t] /\ phone'[t] = NoDecision
                     /\ relay'[t].state \in {"decided", "consumed", "revoked"}
               /\ phone'[t] # NoDecision => relay'[t].state \in {"pending", "revoked"}
    BY <1>1, <1>2, <1>3, <1>5 DEF Tells, RelayTells
  <2>2. QED
    BY <2>1 DEF RelayTells
<1>7. \A t : (HasRecord(t))' <=> HasRecord(t)
  BY <1>2 DEF HasRecord
<1>8. RowTells' /\ RecordsTell'
  BY <1>1, <1>2, <1>7 DEF Tells, RowTells, RecordsTell, RecordTold, ByPhone
<1>9. \A j : (Knows(j))' <=> Knows(j)
  BY <1>2, <1>7 DEF Knows, ByPhone
<1>10. \A p \in Processes : Knows(job[p])'
  BY <1>2, <1>9 DEF MobileInv, JobsKnow
<1>11. QED
  BY <1>2, <1>4, <1>6, <1>8, <1>10, AroundKeeps DEF Tells

LEMMA DecideKeeps ==
    ASSUME MobileInv, NEW s \in Sessions, Decide(s)
    PROVE  MobileInv'
<1>1. MobileTypes /\ Tells /\ DataTypes /\ JobsKnow
  BY TypesApart DEF MobileInv, Tells
<1>2. UNCHANGED <<status, sound, approvals, row, created, mailed, late, job, edits, crashes>>
  BY DEF Decide, proposals, bounds
<1>3. PICK d : d = phone[s]
  OBVIOUS
<1>4. d \in Decisions /\ d # NoDecision
  BY <1>1, <1>3 DEF Decide, DataTypes
<1>5. relay[s].state \in {"pending", "revoked"} /\ relay[s].decision = NoDecision
  BY <1>1, <1>3, <1>4 DEF Tells, RelayTells
<1>6. /\ relay' \in [Sessions -> [state : RelayStates, decision : Decisions \cup {NoDecision}]]
      /\ relay'[s].state = "decided" /\ relay'[s].decision = d
      /\ \A t \in Sessions : t # s => relay'[t] = relay[t]
  BY <1>1, <1>3, <1>4 DEF Decide, DataTypes, RelayStates
<1>7. /\ pressed' \in [Sessions -> SUBSET Decisions]
      /\ d \in pressed'[s] /\ \A t \in Sessions : t # s => pressed'[t] = pressed[t]
  BY <1>1, <1>3, <1>4 DEF Decide, DataTypes
<1>8. /\ phone' \in [Sessions -> Decisions \cup {NoDecision}]
      /\ phone'[s] = NoDecision /\ \A t \in Sessions : t # s => phone'[t] = phone[t]
  BY <1>1 DEF Decide, DataTypes
<1>9. DataTypes'
  BY <1>1, <1>2, <1>6, <1>7, <1>8 DEF DataTypes
<1>10. RelayTells'
  <2>1. ASSUME NEW t \in Sessions
        PROVE  /\ relay'[t].state \in {"decided", "consumed"} => relay'[t].decision # NoDecision
               /\ relay'[t].decision # NoDecision =>
                     /\ relay'[t].decision \in pressed'[t] /\ phone'[t] = NoDecision
                     /\ relay'[t].state \in {"decided", "consumed", "revoked"}
               /\ phone'[t] # NoDecision => relay'[t].state \in {"pending", "revoked"}
    BY <1>1, <1>4, <1>6, <1>7, <1>8 DEF Tells, RelayTells
  <2>2. QED
    BY <2>1 DEF RelayTells
<1>11. ASSUME NEW u \in Subjects, NEW i \in DOMAIN approvals[u]
       PROVE  approvals[u][i].by \in Sessions \cup {Desk} /\ approvals[u][i].decision # NoDecision
  BY <1>1, <1>11, SessionFacts DEF MobileTypes, MobileTypeOK
\* No record is of this session: its decision is only now at the relay.
<1>12. \A u \in Subjects : \A i \in DOMAIN approvals[u] : approvals[u][i].by # s
  <2>1. ASSUME NEW u \in Subjects, NEW i \in DOMAIN approvals[u], approvals[u][i].by = s
        PROVE  FALSE
    <3>1. RecordTold(u, i)
      BY <1>1 DEF Tells, RecordsTell
    <3>2. approvals[u][i].decision = NoDecision
      BY <1>5, <2>1, <3>1, SessionFacts DEF RecordTold
    <3>3. QED
      BY <1>11, <3>2
  <2>2. QED
    BY <2>1
<1>13. ~(row[s].subject \in Subjects /\ HasRecord(s))
  BY <1>12 DEF HasRecord
<1>14. \A t \in Sessions : t # s => (HasRecord(t) <=> (HasRecord(t))')
  BY <1>2, <1>6 DEF HasRecord
<1>15. RowTells'
  <2>1. ASSUME NEW t \in Sessions
        PROVE  /\ row'[t].state # "none" =>
                     relay'[t].state # "none" /\ row'[t].subject \in Subjects
               /\ relay'[t].state = "consumed" => row'[t].state = "synchronized"
               /\ row'[t].state \in {"approved_remote", "rejected_remote", "synchronized"}
                     => (HasRecord(t))'
    BY <1>1, <1>2, <1>6, <1>13, <1>14 DEF Tells, RowTells
  <2>2. QED
    BY <2>1 DEF RowTells
<1>16. RecordsTell'
  <2>1. ASSUME NEW u \in Subjects, NEW i \in DOMAIN approvals[u]
        PROVE  RecordTold(u, i)'
    <3>1. RecordTold(u, i)
      BY <1>1, <2>1 DEF Tells, RecordsTell
    <3>2. QED
      BY <1>2, <1>6, <1>11, <1>12, <3>1 DEF RecordTold
  <2>2. QED
    BY <1>1, <1>2, <2>1 DEF Tells, RecordsTell, ByPhone
<1>17. ASSUME NEW p \in Processes
       PROVE  Knows(job[p])'
  <2>1. PICK j : j = job[p]
    OBVIOUS
  <2>2. j \in JobType /\ Knows(j)
    BY <1>1, <2>1 DEF MobileTypes, JobsKnow
  <2>3. ASSUME NEW item \in j.todo
        PROVE  item.session \in Sessions /\ item.session # s
               /\ relay'[item.session].decision = item.decision
    <3>1. item.session \in Sessions /\ item.decision \in Decisions
      BY <2>2, <2>3 DEF JobType, ItemType
    <3>2. relay[item.session].decision = item.decision
      BY <2>2, <2>3 DEF Knows
    <3>3. QED
      BY <1>5, <1>6, <3>1, <3>2, SessionFacts
  <2>4. j.todo # {} => First(j.todo) \in j.todo
    BY <2>2, FirstIsIn DEF JobType
  <2>5. PICK c : c = First(j.todo).session
    OBVIOUS
  <2>6. j.todo # {} => c \in Sessions /\ c # s
    BY <2>3, <2>4, <2>5
  <2>7. \A t \in Sessions : (relay'[t].state = "none") <=> (relay[t].state = "none")
    BY <1>5, <1>6
  <2>8. \A u : ByPhone(u)' = ByPhone(u)
    BY <1>2 DEF ByPhone
  <2>9. j.pc = "receive" => HasRecord(c) /\ j.todo # {}
    BY <2>2, <2>5 DEF Knows
  <2>10. Knows(j)'
    BY <1>2, <1>14, <2>2, <2>3, <2>5, <2>6, <2>7, <2>8, <2>9 DEF Knows
  <2>11. QED
    BY <1>2, <2>1, <2>10
<1>18. QED
  BY <1>2, <1>9, <1>10, <1>15, <1>16, <1>17, AroundKeeps DEF Tells

LEMMA DeskDecidesKeeps ==
    ASSUME MobileInv, NEW u \in Subjects, NEW d \in Decisions, DeskDecides(u, d)
    PROVE  MobileInv'
<1>1. MobileTypes /\ Tells /\ DataTypes /\ JobsKnow
  BY TypesApart DEF MobileInv, Tells
<1>2. PICK r : r = [by |-> Desk, decision |-> d]
  OBVIOUS
<1>3. r \in RecordType /\ r.by = Desk
  BY <1>2 DEF RecordType
<1>4. /\ approvals' = [approvals EXCEPT ![u] = Append(@, r)]
      /\ status' = [status EXCEPT ![u] = d]
      /\ UNCHANGED <<sound, row, relay, created, mailed, phone, pressed, late, job,
                     edits, crashes>>
  BY <1>2 DEF DeskDecides, remote, bounds
<1>5. /\ approvals' \in [Subjects -> Seq(RecordType)]
      /\ \A v \in Subjects : v # u => approvals'[v] = approvals[v]
      /\ \A v \in Subjects : \A i \in DOMAIN approvals[v] :
            i \in DOMAIN approvals'[v] /\ approvals'[v][i] = approvals[v][i]
  BY <1>1, <1>3, <1>4, RecordAdded
<1>6. PICK n : /\ n \notin DOMAIN approvals[u]
               /\ DOMAIN approvals'[u] = DOMAIN approvals[u] \cup {n} /\ approvals'[u][n] = r
  BY <1>1, <1>3, <1>4, RecordAdded
<1>7. /\ status' \in [Subjects -> {"awaiting_approval"} \cup Decisions]
      /\ status'[u] # "awaiting_approval"
      /\ \A v \in Subjects : v # u => status'[v] = status[v]
  BY <1>1, <1>4 DEF DataTypes, Decisions
<1>8. DataTypes'
  BY <1>1, <1>4, <1>5, <1>7 DEF DataTypes
<1>9. RelayTells'
  BY <1>1, <1>4 DEF Tells, RelayTells
<1>10. ASSUME NEW t \in Sessions, HasRecord(t), row[t].subject \in Subjects
       PROVE  (HasRecord(t))'
  BY <1>4, <1>5, <1>10 DEF HasRecord
<1>11. RowTells'
  BY <1>1, <1>4, <1>10 DEF Tells, RowTells
<1>12. ASSUME NEW v \in Subjects
       PROVE  ByPhone(v)' = ByPhone(v)
  <2>1. CASE v = u
    BY <1>3, <1>5, <1>6, <2>1 DEF ByPhone
  <2>2. CASE v # u
    BY <1>5, <2>2 DEF ByPhone
  <2>3. QED
    BY <2>1, <2>2
<1>13. ASSUME NEW v \in Subjects, NEW i \in DOMAIN approvals'[v]
       PROVE  RecordTold(v, i)'
  <2>1. CASE i \in DOMAIN approvals[v]
    <3>1. approvals'[v][i] = approvals[v][i] /\ RecordTold(v, i)
      BY <1>1, <1>5, <2>1 DEF Tells, RecordsTell
    <3>2. QED
      BY <1>4, <1>7, <3>1 DEF RecordTold
  <2>2. CASE i \notin DOMAIN approvals[v]
    <3>1. v = u /\ i = n
      BY <1>5, <1>6, <1>13, <2>2
    <3>2. QED
      BY <1>3, <1>6, <3>1 DEF RecordTold
  <2>3. QED
    BY <2>1, <2>2
<1>14. RecordsTell'
  BY <1>1, <1>12, <1>13 DEF Tells, RecordsTell
<1>15. ASSUME NEW p \in Processes
       PROVE  Knows(job[p])'
  <2>1. PICK j : j = job[p]
    OBVIOUS
  <2>2. j \in JobType /\ Knows(j)
    BY <1>1, <2>1 DEF MobileTypes, JobsKnow
  <2>3. PICK c : c = First(j.todo).session
    OBVIOUS
  <2>4. j.todo # {} => c \in Sessions
    BY <2>2, <2>3, FirstIsIn DEF JobType, ItemType
  <2>5. j.pc \in {"record", "receive"} => row[c].subject \in Subjects
    BY <1>1, <2>2, <2>3, <2>4 DEF Knows, Tells, RowTells, OpenStates
  <2>6. j.pc = "record" => ByPhone(row[c].subject)' = {}
    BY <1>4, <1>12, <2>2, <2>3, <2>5 DEF Knows
  <2>7. j.pc = "receive" => (HasRecord(c))'
    BY <1>10, <2>2, <2>3, <2>4, <2>5 DEF Knows
  <2>8. Knows(j)'
    BY <1>4, <2>2, <2>3, <2>6, <2>7 DEF Knows
  <2>9. QED
    BY <1>4, <2>1, <2>8
<1>16. QED
  BY <1>4, <1>8, <1>9, <1>11, <1>14, <1>15, AroundKeeps DEF Tells

----------------------------------------------------------------------------
(* The invariant and what follows from it.                                 *)

LEMMA MobileStart == MobileInit => MobileInv
<1> SUFFICES ASSUME MobileInit
             PROVE  MobileInv
  OBVIOUS
<1>1. /\ \A s \in Sessions : /\ row[s].state = "none" /\ row[s].subject = NoSubject
                             /\ relay[s].state = "none" /\ relay[s].decision = NoDecision
                             /\ phone[s] = NoDecision /\ pressed[s] = {}
      /\ \A u \in Subjects : approvals[u] = <<>>
      /\ \A p \in Processes : job[p] = Idle
  BY DEF MobileInit
<1>2. /\ job \in [Processes -> JobType]
      /\ \A p \in Processes : /\ job[p].pc \in Jobs
                              /\ job[p].pc \in {"sync", "record", "receive", "finish", "ack"}
                                    => job[p].todo # {}
      /\ JobsKnow
  <2>1. Idle.pc \in Jobs /\ Idle.pc \notin {"sync", "record", "receive", "finish", "ack"}
    BY DEF Idle, Jobs
  <2>2. QED
    BY <1>1, <2>1, IdleKnows DEF JobsKnow, MobileInit
<1>3. approvals \in [Subjects -> Seq(RecordType)] /\ created \in Seq(Sessions)
  BY DEF MobileInit
<1>4. /\ status \in [Subjects -> {"awaiting_approval"} \cup Decisions]
      /\ sound \in [Subjects -> BOOLEAN]
      /\ row \in [Sessions -> [state : RowStates, subject : Subjects \cup {NoSubject}]]
      /\ relay \in [Sessions -> [state : RelayStates, decision : Decisions \cup {NoDecision}]]
      /\ mailed \subseteq Sessions /\ late \subseteq Sessions
      /\ phone \in [Sessions -> Decisions \cup {NoDecision}]
      /\ pressed \in [Sessions -> SUBSET Decisions]
  BY DEF MobileInit, RowStates, RelayStates
<1>5. edits \in 0 .. MaxEdits /\ crashes \in 0 .. MaxCrashes
  BY SessionFacts DEF MobileInit
<1>6. /\ \A u \in Subjects : DOMAIN approvals[u] = {}
      /\ DOMAIN created = {}
  BY <1>1 DEF MobileInit
<1>7. MobileTypeOK
  BY <1>2, <1>4, <1>5, <1>6 DEF MobileTypeOK
<1>8. RelayTells
  BY <1>1 DEF RelayTells
<1>9. RowTells
  BY <1>1 DEF RowTells
<1>10. RecordsTell
  BY <1>6 DEF RecordsTell, ByPhone
<1>11. QED
  BY <1>2, <1>3, <1>7, <1>8, <1>9, <1>10 DEF MobileInv, MobileTypes

LEMMA MobileStays ==
    ASSUME MobileInv, UNCHANGED mobileVars
    PROVE  MobileInv'
<1>1. Tells /\ DataTypes
  BY TypesApart DEF MobileInv, Tells
<1>2. UNCHANGED <<status, sound, approvals, row, relay, created, mailed, phone, pressed, late,
                  job, edits, crashes>>
  BY DEF mobileVars, proposals, remote, bounds
<1>3. DataTypes'
  BY <1>1, <1>2 DEF DataTypes
<1>4. Tells' /\ \A j : (Knows(j))' <=> Knows(j)
  BY <1>1, <1>2, NothingTold
<1>5. \A p \in Processes : Knows(job[p])'
  BY <1>2, <1>4 DEF MobileInv, JobsKnow
<1>6. QED
  BY <1>2, <1>3, <1>4, <1>5, AroundKeeps

LEMMA MobileStep ==
    ASSUME OneProcess, MobileInv, [MobileNext]_mobileVars
    PROVE  MobileInv'
<1>1. ASSUME NEW p \in Processes, Begins(p)
      PROVE  MobileInv'
  <2>1. PICK s \in Sessions : \/ \E u \in Subjects : BeginIssue(p, s, u)
                              \/ Revoke(p, s) \/ Expire(p, s)
    BY <1>1 DEF Begins
  <2>2. QED
    BY <2>1, BeginIssueKeeps, RevokeKeeps, ExpireKeeps
<1>2. ASSUME NEW p \in Processes, GoesOn(p)
      PROVE  MobileInv'
  BY <1>2, CreateSessionKeeps, CreateFailsKeeps, StoreSessionKeeps, MailKeeps,
     StoreRevokedKeeps DEF GoesOn
<1>3. ASSUME NEW p \in Processes, Syncs(p)
      PROVE  MobileInv'
  BY <1>3, FetchKeeps, SkipKeeps, SyncClosesKeeps, CreateFailsKeeps, SyncAcceptsKeeps,
     RecordKeeps, ReceiveKeeps, AcknowledgeKeeps DEF Syncs
<1>4. ASSUME Around
      PROVE  MobileInv'
  BY <1>4, PressKeeps, DecideKeeps, PassesKeeps, EditKeeps, DeskDecidesKeeps DEF Around
<1>5. QED
  BY <1>1, <1>2, <1>3, <1>4, CrashKeeps, MobileStays DEF MobileNext

\* What the rows, the relay, the records and the processes know of another
\* stays true, whatever is revoked, lost, repeated, edited or decided.
THEOREM MobileInvariant ==
    ASSUME OneProcess
    PROVE  MobileSpec => []MobileInv
<1>1. MobileInit => MobileInv
  BY MobileStart
<1>2. MobileInv /\ [MobileNext]_mobileVars => MobileInv'
  BY MobileStep
<1>3. QED
  BY <1>1, <1>2, PTL DEF MobileSpec

LEMMA OnceByPhone ==
    ASSUME MobileInv
    PROVE  PhoneDecidesOnce
<1>1. ASSUME NEW u \in Subjects, NEW i \in ByPhone(u)
      PROVE  /\ approvals[u][i].decision \in pressed[approvals[u][i].by]
             /\ row[approvals[u][i].by].subject = u
  <2>1. i \in DOMAIN approvals[u] /\ approvals[u][i].by # Desk
    BY <1>1 DEF ByPhone
  <2>2. approvals[u][i].by \in Sessions /\ approvals[u][i].decision # NoDecision
    BY <2>1, SessionFacts DEF MobileInv, MobileTypes, MobileTypeOK
  <2>3. RecordTold(u, i)
    BY <2>1 DEF MobileInv, RecordsTell
  <2>4. QED
    BY <2>1, <2>2, <2>3 DEF RecordTold, MobileInv, RelayTells
<1>2. ASSUME NEW u \in Subjects
      PROVE  Cardinality(ByPhone(u)) <= 1
  <2>1. \A i, j \in ByPhone(u) : i = j
    BY DEF MobileInv, RecordsTell
  <2>2. CASE ByPhone(u) = {}
    BY <2>2, FS_EmptySet
  <2>3. CASE ByPhone(u) # {}
    <3>1. PICK i : ByPhone(u) = {i}
      BY <2>1, <2>3
    <3>2. QED
      BY <3>1, FS_Singleton
  <2>4. QED
    BY <2>2, <2>3
<1>3. QED
  BY <1>1, <1>2 DEF PhoneDecidesOnce, WasPressed

\* What sync() records in the name of a session was pressed in it, on the
\* proposal it was issued for, and at most once for a proposal, whatever is
\* revoked, issued again, listed again or repeated after a crash.
THEOREM PhoneDecidesOnceCorrect ==
    ASSUME OneProcess
    PROVE  MobileSpec => []PhoneDecidesOnce
<1>1. MobileInv => PhoneDecidesOnce
  BY OnceByPhone
<1>2. QED
  BY <1>1, MobileInvariant, PTL

LEMMA Settled ==
    ASSUME MobileInv
    PROVE  SettledIsRecorded
<1>1. ASSUME NEW s \in Sessions, row[s].state = "synchronized"
      PROVE  \E r \in RecordsOf(s) : approvals[r[1]][r[2]].decision = relay[s].decision
  <2>1. PICK u : u = row[s].subject
    OBVIOUS
  <2>2. u \in Subjects /\ HasRecord(s)
    BY <1>1, <2>1 DEF MobileInv, RowTells
  <2>3. PICK i \in DOMAIN approvals[u] :
            approvals[u][i].by = s /\ approvals[u][i].decision = relay[s].decision
    BY <2>1, <2>2 DEF HasRecord
  <2>4. <<u, i>> \in RecordsOf(s)
    BY <2>2, <2>3 DEF RecordsOf
  <2>5. WITNESS <<u, i>> \in RecordsOf(s)
  <2>6. QED
    BY <2>3
<1>2. QED
  BY <1>1 DEF SettledIsRecorded, MobileInv, RowTells

\* A session that the relay holds as consumed is synchronized here, and one
\* that is synchronized has its record, with the decision the relay holds.
THEOREM SettledIsRecordedCorrect ==
    ASSUME OneProcess
    PROVE  MobileSpec => []SettledIsRecorded
<1>1. MobileInv => SettledIsRecorded
  BY Settled
<1>2. QED
  BY <1>1, MobileInvariant, PTL

\* The records of a session stay when what is added is not its own.
LEMMA RecordsStay ==
    ASSUME MobileInv, NEW s \in Sessions, NEW u \in Subjects, NEW r \in RecordType, r.by # s,
           approvals' = [approvals EXCEPT ![u] = Append(@, r)]
    PROVE  RecordsOf(s)' = RecordsOf(s)
<1>1. DataTypes
  BY TypesApart DEF MobileInv
<1>2. /\ \A v \in Subjects : v # u => approvals'[v] = approvals[v]
      /\ \A v \in Subjects : \A i \in DOMAIN approvals[v] :
            i \in DOMAIN approvals'[v] /\ approvals'[v][i] = approvals[v][i]
  BY <1>1, RecordAdded
<1>3. PICK n : /\ n \notin DOMAIN approvals[u]
               /\ DOMAIN approvals'[u] = DOMAIN approvals[u] \cup {n} /\ approvals'[u][n] = r
  BY <1>1, RecordAdded
<1>4. ASSUME NEW v \in Subjects
      PROVE  {j \in DOMAIN approvals'[v] : approvals'[v][j].by = s}
                = {j \in DOMAIN approvals[v] : approvals[v][j].by = s}
  <2>1. CASE v = u
    BY <1>2, <1>3, <2>1
  <2>2. CASE v # u
    BY <1>2, <2>2
  <2>3. QED
    BY <2>1, <2>2
<1>5. QED
  BY <1>4 DEF RecordsOf

LEMMA ClosedStays ==
    ASSUME MobileInv, [MobileNext]_mobileVars, NEW s \in Sessions, row[s].state \in ClosedStates
    PROVE  RecordsOf(s)' = RecordsOf(s)
<1>1. CASE approvals' = approvals
  BY <1>1 DEF RecordsOf
<1>2. ASSUME NEW p \in Processes, Record(p)
      PROVE  RecordsOf(s)' = RecordsOf(s)
  <2>1. MobileTypes /\ JobsKnow /\ RowTells
    BY DEF MobileInv
  <2>2. job[p].pc = "record"
    BY <1>2 DEF Record
  <2>3. PICK t, u, d : t = Current(p).session /\ u = row[t].subject /\ d = Current(p).decision
    OBVIOUS
  <2>4. t \in Sessions /\ d \in Decisions /\ t = First(job[p].todo).session
    BY <2>1, <2>2, <2>3, Listing
  <2>5. row[t].state \in OpenStates
    BY <2>1, <2>2, <2>4 DEF JobsKnow, Knows
  <2>6. t # s /\ u \in Subjects
    BY <2>1, <2>3, <2>4, <2>5 DEF OpenStates, ClosedStates, RowTells
  <2>7. PICK r : r = [by |-> t, decision |-> d]
    OBVIOUS
  <2>8. r \in RecordType /\ r.by # s
    BY <2>4, <2>6, <2>7 DEF RecordType
  <2>9. approvals' = [approvals EXCEPT ![u] = Append(@, r)]
    BY <1>2, <2>3, <2>7 DEF Record
  <2>10. QED
    BY <2>6, <2>8, <2>9, RecordsStay
<1>3. ASSUME NEW u \in Subjects, NEW d \in Decisions, DeskDecides(u, d)
      PROVE  RecordsOf(s)' = RecordsOf(s)
  <2>1. PICK r : r = [by |-> Desk, decision |-> d]
    OBVIOUS
  <2>2. r \in RecordType /\ r.by # s
    BY <2>1, SessionFacts DEF RecordType
  <2>3. approvals' = [approvals EXCEPT ![u] = Append(@, r)]
    BY <1>3, <2>1 DEF DeskDecides
  <2>4. QED
    BY <2>2, <2>3, RecordsStay
<1>4. ASSUME NEW p \in Processes, Begins(p) \/ GoesOn(p) \/ Crash(p)
      PROVE  approvals' = approvals
  BY <1>4 DEF Begins, GoesOn, BeginIssue, Revoke, Expire, CreateSession, CreateFails,
     StoreSession, Mail, StoreRevoked, Crash, proposals
<1>5. ASSUME NEW p \in Processes, Syncs(p)
      PROVE  Record(p) \/ approvals' = approvals
  BY <1>5 DEF Syncs, Fetch, Skip, SyncExpires, SyncRaises, SyncStale, SyncAccepts, Receive,
     Finish, Acknowledge, proposals
<1>6. ASSUME Around
      PROVE  \/ approvals' = approvals
             \/ \E u \in Subjects, d \in Decisions : DeskDecides(u, d)
  BY <1>6 DEF Around, Press, Decide, Passes, Edit, proposals
<1>7. CASE UNCHANGED mobileVars
  BY <1>1, <1>7 DEF mobileVars, proposals
<1>8. QED
  BY <1>1, <1>2, <1>3, <1>4, <1>5, <1>6, <1>7 DEF MobileNext

\* A revoked, expired, stale or synchronized session records nothing any more.
THEOREM ClosedRecordsNothingCorrect ==
    ASSUME OneProcess
    PROVE  MobileSpec => ClosedRecordsNothing
<1>1. ASSUME MobileInv, [MobileNext]_mobileVars
      PROVE  [\A s \in Sessions : row[s].state \in ClosedStates
                                    => RecordsOf(s)' = RecordsOf(s)]_mobileVars
  BY <1>1, ClosedStays
<1>2. MobileSpec => [][MobileNext]_mobileVars
  BY DEF MobileSpec
<1>3. QED
  BY <1>1, <1>2, MobileInvariant, PTL DEF ClosedRecordsNothing

----------------------------------------------------------------------------
(* What holds also when local processes overlap: nothing a process does to *)
(* a row, a session or a record takes from another what it relies on for   *)
(* the truth of a record, as opposed to its being the only one.            *)

RowsNamed ==
    \A s \in Sessions : row[s].state # "none" =>
        relay[s].state # "none" /\ row[s].subject \in Subjects

\* A record by phone is of a session of its proposal and has its decision.
RecordFrom(u, i) ==
    LET r == approvals[u][i] IN
    r.by # Desk => /\ row[r.by].state # "none" /\ row[r.by].subject = u
                   /\ r.decision = relay[r.by].decision

RecordsFrom == \A u \in Subjects : \A i \in DOMAIN approvals[u] : RecordFrom(u, i)

Grounds == RelayTells /\ RowsNamed /\ RecordsFrom

Issuing == {"create", "store"}

\* What a process recalls that no other can change.
Recalls(j) ==
    LET c == First(j.todo).session IN
    /\ j.pc \in {"create", "store", "mail", "revoke"} => j.session \in Sessions
    /\ j.pc \in Issuing => j.subject \in Subjects /\ row[j.session].state = "none"
    /\ j.pc = "create" => relay[j.session].state = "none"
    /\ j.pc = "store" => relay[j.session].state # "none"
    /\ j.pc = "revoke" => row[j.session].state # "none"
    /\ j.pc \in {"sync", "record", "receive", "finish", "ack"} => j.todo # {}
    /\ \A item \in j.todo : relay[item.session].decision = item.decision
    /\ j.pc \in {"record", "receive", "finish"} => row[c].state # "none"

\* A random id is used once.
IssuesApart ==
    \A p, q \in Processes :
        p # q /\ job[p].pc \in Issuing /\ job[q].pc \in Issuing => job[p].session # job[q].session

JobsRecall == job \in [Processes -> JobType] /\ \A p \in Processes : Recalls(job[p])

OverlapInv == DataTypes /\ Grounds /\ JobsRecall /\ IssuesApart

\* A step leaves what others recall: ids that are not x are as new as they
\* were, a row keeps its proposal and the relay its decision.
Steady(x) ==
    \A s \in Sessions :
        /\ s # x => /\ (row'[s].state = "none") <=> (row[s].state = "none")
                    /\ (relay'[s].state = "none") <=> (relay[s].state = "none")
        /\ row[s].state # "none" =>
              row'[s].state # "none" /\ row'[s].subject = row[s].subject
        /\ relay[s].state # "none" => relay'[s].state # "none"
        /\ relay[s].decision # NoDecision => relay'[s].decision = relay[s].decision

LEMMA FirstOfItems ==
    ASSUME NEW j \in JobType, j.todo # {}
    PROVE  /\ First(j.todo) \in j.todo /\ First(j.todo).session \in Sessions
           /\ First(j.todo).decision \in Decisions
<1>1. j.todo \subseteq ItemType
  BY DEF JobType
<1>2. First(j.todo) \in j.todo
  BY <1>1, FirstIsIn
<1>3. QED
  BY <1>1, <1>2 DEF ItemType

LEMMA RecallsStays ==
    ASSUME NEW j \in JobType, Recalls(j), NEW x, Steady(x), j.pc \in Issuing => j.session # x
    PROVE  Recalls(j)'
<1>1. ASSUME NEW item \in j.todo
      PROVE  relay'[item.session].decision = item.decision
  <2>1. item.session \in Sessions /\ item.decision # NoDecision
    BY SessionFacts DEF JobType, ItemType
  <2>2. QED
    BY <2>1 DEF Recalls, Steady
<1>2. j.todo # {} => First(j.todo).session \in Sessions
  BY FirstOfItems
<1>3. PICK c : c = First(j.todo).session
  OBVIOUS
<1>4. j.pc \in {"record", "receive", "finish"} => row'[c].state # "none"
  BY <1>2, <1>3 DEF Recalls, Steady
<1>5. PICK s : s = j.session
  OBVIOUS
<1>6. j.pc \in {"create", "store", "mail", "revoke"} => s \in Sessions
  BY <1>5 DEF Recalls
<1>7. j.pc \in Issuing => row'[s].state = "none" /\ s \in Sessions
  BY <1>5, <1>6 DEF Recalls, Steady, Issuing
<1>8. j.pc = "create" => relay'[s].state = "none"
  BY <1>5, <1>6 DEF Recalls, Steady, Issuing
<1>9. j.pc = "store" => relay'[s].state # "none"
  BY <1>5, <1>6 DEF Recalls, Steady
<1>10. j.pc = "revoke" => row'[s].state # "none"
  BY <1>5, <1>6 DEF Recalls, Steady
<1>11. QED
  BY <1>1, <1>3, <1>4, <1>5, <1>6, <1>7, <1>8, <1>9, <1>10 DEF Recalls

\* The process moves to where it recalls what it needs, and issues no id that
\* another process holds.
JobRecalls(p) ==
    \E v : /\ JobMoves(p, v) /\ Recalls(v)'
           /\ v.pc \in Issuing =>
                 \/ job[p].pc \in Issuing /\ v.session = job[p].session
                 \/ \A q \in Processes : job[q].session # v.session

LEMMA NoIdIsNoSession ==
    ASSUME JobsRecall, NEW q \in Processes, job[q].pc \in Issuing
    PROVE  job[q].session # NoSession
BY SessionFacts DEF JobsRecall, Recalls, Issuing

LEMMA OverlapKeeps ==
    ASSUME OverlapInv, NEW p \in Processes, JobRecalls(p), DataTypes', Grounds',
           NEW x, Steady(x), x = NoSession \/ (job[p].pc \in Issuing /\ x = job[p].session)
    PROVE  OverlapInv'
<1>1. PICK v : /\ JobMoves(p, v) /\ Recalls(v)'
               /\ v.pc \in Issuing =>
                     \/ job[p].pc \in Issuing /\ v.session = job[p].session
                     \/ \A q \in Processes : job[q].session # v.session
  BY DEF JobRecalls
<1>2. v \in JobType /\ job' = [job EXCEPT ![p] = v]
  BY <1>1 DEF JobMoves
<1>3. /\ job' \in [Processes -> JobType] /\ job'[p] = v
      /\ \A q \in Processes : q # p => job'[q] = job[q]
  BY <1>2 DEF OverlapInv, JobsRecall
<1>4. ASSUME NEW q \in Processes, q # p
      PROVE  Recalls(job[q])'
  <2>1. PICK j : j = job[q]
    OBVIOUS
  <2>2. j \in JobType /\ Recalls(j)
    BY <2>1 DEF OverlapInv, JobsRecall
  <2>3. j.pc \in Issuing => j.session # x
    BY <1>4, <2>1, NoIdIsNoSession DEF OverlapInv, IssuesApart
  <2>4. Recalls(j)'
    BY <2>2, <2>3, RecallsStays
  <2>5. job'[q] = j
    BY <1>3, <1>4, <2>1
  <2>6. QED
    BY <2>4, <2>5
<1>5. Recalls(job[p])'
  BY <1>1, <1>3
<1>6. JobsRecall'
  BY <1>3, <1>4, <1>5 DEF JobsRecall
<1>7. IssuesApart'
  BY <1>1, <1>3 DEF IssuesApart, OverlapInv
<1>8. QED
  BY <1>6, <1>7 DEF OverlapInv

LEMMA AroundOverlapKeeps ==
    ASSUME OverlapInv, job' = job, DataTypes', Grounds', Steady(NoSession)
    PROVE  OverlapInv'
<1>1. ASSUME NEW q \in Processes
      PROVE  Recalls(job[q])'
  <2>1. PICK j : j = job[q]
    OBVIOUS
  <2>2. j \in JobType /\ Recalls(j)
    BY <2>1 DEF OverlapInv, JobsRecall
  <2>3. j.pc \in Issuing => j.session # NoSession
    BY <2>1, NoIdIsNoSession DEF OverlapInv
  <2>4. Recalls(j)'
    BY <2>2, <2>3, RecallsStays
  <2>5. QED
    BY <2>1, <2>4
<1>2. QED
  BY <1>1 DEF OverlapInv, JobsRecall, IssuesApart

----------------------------------------------------------------------------
(* What the steps of any process change.                                   *)

LEMMA RecordIsTyped ==
    ASSUME DataTypes, NEW u \in Subjects, NEW i \in DOMAIN approvals[u]
    PROVE  /\ approvals[u][i].by \in Sessions \cup {Desk}
           /\ approvals[u][i].decision \in Decisions
<1>1. approvals[u] \in Seq(RecordType)
  BY DEF DataTypes
<1>2. PICK q : q = approvals[u]
  OBVIOUS
<1>3. q[i] \in RecordType
  BY <1>1, <1>2, ElementsOfSeq
<1>4. QED
  BY <1>2, <1>3 DEF RecordType

LEMMA NothingMoves ==
    ASSUME Grounds, UNCHANGED <<approvals, row, relay, phone, pressed>>
    PROVE  Grounds' /\ Steady(NoSession)
BY DEF Grounds, RelayTells, RowsNamed, RecordsFrom, RecordFrom, Steady

LEMMA ARowMoves ==
    ASSUME DataTypes, Grounds, NEW s \in Sessions, NEW to \in RowStates \ {"none"}, Move(s, to),
           row[s].state # "none", UNCHANGED <<approvals, relay, phone, pressed>>
    PROVE  /\ row' \in [Sessions -> [state : RowStates, subject : Subjects \cup {NoSubject}]]
           /\ Grounds' /\ Steady(NoSession)
           /\ \A t \in Sessions : row[t].state # "none" => row'[t].state # "none"
<1>1. PICK w : w = [row[s] EXCEPT !.state = to]
  OBVIOUS
<1>2. row \in [Sessions -> [state : RowStates, subject : Subjects \cup {NoSubject}]]
  BY DEF DataTypes
<1>3. /\ w \in [state : RowStates, subject : Subjects \cup {NoSubject}]
      /\ w.state = to /\ w.subject = row[s].subject
  BY <1>1, <1>2
<1>4. row' = [row EXCEPT ![s] = w]
  BY <1>1 DEF Move
<1>5. /\ row' \in [Sessions -> [state : RowStates, subject : Subjects \cup {NoSubject}]]
      /\ \A t \in Sessions : /\ row'[t].subject = row[t].subject
                             /\ (row'[t].state = "none") <=> (row[t].state = "none")
  BY <1>2, <1>3, <1>4
<1>6. RelayTells' /\ RowsNamed'
  BY <1>5 DEF Grounds, RelayTells, RowsNamed
<1>7. RecordsFrom'
  <2>1. ASSUME NEW u \in Subjects, NEW i \in DOMAIN approvals[u]
        PROVE  RecordFrom(u, i)'
    <3>1. approvals[u][i].by \in Sessions \cup {Desk}
      BY RecordIsTyped
    <3>2. RecordFrom(u, i)
      BY DEF Grounds, RecordsFrom
    <3>3. QED
      BY <1>5, <3>1, <3>2 DEF RecordFrom
  <2>2. QED
    BY <2>1 DEF RecordsFrom
<1>8. QED
  BY <1>5, <1>6, <1>7 DEF Grounds, Steady

LEMMA ACallIsMade ==
    ASSUME DataTypes, Grounds, NEW s \in Sessions, NEW to \in {"consumed", "revoked"},
           Unreliably(s, to), UNCHANGED <<approvals, row, phone, pressed>>,
           to = "consumed" => relay[s].decision # NoDecision
    PROVE  /\ relay' \in [Sessions -> [state : RelayStates, decision : Decisions \cup {NoDecision}]]
           /\ Grounds' /\ Steady(NoSession)
           /\ \A t \in Sessions : relay'[t].decision = relay[t].decision
<1>1. relay \in [Sessions -> [state : RelayStates, decision : Decisions \cup {NoDecision}]]
  BY DEF DataTypes
<1>2. \/ UNCHANGED relay
      \/ relay[s].state # "none" /\ relay' = [relay EXCEPT ![s] = [relay[s] EXCEPT !.state = to]]
  BY DEF Unreliably
<1>3. PICK w : w = [relay[s] EXCEPT !.state = to]
  OBVIOUS
<1>4. /\ w \in [state : RelayStates, decision : Decisions \cup {NoDecision}]
      /\ w.state = to /\ w.decision = relay[s].decision
  BY <1>1, <1>3 DEF RelayStates
<1>5. /\ relay' \in [Sessions -> [state : RelayStates, decision : Decisions \cup {NoDecision}]]
      /\ \A t \in Sessions :
            /\ relay'[t].decision = relay[t].decision
            /\ \/ relay'[t].state = relay[t].state
               \/ t = s /\ relay[t].state # "none" /\ relay'[t].state = to
  BY <1>1, <1>2, <1>3, <1>4
<1>6. RelayTells'
  <2>1. ASSUME NEW t \in Sessions
        PROVE  /\ relay'[t].state \in {"decided", "consumed"} => relay'[t].decision # NoDecision
               /\ relay'[t].decision # NoDecision =>
                     /\ relay'[t].decision \in pressed[t] /\ phone[t] = NoDecision
                     /\ relay'[t].state \in {"decided", "consumed", "revoked"}
               /\ phone[t] # NoDecision => relay'[t].state \in {"pending", "revoked"}
    BY <1>5 DEF Grounds, RelayTells
  <2>2. QED
    BY <2>1 DEF RelayTells
<1>7. RowsNamed'
  BY <1>5 DEF Grounds, RowsNamed
<1>8. RecordsFrom'
  <2>1. ASSUME NEW u \in Subjects, NEW i \in DOMAIN approvals[u]
        PROVE  RecordFrom(u, i)'
    <3>1. approvals[u][i].by \in Sessions \cup {Desk}
      BY RecordIsTyped
    <3>2. RecordFrom(u, i)
      BY DEF Grounds, RecordsFrom
    <3>3. QED
      BY <1>5, <3>1, <3>2 DEF RecordFrom
  <2>2. QED
    BY <2>1 DEF RecordsFrom
<1>9. QED
  BY <1>5, <1>6, <1>7, <1>8 DEF Grounds, Steady

LEMMA ARecordIsMade ==
    ASSUME DataTypes, Grounds, NEW u \in Subjects, NEW r \in RecordType,
           approvals' = [approvals EXCEPT ![u] = Append(@, r)],
           UNCHANGED <<row, relay, phone, pressed>>,
           r.by # Desk => /\ row[r.by].state # "none" /\ row[r.by].subject = u
                          /\ r.decision = relay[r.by].decision
    PROVE  approvals' \in [Subjects -> Seq(RecordType)] /\ Grounds' /\ Steady(NoSession)
<1>1. /\ approvals' \in [Subjects -> Seq(RecordType)]
      /\ \A v \in Subjects : v # u => approvals'[v] = approvals[v]
      /\ \A v \in Subjects : \A i \in DOMAIN approvals[v] :
            i \in DOMAIN approvals'[v] /\ approvals'[v][i] = approvals[v][i]
  BY RecordAdded
<1>2. PICK n : /\ n \notin DOMAIN approvals[u]
               /\ DOMAIN approvals'[u] = DOMAIN approvals[u] \cup {n} /\ approvals'[u][n] = r
  BY RecordAdded
<1>3. ASSUME NEW v \in Subjects, NEW i \in DOMAIN approvals'[v]
      PROVE  RecordFrom(v, i)'
  <2>1. CASE i \in DOMAIN approvals[v]
    <3>1. approvals'[v][i] = approvals[v][i] /\ RecordFrom(v, i)
      BY <1>1, <2>1 DEF Grounds, RecordsFrom
    <3>2. QED
      BY <3>1 DEF RecordFrom
  <2>2. CASE i \notin DOMAIN approvals[v]
    <3>1. v = u /\ i = n
      BY <1>1, <1>2, <1>3, <2>2
    <3>2. QED
      BY <1>2, <3>1 DEF RecordFrom
  <2>3. QED
    BY <2>1, <2>2
<1>4. RecordsFrom'
  BY <1>3 DEF RecordsFrom
<1>5. RelayTells' /\ RowsNamed'
  BY DEF Grounds, RelayTells, RowsNamed
<1>6. QED
  BY <1>1, <1>4, <1>5 DEF Grounds, Steady

----------------------------------------------------------------------------
(* Each step, by any process.                                              *)

\* The process ends its work, and so recalls nothing.
LEMMA IdleRecalls ==
    ASSUME NEW p \in Processes, job' = [job EXCEPT ![p] = Idle]
    PROVE  JobRecalls(p)
<1>1. Idle \in JobType
  BY DEF Idle, JobType, Jobs
<1>2. Idle.pc = "idle" /\ Idle.todo = {}
  BY DEF Idle
<1>3. (Recalls(Idle))'
  BY <1>2 DEF Recalls, Issuing
<1>4. QED
  BY <1>1, <1>2, <1>3 DEF JobRecalls, JobMoves, Issuing

\* Or goes on with what it has, at a step that needs no more than the rows.
LEMMA NextRecalls ==
    ASSUME OverlapInv, NEW p \in Processes, NEW pc \in Jobs, job' = JobAt(p, pc),
           pc \in {"mail", "record", "receive", "finish", "ack"},
           pc = "mail" => job[p].session \in Sessions,
           pc # "mail" => /\ job[p].todo # {}
                          /\ row'[First(job[p].todo).session].state # "none",
           \A s \in Sessions : relay'[s].decision = relay[s].decision
    PROVE  JobRecalls(p)
<1>1. PICK j : j = job[p]
  OBVIOUS
<1>2. j \in JobType /\ Recalls(j)
  BY <1>1 DEF OverlapInv, JobsRecall
<1>3. PICK v : v = [j EXCEPT !.pc = pc]
  OBVIOUS
<1>4. v \in JobType /\ v.pc = pc /\ v.session = j.session /\ v.todo = j.todo
  BY <1>2, <1>3 DEF JobType
<1>5. job' = [job EXCEPT ![p] = v]
  BY <1>1, <1>3 DEF JobAt
<1>6. ASSUME NEW item \in v.todo
      PROVE  relay'[item.session].decision = item.decision
  <2>1. item.session \in Sessions
    BY <1>2, <1>4 DEF JobType, ItemType
  <2>2. QED
    BY <1>2, <1>4, <2>1 DEF Recalls
<1>7. Recalls(v)'
  BY <1>1, <1>4, <1>6 DEF Recalls, Issuing
<1>8. QED
  BY <1>4, <1>5, <1>7 DEF JobRecalls, JobMoves, Issuing

\* Or with what is left of its list.
LEMMA ProceedRecalls ==
    ASSUME OverlapInv, NEW p \in Processes, Proceed(p), job[p].pc \in {"sync", "ack"},
           \A s \in Sessions : relay'[s].decision = relay[s].decision
    PROVE  JobRecalls(p)
<1>1. CASE job[p].todo = {Current(p)}
  BY <1>1, IdleRecalls DEF Proceed
<1>2. CASE job[p].todo # {Current(p)}
  <2>1. PICK j : j = job[p]
    OBVIOUS
  <2>2. j \in JobType /\ Recalls(j)
    BY <2>1 DEF OverlapInv, JobsRecall
  <2>3. PICK rest : rest = j.todo \ {Current(p)}
    OBVIOUS
  <2>4. PICK v : v = [j EXCEPT !.pc = "sync", !.todo = rest]
    OBVIOUS
  <2>5. v \in JobType /\ v.pc = "sync" /\ v.todo = rest
    BY <2>2, <2>3, <2>4 DEF JobType, Jobs
  <2>6. job' = [job EXCEPT ![p] = v]
    <3>1. job' = [job EXCEPT ![p] = IF job[p].todo = {Current(p)} THEN Idle
                      ELSE [job[p] EXCEPT !.pc = "sync", !.todo = job[p].todo \ {Current(p)}]]
      BY ONLY Proceed(p) DEF Proceed
    <3>2. v = IF job[p].todo = {Current(p)} THEN Idle
              ELSE [job[p] EXCEPT !.pc = "sync", !.todo = job[p].todo \ {Current(p)}]
      BY ONLY <1>2, <2>1, <2>3, <2>4
    <3>3. QED
      BY ONLY <3>1, <3>2
  <2>7. rest # {} /\ rest \subseteq j.todo
    <3>1. j.todo # {}
      BY <2>1, <2>2 DEF Recalls
    <3>2. Current(p) \in j.todo
      BY <2>1, <2>2, <3>1, FirstOfItems, CurrentIs
    <3>3. QED
      BY <1>2, <2>1, <2>3, <3>2
  <2>8. ASSUME NEW item \in rest
        PROVE  relay'[item.session].decision = item.decision
    <3>1. item.session \in Sessions /\ item \in j.todo
      BY <2>2, <2>7 DEF JobType, ItemType
    <3>2. QED
      BY <2>2, <3>1 DEF Recalls
  <2>9. Recalls(v)'
    BY <2>5, <2>7, <2>8 DEF Recalls, Issuing
  <2>10. QED
    BY <2>5, <2>6, <2>9 DEF JobRecalls, JobMoves, Issuing
<1>3. QED
  BY <1>1, <1>2

\* The item a sync is at.
LEMMA CurrentRecalled ==
    ASSUME OverlapInv, NEW p \in Processes,
           job[p].pc \in {"sync", "record", "receive", "finish", "ack"}
    PROVE  /\ job[p].todo # {} /\ Current(p) = First(job[p].todo)
           /\ Current(p).session \in Sessions /\ Current(p).decision \in Decisions
           /\ relay[Current(p).session].decision = Current(p).decision
           /\ job[p].pc \in {"record", "receive", "finish"} =>
                 row[Current(p).session].state # "none"
<1>1. PICK j : j = job[p]
  OBVIOUS
<1>2. j \in JobType /\ Recalls(j) /\ j.todo # {}
  BY <1>1 DEF OverlapInv, JobsRecall, Recalls
<1>3. PICK c : c = First(j.todo)
  OBVIOUS
<1>4. c \in j.todo /\ c.session \in Sessions /\ c.decision \in Decisions
  BY <1>2, <1>3, FirstOfItems
<1>5. relay[c.session].decision = c.decision
  BY <1>2, <1>4 DEF Recalls
<1>6. j.pc \in {"record", "receive", "finish"} => row[c.session].state # "none"
  BY <1>2, <1>3 DEF Recalls
<1>7. Current(p) = c
  BY <1>1, <1>3, CurrentIs
<1>8. QED
  BY <1>1, <1>2, <1>3, <1>4, <1>5, <1>6, <1>7

LEMMA OverlapBeginIssue ==
    ASSUME OverlapInv, NEW p \in Processes, NEW s \in Sessions, NEW u \in Subjects,
           BeginIssue(p, s, u)
    PROVE  OverlapInv'
<1>1. UNCHANGED <<status, sound, approvals, row, relay, created, mailed, phone, pressed,
                  late, edits, crashes>>
  BY DEF BeginIssue, proposals, remote, bounds
<1>2. PICK v : v = [Idle EXCEPT !.pc = "create", !.session = s, !.subject = u]
  OBVIOUS
<1>3. v \in JobType /\ v.pc = "create" /\ v.session = s /\ v.subject = u /\ v.todo = {}
  BY <1>2 DEF Idle, JobType, Jobs
<1>4. row[s].state = "none" /\ relay[s].state = "none" /\ \A q \in Processes : job[q].session # s
  BY DEF BeginIssue, Fresh
<1>5. Recalls(v)'
  BY <1>1, <1>3, <1>4 DEF Recalls
<1>6. JobRecalls(p)
  <2>1. JobMoves(p, v)
    BY <1>2, <1>3 DEF BeginIssue, JobMoves
  <2>2. QED
    BY <1>3, <1>4, <1>5, <2>1 DEF JobRecalls
<1>7. DataTypes' /\ Grounds' /\ Steady(NoSession)
  BY <1>1, NothingMoves DEF OverlapInv, DataTypes
<1>8. QED
  BY <1>6, <1>7, OverlapKeeps

LEMMA OverlapEnds ==
    ASSUME OverlapInv, NEW p \in Processes,
           CreateFails(p) \/ SyncRaises(p) \/ Mail(p) \/ Crash(p)
    PROVE  OverlapInv'
<1>1. job' = [job EXCEPT ![p] = Idle] /\ UNCHANGED <<approvals, row, relay, phone, pressed>>
  BY DEF CreateFails, SyncRaises, Mail, Crash, proposals, remote
<1>2. Mail(p) => job[p].session \in Sessions
  BY DEF Mail, OverlapInv, JobsRecall, Recalls
<1>3. mailed' \subseteq Sessions /\ crashes' \in 0 .. MaxCrashes
  BY <1>2, SessionFacts DEF CreateFails, SyncRaises, Mail, Crash, OverlapInv, DataTypes, remote, bounds
<1>4. UNCHANGED <<status, sound, created, late, edits>>
  BY DEF CreateFails, SyncRaises, Mail, Crash, proposals, remote, bounds
<1>5. DataTypes'
  BY <1>1, <1>3, <1>4 DEF OverlapInv, DataTypes
<1>6. Grounds' /\ Steady(NoSession)
  BY <1>1, NothingMoves DEF OverlapInv
<1>7. QED
  BY <1>1, <1>5, <1>6, IdleRecalls, OverlapKeeps

LEMMA OverlapCreateSession ==
    ASSUME OverlapInv, NEW p \in Processes, CreateSession(p)
    PROVE  OverlapInv'
<1>1. PICK j, s : j = job[p] /\ s = j.session
  OBVIOUS
<1>2. j \in JobType /\ Recalls(j) /\ j.pc = "create"
  BY <1>1 DEF CreateSession, OverlapInv, JobsRecall
<1>3. s \in Sessions /\ j.subject \in Subjects /\ row[s].state = "none" /\ relay[s].state = "none"
  BY <1>1, <1>2 DEF Recalls, Issuing
<1>4. UNCHANGED <<status, sound, approvals, row, mailed, phone, pressed, late, edits, crashes>>
  BY DEF CreateSession, proposals, bounds
<1>5. relay' = [relay EXCEPT ![s] = [relay[s] EXCEPT !.state = "pending"]]
  BY <1>1 DEF CreateSession
<1>6. PICK w : w = [relay[s] EXCEPT !.state = "pending"]
  OBVIOUS
<1>7. relay \in [Sessions -> [state : RelayStates, decision : Decisions \cup {NoDecision}]]
  BY DEF OverlapInv, DataTypes
<1>8. /\ w \in [state : RelayStates, decision : Decisions \cup {NoDecision}]
      /\ w.state = "pending" /\ w.decision = relay[s].decision
  BY <1>3, <1>6, <1>7 DEF RelayStates
<1>9. /\ relay' \in [Sessions -> [state : RelayStates, decision : Decisions \cup {NoDecision}]]
      /\ \A t \in Sessions : /\ relay'[t].decision = relay[t].decision
                             /\ relay'[t].state = IF t = s THEN "pending" ELSE relay[t].state
  BY <1>3, <1>5, <1>6, <1>7, <1>8
<1>10. relay[s].decision = NoDecision /\ phone[s] = NoDecision
  BY <1>3 DEF OverlapInv, Grounds, RelayTells
<1>11. created' \in Seq(Sessions)
  BY <1>1, <1>3 DEF CreateSession, OverlapInv, DataTypes
<1>12. DataTypes'
  BY <1>4, <1>9, <1>11 DEF OverlapInv, DataTypes
<1>13. RelayTells'
  <2>1. ASSUME NEW t \in Sessions
        PROVE  /\ relay'[t].state \in {"decided", "consumed"} => relay'[t].decision # NoDecision
               /\ relay'[t].decision # NoDecision =>
                     /\ relay'[t].decision \in pressed'[t] /\ phone'[t] = NoDecision
                     /\ relay'[t].state \in {"decided", "consumed", "revoked"}
               /\ phone'[t] # NoDecision => relay'[t].state \in {"pending", "revoked"}
    BY <1>4, <1>9, <1>10 DEF OverlapInv, Grounds, RelayTells
  <2>2. QED
    BY <2>1 DEF RelayTells
<1>14. RowsNamed'
  BY <1>4, <1>9 DEF OverlapInv, Grounds, RowsNamed
<1>15. RecordsFrom'
  <2>1. ASSUME NEW u \in Subjects, NEW i \in DOMAIN approvals[u]
        PROVE  RecordFrom(u, i)'
    <3>1. approvals[u][i].by \in Sessions \cup {Desk}
      BY RecordIsTyped DEF OverlapInv
    <3>2. RecordFrom(u, i)
      BY DEF OverlapInv, Grounds, RecordsFrom
    <3>3. QED
      BY <1>4, <1>9, <3>1, <3>2 DEF RecordFrom
  <2>2. QED
    BY <1>4, <2>1 DEF RecordsFrom
<1>16. Steady(s)
  BY <1>4, <1>9 DEF Steady
<1>17. JobRecalls(p)
  <2>1. CASE job' = [job EXCEPT ![p] = Idle]
    BY <2>1, IdleRecalls
  <2>2. CASE job' = JobAt(p, "store")
    <3>1. PICK v : v = [j EXCEPT !.pc = "store"]
      OBVIOUS
    <3>2. /\ v \in JobType /\ v.pc = "store" /\ v.session = s /\ v.subject = j.subject
          /\ v.todo = j.todo
      BY <1>1, <1>2, <3>1 DEF JobType, Jobs
    <3>3. job' = [job EXCEPT ![p] = v]
      BY <1>1, <2>2, <3>1 DEF JobAt
    <3>4. ASSUME NEW item \in v.todo
          PROVE  relay'[item.session].decision = item.decision
      <4>1. item.session \in Sessions
        BY <1>2, <3>2 DEF JobType, ItemType
      <4>2. QED
        BY <1>2, <1>9, <3>2, <4>1 DEF Recalls
    <3>5. row'[s].state = "none" /\ relay'[s].state # "none"
      BY <1>3, <1>4, <1>9
    <3>6. Recalls(v)'
      BY <1>3, <3>2, <3>4, <3>5 DEF Recalls, Issuing
    <3>7. QED
      BY <1>1, <1>2, <3>2, <3>3, <3>6 DEF JobRecalls, JobMoves, Issuing
  <2>3. QED
    BY <2>1, <2>2 DEF CreateSession
<1>18. job[p].pc \in Issuing /\ s = job[p].session
  BY <1>1, <1>2 DEF Issuing
<1>19. QED
  BY <1>12, <1>13, <1>14, <1>15, <1>16, <1>17, <1>18, OverlapKeeps DEF Grounds

LEMMA OverlapStoreSession ==
    ASSUME OverlapInv, NEW p \in Processes, StoreSession(p)
    PROVE  OverlapInv'
<1>1. PICK j, s, u : j = job[p] /\ s = j.session /\ u = j.subject
  OBVIOUS
<1>2. j \in JobType /\ Recalls(j) /\ j.pc = "store"
  BY <1>1 DEF StoreSession, OverlapInv, JobsRecall
<1>3. s \in Sessions /\ u \in Subjects /\ row[s].state = "none" /\ relay[s].state # "none"
  BY <1>1, <1>2 DEF Recalls, Issuing
<1>4. UNCHANGED <<status, sound, approvals, relay, created, mailed, phone, pressed, late,
                  edits, crashes>>
  BY DEF StoreSession, proposals, remote, bounds
<1>5. row' = [row EXCEPT ![s] = [state |-> "pending", subject |-> u]]
  BY <1>1 DEF StoreSession
<1>6. /\ row' \in [Sessions -> [state : RowStates, subject : Subjects \cup {NoSubject}]]
      /\ row'[s].state = "pending" /\ row'[s].subject = u
      /\ \A t \in Sessions : t # s => row'[t] = row[t]
  BY <1>3, <1>5 DEF OverlapInv, DataTypes, RowStates
<1>7. DataTypes'
  BY <1>4, <1>6 DEF OverlapInv, DataTypes
<1>8. RelayTells'
  BY <1>4 DEF OverlapInv, Grounds, RelayTells
<1>9. RowsNamed'
  BY <1>3, <1>4, <1>6 DEF OverlapInv, Grounds, RowsNamed
<1>10. RecordsFrom'
  <2>1. ASSUME NEW v \in Subjects, NEW i \in DOMAIN approvals[v]
        PROVE  RecordFrom(v, i)'
    <3>1. approvals[v][i].by \in Sessions \cup {Desk}
      BY RecordIsTyped DEF OverlapInv
    <3>2. RecordFrom(v, i)
      BY DEF OverlapInv, Grounds, RecordsFrom
    <3>3. QED
      BY <1>3, <1>4, <1>6, <3>1, <3>2 DEF RecordFrom
  <2>2. QED
    BY <1>4, <2>1 DEF RecordsFrom
<1>11. Steady(s)
  BY <1>3, <1>4, <1>6 DEF Steady
<1>12. JobRecalls(p)
  BY <1>1, <1>3, <1>4, NextRecalls DEF StoreSession, Jobs
<1>13. job[p].pc \in Issuing /\ s = job[p].session
  BY <1>1, <1>2 DEF Issuing
<1>14. QED
  BY <1>7, <1>8, <1>9, <1>10, <1>11, <1>12, <1>13, OverlapKeeps DEF Grounds

LEMMA OverlapRevoke ==
    ASSUME OverlapInv, NEW p \in Processes, NEW s \in Sessions, Revoke(p, s)
    PROVE  OverlapInv'
<1>1. /\ row[s].state = "pending" /\ Unreliably(s, "revoked")
      /\ UNCHANGED <<status, sound, approvals, row, created, mailed, phone, pressed, late,
                     edits, crashes>>
  BY DEF Revoke, proposals, bounds
<1>2. /\ relay' \in [Sessions -> [state : RelayStates, decision : Decisions \cup {NoDecision}]]
      /\ Grounds' /\ Steady(NoSession)
  BY <1>1, ACallIsMade DEF OverlapInv
<1>3. DataTypes'
  BY <1>1, <1>2 DEF OverlapInv, DataTypes
<1>4. PICK v : v = [Idle EXCEPT !.pc = "revoke", !.session = s]
  OBVIOUS
<1>5. v \in JobType /\ v.pc = "revoke" /\ v.session = s /\ v.todo = {}
  BY <1>4 DEF Idle, JobType, Jobs
<1>6. Recalls(v)'
  BY <1>1, <1>5 DEF Recalls, Issuing
<1>7. JobMoves(p, v)
  BY <1>4, <1>5 DEF Revoke, JobMoves
<1>8. JobRecalls(p)
  BY <1>5, <1>6, <1>7 DEF JobRecalls, Issuing
<1>9. QED
  BY <1>2, <1>3, <1>8, OverlapKeeps

\* The steps that move a row that is there.
LEMMA OverlapMoves ==
    ASSUME OverlapInv, NEW p \in Processes, NEW s \in Sessions, NEW to \in RowStates \ {"none"},
           Move(s, to), row[s].state # "none", UNCHANGED <<proposals, remote, late, bounds>>,
           JobRecalls(p) \/ job' = job
    PROVE  OverlapInv'
<1>1. UNCHANGED <<status, sound, approvals, relay, created, mailed, phone, pressed, late,
                  edits, crashes>>
  BY DEF proposals, remote, bounds
<1>2. /\ row' \in [Sessions -> [state : RowStates, subject : Subjects \cup {NoSubject}]]
      /\ Grounds' /\ Steady(NoSession)
  BY <1>1, ARowMoves DEF OverlapInv
<1>3. DataTypes'
  BY <1>1, <1>2 DEF OverlapInv, DataTypes
<1>4. QED
  BY <1>2, <1>3, OverlapKeeps, AroundOverlapKeeps

LEMMA StatesOfRows ==
    /\ {"expired", "revoked", "stale", "synchronized"} \subseteq RowStates \ {"none"}
    /\ {"approved_remote", "rejected_remote"} \subseteq RowStates \ {"none"}
    /\ "none" \notin OpenStates
BY DEF RowStates, ClosedStates, OpenStates

LEMMA OverlapStoreRevoked ==
    ASSUME OverlapInv, NEW p \in Processes, StoreRevoked(p)
    PROVE  OverlapInv'
<1>1. job[p].session \in Sessions /\ row[job[p].session].state # "none"
  BY DEF StoreRevoked, OverlapInv, JobsRecall, Recalls
<1>2. JobRecalls(p)
  BY IdleRecalls DEF StoreRevoked
<1>3. QED
  BY <1>1, <1>2, OverlapMoves, StatesOfRows DEF StoreRevoked

LEMMA OverlapExpire ==
    ASSUME OverlapInv, NEW p \in Processes, NEW s \in Sessions, Expire(p, s)
    PROVE  OverlapInv'
BY OverlapMoves, StatesOfRows DEF Expire

LEMMA OverlapSyncCloses ==
    ASSUME OverlapInv, NEW p \in Processes, SyncExpires(p) \/ SyncStale(p)
    PROVE  OverlapInv'
<1>1. PICK s : s = Current(p).session
  OBVIOUS
<1>2. /\ job[p].pc = "sync" /\ row[s].state \in OpenStates
      /\ Proceed(p) /\ UNCHANGED <<proposals, remote, late, bounds>>
      /\ Move(s, "expired") \/ Move(s, "stale")
  BY <1>1 DEF SyncExpires, SyncStale, Taken
<1>3. s \in Sessions /\ row[s].state # "none"
  BY <1>1, <1>2, CurrentRecalled, StatesOfRows
<1>4. relay' = relay
  BY <1>2 DEF remote
<1>5. JobRecalls(p)
  BY <1>2, <1>4, ProceedRecalls
<1>6. QED
  BY <1>2, <1>3, <1>5, OverlapMoves, StatesOfRows

LEMMA OverlapReceive ==
    ASSUME OverlapInv, NEW p \in Processes, Receive(p) \/ Finish(p)
    PROVE  OverlapInv'
<1>1. PICK s : s = Current(p).session
  OBVIOUS
<1>2. PICK to, pc : /\ Move(s, to) /\ job' = JobAt(p, pc)
                    /\ pc \in {"finish", "ack"}
                    /\ to \in {"approved_remote", "rejected_remote", "synchronized"}
  BY <1>1 DEF Receive, Finish
<1>3. job[p].pc \in {"receive", "finish"} /\ UNCHANGED <<proposals, remote, late, bounds>>
  BY DEF Receive, Finish
<1>4. /\ s \in Sessions /\ row[s].state # "none" /\ job[p].todo # {}
      /\ s = First(job[p].todo).session
  BY <1>1, <1>3, CurrentRecalled
<1>5. UNCHANGED <<approvals, relay, phone, pressed>>
  BY <1>3 DEF proposals, remote
<1>6. to \in RowStates \ {"none"}
  BY <1>2, StatesOfRows
<1>7. row'[s].state # "none"
  BY <1>2, <1>4, <1>5, <1>6, ARowMoves DEF OverlapInv
<1>8. JobRecalls(p)
  BY <1>2, <1>4, <1>5, <1>7, NextRecalls DEF Jobs
<1>9. QED
  BY <1>2, <1>3, <1>4, <1>6, <1>8, OverlapMoves

LEMMA OverlapFetch ==
    ASSUME OverlapInv, NEW p \in Processes, Fetch(p)
    PROVE  OverlapInv'
<1>1. UNCHANGED <<status, sound, approvals, row, relay, created, mailed, phone, pressed,
                  late, edits, crashes>>
  BY DEF Fetch, proposals, remote, bounds
<1>2. DataTypes' /\ Grounds' /\ Steady(NoSession)
  BY <1>1, NothingMoves DEF OverlapInv, DataTypes
<1>3. /\ Listed \subseteq ItemType
      /\ \A item \in Listed : relay[item.session].decision = item.decision
  BY ListedIsItems DEF OverlapInv, Grounds
<1>4. PICK v : v = [Idle EXCEPT !.pc = "sync", !.todo = Listed, !.late = late]
  OBVIOUS
<1>5. v \in JobType /\ v.pc = "sync" /\ v.todo = Listed
  BY <1>3, <1>4 DEF Idle, JobType, Jobs, OverlapInv, DataTypes
<1>6. v.todo # {} /\ \A item \in v.todo : relay'[item.session].decision = item.decision
  BY <1>1, <1>3, <1>5 DEF Fetch
<1>7. Recalls(v)'
  BY <1>5, <1>6 DEF Recalls, Issuing
<1>8. JobMoves(p, v)
  BY <1>4, <1>5 DEF Fetch, JobMoves
<1>9. JobRecalls(p)
  BY <1>5, <1>7, <1>8 DEF JobRecalls, Issuing
<1>10. QED
  BY <1>2, <1>9, OverlapKeeps

LEMMA OverlapSkip ==
    ASSUME OverlapInv, NEW p \in Processes, Skip(p) \/ SyncAccepts(p)
    PROVE  OverlapInv'
<1>1. UNCHANGED <<status, sound, approvals, row, relay, created, mailed, phone, pressed,
                  late, edits, crashes>>
  BY DEF Skip, SyncAccepts, proposals, remote, bounds
<1>2. DataTypes' /\ Grounds' /\ Steady(NoSession)
  BY <1>1, NothingMoves DEF OverlapInv, DataTypes
<1>3. job[p].pc = "sync"
  BY DEF Skip, SyncAccepts, Taken
<1>4. CASE Skip(p)
  <2>1. JobRecalls(p)
    BY <1>1, <1>3, <1>4, ProceedRecalls DEF Skip
  <2>2. QED
    BY <1>2, <2>1, OverlapKeeps
<1>5. CASE SyncAccepts(p)
  <2>1. job[p].todo # {} /\ row'[First(job[p].todo).session].state # "none"
    BY <1>1, <1>3, <1>5, CurrentRecalled, StatesOfRows DEF SyncAccepts, Taken
  <2>2. JobRecalls(p)
    BY <1>1, <1>5, <2>1, NextRecalls DEF SyncAccepts, Jobs
  <2>3. QED
    BY <1>2, <2>2, OverlapKeeps
<1>6. QED
  BY <1>4, <1>5

LEMMA OverlapRecord ==
    ASSUME OverlapInv, NEW p \in Processes, Record(p)
    PROVE  OverlapInv'
<1>1. PICK s, u, d : s = Current(p).session /\ u = row[s].subject /\ d = Current(p).decision
  OBVIOUS
<1>2. /\ s \in Sessions /\ d \in Decisions /\ relay[s].decision = d
      /\ row[s].state # "none" /\ job[p].todo # {} /\ s = First(job[p].todo).session
  BY <1>1, CurrentRecalled DEF Record
<1>3. u \in Subjects
  BY <1>1, <1>2 DEF OverlapInv, Grounds, RowsNamed
<1>4. PICK r : r = [by |-> s, decision |-> d]
  OBVIOUS
<1>5. r \in RecordType /\ r.by = s /\ r.decision = d
  BY <1>2, <1>4 DEF RecordType
<1>6. /\ approvals' = [approvals EXCEPT ![u] = Append(@, r)]
      /\ status' = [status EXCEPT ![u] = d] /\ job' = JobAt(p, "receive")
      /\ UNCHANGED <<sound, row, relay, created, mailed, phone, pressed, late, edits, crashes>>
  BY <1>1, <1>4 DEF Record, remote, bounds
<1>7. approvals' \in [Subjects -> Seq(RecordType)] /\ Grounds' /\ Steady(NoSession)
  BY <1>1, <1>2, <1>3, <1>5, <1>6, ARecordIsMade DEF OverlapInv
<1>8. DataTypes'
  BY <1>2, <1>6, <1>7 DEF OverlapInv, DataTypes
<1>9. JobRecalls(p)
  BY <1>2, <1>6, NextRecalls DEF Jobs
<1>10. QED
  BY <1>7, <1>8, <1>9, OverlapKeeps

LEMMA OverlapAcknowledge ==
    ASSUME OverlapInv, NEW p \in Processes, Acknowledge(p)
    PROVE  OverlapInv'
<1>1. PICK s : s = Current(p).session
  OBVIOUS
<1>2. /\ job[p].pc = "ack" /\ Unreliably(s, "consumed") /\ Proceed(p)
      /\ UNCHANGED <<status, sound, approvals, row, created, mailed, phone, pressed, late,
                     edits, crashes>>
  BY <1>1 DEF Acknowledge, proposals, bounds
<1>3. s \in Sessions /\ relay[s].decision # NoDecision
  BY <1>1, <1>2, CurrentRecalled, SessionFacts
<1>4. /\ relay' \in [Sessions -> [state : RelayStates, decision : Decisions \cup {NoDecision}]]
      /\ Grounds' /\ Steady(NoSession)
      /\ \A t \in Sessions : relay'[t].decision = relay[t].decision
  BY <1>2, <1>3, ACallIsMade DEF OverlapInv
<1>5. DataTypes'
  BY <1>2, <1>4 DEF OverlapInv, DataTypes
<1>6. JobRecalls(p)
  BY <1>2, <1>4, ProceedRecalls
<1>7. QED
  BY <1>4, <1>5, <1>6, OverlapKeeps

LEMMA OverlapDeskDecides ==
    ASSUME OverlapInv, NEW u \in Subjects, NEW d \in Decisions, DeskDecides(u, d)
    PROVE  OverlapInv'
<1>1. PICK r : r = [by |-> Desk, decision |-> d]
  OBVIOUS
<1>2. r \in RecordType /\ r.by = Desk
  BY <1>1 DEF RecordType
<1>3. /\ approvals' = [approvals EXCEPT ![u] = Append(@, r)]
      /\ status' = [status EXCEPT ![u] = d]
      /\ UNCHANGED <<sound, row, relay, created, mailed, phone, pressed, late, job,
                     edits, crashes>>
  BY <1>1 DEF DeskDecides, remote, bounds
<1>4. approvals' \in [Subjects -> Seq(RecordType)] /\ Grounds' /\ Steady(NoSession)
  BY <1>2, <1>3, ARecordIsMade DEF OverlapInv
<1>5. DataTypes'
  BY <1>3, <1>4 DEF OverlapInv, DataTypes
<1>6. QED
  BY <1>3, <1>4, <1>5, AroundOverlapKeeps

LEMMA OverlapTime ==
    ASSUME OverlapInv, \/ UNCHANGED mobileVars
                       \/ \E u \in Subjects : Edit(u)
                       \/ \E s \in Sessions : Passes(s)
    PROVE  OverlapInv'
<1>1. /\ UNCHANGED <<status, approvals, row, relay, created, mailed, phone, pressed, job, crashes>>
      /\ sound' \in [Subjects -> BOOLEAN] /\ edits' \in 0 .. MaxEdits /\ late' \subseteq Sessions
  <2>1. DataTypes
    BY DEF OverlapInv
  <2>2. CASE UNCHANGED mobileVars
    BY <2>1, <2>2 DEF mobileVars, proposals, remote, bounds, DataTypes
  <2>3. CASE \E u \in Subjects : Edit(u)
    BY <2>1, <2>3, SessionFacts DEF Edit, remote, DataTypes
  <2>4. CASE \E s \in Sessions : Passes(s)
    BY <2>1, <2>4 DEF Passes, proposals, remote, bounds, DataTypes
  <2>5. QED
    BY <2>2, <2>3, <2>4
<1>2. DataTypes' /\ Grounds' /\ Steady(NoSession)
  BY <1>1, NothingMoves DEF OverlapInv, DataTypes
<1>3. QED
  BY <1>1, <1>2, AroundOverlapKeeps

LEMMA OverlapPress ==
    ASSUME OverlapInv, NEW s \in Sessions, NEW d \in Decisions, Press(s, d)
    PROVE  OverlapInv'
<1>1. UNCHANGED <<status, sound, approvals, row, relay, created, mailed, pressed, late, job,
                  edits, crashes>>
  BY DEF Press, proposals, bounds
<1>2. /\ phone' \in [Sessions -> Decisions \cup {NoDecision}]
      /\ phone'[s] = d /\ \A t \in Sessions : t # s => phone'[t] = phone[t]
  BY DEF Press, OverlapInv, DataTypes
<1>3. DataTypes'
  BY <1>1, <1>2 DEF OverlapInv, DataTypes
<1>4. relay[s].state = "pending" /\ relay[s].decision = NoDecision
  BY DEF Press, OverlapInv, Grounds, RelayTells
<1>5. RelayTells'
  <2>1. ASSUME NEW t \in Sessions
        PROVE  /\ relay'[t].state \in {"decided", "consumed"} => relay'[t].decision # NoDecision
               /\ relay'[t].decision # NoDecision =>
                     /\ relay'[t].decision \in pressed'[t] /\ phone'[t] = NoDecision
                     /\ relay'[t].state \in {"decided", "consumed", "revoked"}
               /\ phone'[t] # NoDecision => relay'[t].state \in {"pending", "revoked"}
    BY <1>1, <1>2, <1>4 DEF OverlapInv, Grounds, RelayTells
  <2>2. QED
    BY <2>1 DEF RelayTells
<1>6. RowsNamed' /\ RecordsFrom' /\ Steady(NoSession)
  BY <1>1 DEF OverlapInv, Grounds, RowsNamed, RecordsFrom, RecordFrom, Steady
<1>7. QED
  BY <1>1, <1>3, <1>5, <1>6, AroundOverlapKeeps DEF Grounds

LEMMA OverlapDecide ==
    ASSUME OverlapInv, NEW s \in Sessions, Decide(s)
    PROVE  OverlapInv'
<1>1. UNCHANGED <<status, sound, approvals, row, created, mailed, late, job, edits, crashes>>
  BY DEF Decide, proposals, bounds
<1>2. PICK d : d = phone[s]
  OBVIOUS
<1>3. d \in Decisions /\ d # NoDecision
  BY <1>2 DEF Decide, OverlapInv, DataTypes
<1>4. relay[s].state \in {"pending", "revoked"} /\ relay[s].decision = NoDecision
  BY <1>2, <1>3 DEF OverlapInv, Grounds, RelayTells
<1>5. /\ relay' \in [Sessions -> [state : RelayStates, decision : Decisions \cup {NoDecision}]]
      /\ relay'[s].state = "decided" /\ relay'[s].decision = d
      /\ \A t \in Sessions : t # s => relay'[t] = relay[t]
  BY <1>2, <1>3 DEF Decide, OverlapInv, DataTypes, RelayStates
<1>6. /\ pressed' \in [Sessions -> SUBSET Decisions]
      /\ d \in pressed'[s] /\ \A t \in Sessions : t # s => pressed'[t] = pressed[t]
  BY <1>2, <1>3 DEF Decide, OverlapInv, DataTypes
<1>7. /\ phone' \in [Sessions -> Decisions \cup {NoDecision}]
      /\ phone'[s] = NoDecision /\ \A t \in Sessions : t # s => phone'[t] = phone[t]
  BY DEF Decide, OverlapInv, DataTypes
<1>8. DataTypes'
  BY <1>1, <1>5, <1>6, <1>7 DEF OverlapInv, DataTypes
<1>9. RelayTells'
  <2>1. ASSUME NEW t \in Sessions
        PROVE  /\ relay'[t].state \in {"decided", "consumed"} => relay'[t].decision # NoDecision
               /\ relay'[t].decision # NoDecision =>
                     /\ relay'[t].decision \in pressed'[t] /\ phone'[t] = NoDecision
                     /\ relay'[t].state \in {"decided", "consumed", "revoked"}
               /\ phone'[t] # NoDecision => relay'[t].state \in {"pending", "revoked"}
    BY <1>3, <1>5, <1>6, <1>7 DEF OverlapInv, Grounds, RelayTells
  <2>2. QED
    BY <2>1 DEF RelayTells
<1>10. RowsNamed'
  BY <1>1, <1>5 DEF OverlapInv, Grounds, RowsNamed
<1>11. RecordsFrom'
  <2>1. ASSUME NEW u \in Subjects, NEW i \in DOMAIN approvals[u]
        PROVE  RecordFrom(u, i)'
    <3>1. RecordFrom(u, i)
      BY DEF OverlapInv, Grounds, RecordsFrom
    <3>2. approvals[u][i].by \in Sessions \cup {Desk} /\ approvals[u][i].decision # NoDecision
      BY RecordIsTyped, SessionFacts DEF OverlapInv
    <3>3. approvals[u][i].by # s
      BY <1>4, <3>1, <3>2, SessionFacts DEF RecordFrom
    <3>4. QED
      BY <1>1, <1>5, <3>1, <3>2, <3>3 DEF RecordFrom
  <2>2. QED
    BY <1>1, <2>1 DEF RecordsFrom
<1>12. Steady(NoSession)
  BY <1>1, <1>4, <1>5 DEF Steady
<1>13. QED
  BY <1>1, <1>8, <1>9, <1>10, <1>11, <1>12, AroundOverlapKeeps DEF Grounds

LEMMA OverlapStep ==
    ASSUME OverlapInv, [MobileNext]_mobileVars
    PROVE  OverlapInv'
<1>1. ASSUME NEW p \in Processes, Begins(p)
      PROVE  OverlapInv'
  <2>1. PICK s \in Sessions : \/ \E u \in Subjects : BeginIssue(p, s, u)
                              \/ Revoke(p, s) \/ Expire(p, s)
    BY <1>1 DEF Begins
  <2>2. QED
    BY <2>1, OverlapBeginIssue, OverlapRevoke, OverlapExpire
<1>2. ASSUME NEW p \in Processes, GoesOn(p)
      PROVE  OverlapInv'
  BY <1>2, OverlapCreateSession, OverlapEnds, OverlapStoreSession, OverlapStoreRevoked DEF GoesOn
<1>3. ASSUME NEW p \in Processes, Syncs(p)
      PROVE  OverlapInv'
  BY <1>3, OverlapFetch, OverlapSkip, OverlapSyncCloses, OverlapEnds, OverlapRecord,
     OverlapReceive, OverlapAcknowledge DEF Syncs
<1>4. ASSUME Around
      PROVE  OverlapInv'
  BY <1>4, OverlapPress, OverlapDecide, OverlapTime, OverlapDeskDecides DEF Around
<1>5. QED
  BY <1>1, <1>2, <1>3, <1>4, OverlapEnds, OverlapTime DEF MobileNext

LEMMA OverlapStart == MobileInit => OverlapInv
<1> SUFFICES ASSUME MobileInit
             PROVE  OverlapInv
  OBVIOUS
<1>1. MobileInv
  BY MobileStart
<1>2. DataTypes /\ RelayTells /\ RowsNamed /\ job \in [Processes -> JobType]
  BY <1>1, TypesApart DEF MobileInv, RowTells, RowsNamed
<1>3. \A u \in Subjects : DOMAIN approvals[u] = {}
  BY DEF MobileInit
<1>4. \A p \in Processes : job[p].pc = "idle" /\ job[p].todo = {}
  BY DEF MobileInit, Idle
<1>5. JobsRecall /\ IssuesApart
  BY <1>2, <1>4 DEF JobsRecall, Recalls, IssuesApart, Issuing
<1>6. QED
  BY <1>2, <1>3, <1>5 DEF OverlapInv, Grounds, RecordsFrom

\* Also when local processes overlap, a row names a proposal and a session of
\* the relay, a record has the decision of its session, and a process finds
\* again what it recalls.
THEOREM OverlapInvariant == MobileSpec => []OverlapInv
<1>1. OverlapInv /\ [MobileNext]_mobileVars => OverlapInv'
  BY OverlapStep
<1>2. QED
  BY <1>1, OverlapStart, PTL DEF MobileSpec

\* The session rows, the relay, the records and the processes keep their types.
THEOREM MobileTypeCorrect == MobileSpec => []MobileTypeOK
<1>1. ASSUME OverlapInv
      PROVE  MobileTypeOK
  <2>1. \A u \in Subjects : \A i \in DOMAIN approvals[u] :
            approvals[u][i] \in [by : Sessions \cup {Desk}, decision : Decisions]
    <3>1. ASSUME NEW u \in Subjects
          PROVE  \A i \in DOMAIN approvals[u] : approvals[u][i] \in RecordType
      <4>1. approvals[u] \in Seq(RecordType)
        BY <1>1 DEF OverlapInv, DataTypes
      <4>2. QED
        BY ONLY <4>1, ElementsOfSeq
    <3>2. QED
      BY <3>1 DEF RecordType
  <2>2. \A i \in DOMAIN created : created[i] \in Sessions
    <3>1. created \in Seq(Sessions)
      BY <1>1 DEF OverlapInv, DataTypes
    <3>2. QED
      BY ONLY <3>1, ElementsOfSeq
  <2>3. \A p \in Processes :
            /\ job[p].pc \in Jobs
            /\ job[p].pc \in {"sync", "record", "receive", "finish", "ack"} => job[p].todo # {}
    BY <1>1 DEF OverlapInv, JobsRecall, JobType, Recalls
  <2>4. QED
    BY <1>1, <2>1, <2>2, <2>3 DEF OverlapInv, DataTypes, MobileTypeOK
<1>2. QED
  BY <1>1, OverlapInvariant, PTL

\* What is recorded in the name of a session was pressed in it, on the
\* proposal it was issued for, also when syncs, revocations and issues overlap.
THEOREM WasPressedCorrect == MobileSpec => []WasPressed
<1>1. ASSUME OverlapInv
      PROVE  WasPressed
  <2>1. ASSUME NEW u \in Subjects, NEW i \in ByPhone(u)
        PROVE  /\ approvals[u][i].decision \in pressed[approvals[u][i].by]
               /\ row[approvals[u][i].by].subject = u
    <3>1. i \in DOMAIN approvals[u] /\ approvals[u][i].by # Desk
      BY <2>1 DEF ByPhone
    <3>2. approvals[u][i].by \in Sessions /\ approvals[u][i].decision # NoDecision
      BY <1>1, <3>1, RecordIsTyped, SessionFacts DEF OverlapInv
    <3>3. RecordFrom(u, i)
      BY <1>1, <3>1 DEF OverlapInv, Grounds, RecordsFrom
    <3>4. QED
      BY <1>1, <3>1, <3>2, <3>3 DEF RecordFrom, OverlapInv, Grounds, RelayTells
  <2>2. QED
    BY <2>1 DEF WasPressed
<1>2. QED
  BY <1>1, OverlapInvariant, PTL
=============================================================================
