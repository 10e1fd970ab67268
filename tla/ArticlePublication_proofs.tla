----------------------- MODULE ArticlePublication_proofs -----------------------
(***************************************************************************)
(* Proofs about an article on its way to its public page, for any sessions *)
(* and texts and any number of runs, posts and edits.  The inductive       *)
(* invariant says what each kind of execution relies on as long as no two  *)
(* of that kind met: a draft execution works on an article without a post, *)
(* a publication execution on the only run that can change.                *)
(***************************************************************************)
EXTENDS ArticlePublication, TLAPS

USE NoneAssumption, ArticleBoundsAssumption

DraftPCs == Executing.draft
PubPCs == Executing.publication
PCs == {"idle", "draftInsert", "pubInsert"} \cup DraftPCs \cup PubPCs
Session ==
    [pc : PCs, run : Nat, body : Texts, name : Names \cup {None}, raw : Texts,
     seen : RunStatuses \cup {"cancelled"}, post : PostIds \cup {0}]
Requests == [kind : {"draft"}, run : DraftIds] \cup [kind : {"publication"}, run : PubIds]

DraftRequests == {r \in wire : r.kind = "draft"}
PubRequests == {r \in wire : r.kind = "publication"}
Exists(i) == i \in PostIds /\ posts[i].status # "none"
Existing == {i \in PostIds : posts[i].status # "none"}
Public(i) == posts[i].status = "publish"

\* Every value has its type, and a session that holds a run's or a post's id
\* holds one there can be.
TypeInv ==
    /\ ArticleTypeOK
    /\ proc \in [Sessions -> Session]
    /\ wire \subseteq Requests
    /\ \A s \in Sessions :
         /\ proc[s].pc \in DraftPCs => proc[s].run \in DraftIds
         /\ proc[s].pc \in PubPCs => proc[s].run \in PubIds
         /\ proc[s].pc = "pubInsert" => proc[s].run \in DraftIds

\* What a session names exists.
NamesExist(s) ==
    /\ proc[s].pc \in PubPCs => pubs[proc[s].run].status # "none"
    /\ proc[s].pc = "draftSave" => Exists(proc[s].post)
    /\ proc[s].pc = "pubInsert" => Exists(proc[s].post) /\ Exists(article.post)
    /\ proc[s].pc = "pubFinish" => Public(pubs[proc[s].run].post)

\* What a row or a session names exists, and nothing is public, and nothing is
\* prepared for publication, before the article has its post.
RowsExist ==
    /\ \A s \in Sessions : NamesExist(s)
    /\ \A r \in PubRequests : pubs[r.run].status # "none"
    /\ \A p \in PubIds : pubs[p].status # "none" => Exists(pubs[p].post) /\ Exists(article.post)
    /\ \A i \in PostIds : Public(i) => Exists(article.post)
    /\ article.live => Exists(article.post)
    /\ article.post # 0 => Exists(article.post)

\* Draft executions that never met: one at a time, on an article without a
\* post, and none between its lookup and its POST while a lost POST may still
\* land.
DraftsAlone ==
    /\ \A s, t \in Sessions : proc[s].pc \in DraftPCs /\ proc[t].pc \in DraftPCs => s = t
    /\ \A s \in Sessions :
         /\ proc[s].pc \in DraftPCs => article.post = 0
         /\ proc[s].pc \in DraftPCs \ {"draftFail"} => DraftRequests = {}
    /\ \A q, r \in DraftRequests : q = r
    /\ \A p \in PubIds : pubs[p].status # "none" => pubs[p].post = article.post
    /\ \A s \in Sessions : proc[s].pc = "pubInsert" => proc[s].post = article.post
    /\ article.live => Public(article.post)

\* No post has the slug this run would give its own.
NoPostOf(d) == \A i \in Existing : SlugOf[posts[i].name] # SlugOf[drafts[d].name]

\* What keeps the slugs of the posts apart as long as draft executions never
\* met: a run's slug is free from the lookup until its POST made the post, and
\* as long as a lost POST may still make it.
SlugsApart ==
    /\ \A s \in Sessions :
         /\ proc[s].pc \in DraftPCs => drafts[proc[s].run].status # "none"
         /\ proc[s].pc \in {"draftMark", "draftPost"} => NoPostOf(proc[s].run)
    /\ \A r \in DraftRequests : drafts[r.run].status # "none" /\ NoPostOf(r.run)
    /\ \A i, j \in Existing : i # j => SlugOf[posts[i].name] # SlugOf[posts[j].name]

Reached(p) == pubs[p].status \in {"running", "failed", "succeeded"}

\* Publication executions and cancellations that never met: the run of each is
\* in the status its next step takes for granted.
PubsAlone ==
    /\ \A s, t \in Sessions : proc[s].pc \in PubPCs /\ proc[t].pc \in PubPCs => s = t
    /\ \A s \in Sessions :
         /\ proc[s].pc \in {"pubPreflight", "pubMark", "cancelWrite"} =>
               pubs[proc[s].run].status = "prepared"
         /\ proc[s].pc \in {"pubPost", "pubReadback", "pubFinish", "pubFail"} =>
               pubs[proc[s].run].status = "running"
    /\ \A r \in PubRequests : Reached(r.run)
    /\ \A i \in PostIds : Public(i) => \E p \in PubIds : pubs[p].post = i /\ Reached(p)

Finished ==
    article.live => \E p \in PubIds : pubs[p].status = "succeeded" /\ pubs[p].post = article.post

\* What the tables, the sessions and WordPress have to do with each other.
Related ==
    /\ RowsExist
    /\ "draft" \notin overlapped => DraftsAlone
    /\ "publication" \notin overlapped => PubsAlone
    /\ "draft" \notin overlapped /\ "publication" \notin overlapped => Finished

Slugs == "draft" \notin overlapped => SlugsApart

ArticleInv == TypeInv /\ Related /\ Slugs

----------------------------------------------------------------------------
(* Types.                                                                  *)

LEMMA Bounds ==
    /\ MaxGens \in Nat /\ MaxDrafts \in Nat /\ MaxPubs \in Nat /\ MaxPosts \in Nat
    /\ DraftIds \subseteq Nat /\ PubIds \subseteq Nat /\ 0 \notin PostIds
<1>1. /\ MaxGens \in Nat /\ MaxDrafts \in Nat /\ MaxPubs \in Nat /\ MaxPosts \in Nat
  BY Zenon
<1>2. QED
  BY <1>1 DEF DraftIds, PubIds, PostIds

LEMMA PCFacts ==
    /\ DraftPCs = {"draftPreflight", "draftMark", "draftPost", "draftSave", "draftFail"}
    /\ PubPCs = {"pubPreflight", "pubMark", "pubPost", "pubReadback", "pubFinish",
                 "pubFail", "cancelWrite"}
    /\ Idle \in Session /\ Idle.pc = "idle"
BY DEF DraftPCs, PubPCs, PCs, Executing, Idle, Session, Texts, RunStatuses

\* A step of one session leaves the others where they are.
LEMMA SessionStep ==
    ASSUME TypeInv, NEW s \in Sessions, NEW v \in Session,
           proc' = [proc EXCEPT ![s] = v],
           v.pc \in DraftPCs => v.run \in DraftIds,
           v.pc \in PubPCs => v.run \in PubIds,
           v.pc = "pubInsert" => v.run \in DraftIds
    PROVE  /\ (proc \in [Sessions -> Session])'
           /\ (\A t \in Sessions :
                 /\ proc[t].pc \in DraftPCs => proc[t].run \in DraftIds
                 /\ proc[t].pc \in PubPCs => proc[t].run \in PubIds
                 /\ proc[t].pc = "pubInsert" => proc[t].run \in DraftIds)'
           /\ (\A t \in Sessions : proc[t].pc # "idle" => proc[t] # Idle)'
<1>1. /\ (proc[s])' = v
      /\ \A t \in Sessions : t # s => (proc[t])' = proc[t]
      /\ proc' \in [Sessions -> Session]
  BY DEF TypeInv
<1>2. \A t \in Sessions : (proc[t])' = v \/ (proc[t])' = proc[t]
  BY <1>1
<1>3. \A t \in Sessions : (proc[t].pc # "idle" => proc[t] # Idle)'
  BY PCFacts
<1>4. QED
  BY <1>1, <1>2, <1>3 DEF TypeInv

\* What the row tables of the article and the texts keep.
LEMMA WritingTypes ==
    ASSUME TypeInv, Writing \/ Approve
    PROVE  TypeInv'
<1>1. ASSUME NEW g \in 1 .. MaxGens, PrepareGen(g) \/ ExecuteGen(g) \/ SubmitResult(g)
      PROVE  TypeInv'
  <2>1. gens' \in [1 .. MaxGens -> RunStatuses]
    BY <1>1, SMTT(30) DEF PrepareGen, ExecuteGen, SubmitResult, TypeInv, ArticleTypeOK, RunStatuses
  <2>2. article' \in Articles
    BY <1>1 DEF PrepareGen, ExecuteGen, SubmitResult, TypeInv, ArticleTypeOK, Articles,
                Transitions
  <2>3. UNCHANGED <<promo, revs, drafts, pubs, posts, wire, proc>>
    BY <1>1 DEF PrepareGen, ExecuteGen, SubmitResult, world
  <2>4. QED
    BY <2>1, <2>2, <2>3 DEF TypeInv, ArticleTypeOK
<1>2. ASSUME NEW b \in Bodies, Promote(b)
      PROVE  TypeInv'
  BY <1>2 DEF Promote, TypeInv, ArticleTypeOK, Articles, Texts, Transitions, world
<1>3. ASSUME NEW b \in Bodies, Revise(b)
      PROVE  TypeInv'
  <2>1. revs \in Seq(Bodies) /\ IsInjective(revs) /\ b \notin ToSet(revs)
    BY <1>3 DEF Revise, TypeInv, ArticleTypeOK
  <2>2. /\ revs' \in Seq(Bodies) /\ DOMAIN revs' = 1 .. Len(revs) + 1
        /\ \A i \in 1 .. Len(revs) : revs'[i] = revs[i]
        /\ revs'[Len(revs) + 1] = b
        /\ DOMAIN revs = 1 .. Len(revs) /\ Len(revs) \in Nat
    BY <1>3, <2>1 DEF Revise
  <2>3. \A i \in 1 .. Len(revs) : revs[i] # b
    BY <2>1, <2>2 DEF ToSet
  <2>4. \A i, j \in DOMAIN revs' : revs'[i] = revs'[j] => i = j
    BY <2>1, <2>2, <2>3 DEF IsInjective
  <2>5. IsInjective(revs')
    BY <2>4 DEF IsInjective
  <2>6. QED
    BY <1>3, <2>2, <2>5 DEF Revise, TypeInv, ArticleTypeOK, Articles, Texts, Transitions, world
<1>4. ASSUME NEW to \in DOMAIN Transitions, ChangeStatus(to)
      PROVE  TypeInv'
  BY <1>4 DEF ChangeStatus, TypeInv, ArticleTypeOK, Articles, Transitions, world, runs
<1>5. ASSUME NEW b \in Texts, NEW n \in Names, Patch(b, n)
      PROVE  TypeInv'
  BY <1>5 DEF Patch, TypeInv, ArticleTypeOK, Articles, runs
<1>6. CASE Approve
  BY <1>6 DEF Approve, TypeInv, ArticleTypeOK, Articles, Transitions, world, runs
<1>7. QED
  BY <1>1, <1>2, <1>3, <1>4, <1>5, <1>6 DEF Writing

LEMMA CreatedPosts ==
    ASSUME TypeInv, NEW d \in DraftIds, NEW after \in Created(d)
    PROVE  \E j \in PostIds :
             /\ posts[j].status = "none"
             /\ after = [posts EXCEPT ![j] = [status |-> "draft", raw |-> drafts[d].body,
                                             name |-> drafts[d].name]]
             /\ (CHOOSE i \in PostIds : after[i] # posts[i]) = j
             /\ after \in [PostIds -> PostRows]
<1>1. PICK j \in PostIds :
        /\ posts[j].status = "none"
        /\ after = [posts EXCEPT ![j] = [status |-> "draft", raw |-> drafts[d].body,
                                        name |-> drafts[d].name]]
  BY DEF Created, Unused
<1>2. /\ posts \in [PostIds -> PostRows]
      /\ drafts[d].body \in Texts /\ drafts[d].name \in Names \cup {None}
  BY DEF TypeInv, ArticleTypeOK, DraftRows
<1>3. after[j].status = "draft" /\ \A i \in PostIds : i # j => after[i] = posts[i]
  BY <1>1, <1>2
<1>4. (CHOOSE i \in PostIds : after[i] # posts[i]) = j
  BY <1>1, <1>3
<1>5. after \in [PostIds -> PostRows]
  BY <1>1, <1>2 DEF PostRows
<1>6. QED
  BY <1>1, <1>4, <1>5

LEMMA DraftStatus ==
    ASSUME TypeInv, NEW d \in DraftIds, NEW st \in RunStatuses,
           drafts' = [drafts EXCEPT ![d].status = st]
    PROVE  drafts' \in [DraftIds -> DraftRows]
<1>1. drafts \in [DraftIds -> DraftRows]
  BY DEF TypeInv, ArticleTypeOK
<1>2. QED
  BY <1>1 DEF DraftRows

LEMMA DraftingTypes ==
    ASSUME TypeInv, NEW s \in Sessions, Drafting(s)
    PROVE  TypeInv'
<1>1. CASE PrepareDraft(s)
  <2>1. proc' = [proc EXCEPT ![s] = [Idle EXCEPT !.pc = "draftInsert", !.body = article.body,
                                                  !.name = article.name]]
    BY <1>1 DEF PrepareDraft, TypeInv
  <2>2. [Idle EXCEPT !.pc = "draftInsert", !.body = article.body, !.name = article.name]
          \in Session
    BY DEF TypeInv, ArticleTypeOK, Articles, Idle, Session, PCs, Texts, RunStatuses
  <2>3. QED
    BY <1>1, <2>1, <2>2, SessionStep, PCFacts
    DEF PrepareDraft, TypeInv, ArticleTypeOK, runs, world, Idle
<1>2. CASE InsertDraft(s)
  <2>1. drafts' \in [DraftIds -> DraftRows]
    BY <1>2 DEF InsertDraft, TypeInv, ArticleTypeOK, DraftRows, RunStatuses, Session
  <2>2. QED
    BY <1>2, <2>1, SessionStep, PCFacts DEF InsertDraft, Ends, TypeInv, ArticleTypeOK, world
<1>3. ASSUME NEW d \in DraftIds, BeginDraft(s, d)
      PROVE  TypeInv'
  <2>1. [Idle EXCEPT !.pc = "draftPreflight", !.run = d] \in Session
    BY Bounds DEF Idle, Session, PCs, DraftPCs, Executing, Texts, RunStatuses
  <2>2. QED
    BY <1>3, <2>1, SessionStep, PCFacts DEF BeginDraft, TypeInv, ArticleTypeOK, runs, world, Idle
<1>4. CASE PreflightDraft(s)
  <2>1. proc[s].run \in DraftIds /\ proc[s] \in Session
    BY <1>4, PCFacts DEF PreflightDraft, TypeInv
  <2>2. [proc[s] EXCEPT !.pc = "draftMark"] \in Session
    BY <2>1, PCFacts DEF Session, PCs
  <2>3. PICK v \in Session :
          /\ proc' = [proc EXCEPT ![s] = v]
          /\ v = Idle \/ v = [proc[s] EXCEPT !.pc = "draftMark"]
    BY <1>4, <2>2, PCFacts DEF PreflightDraft, Goto, Ends
  <2>4. v.pc \in {"idle", "draftMark"} /\ (v.pc = "draftMark" => v.run \in DraftIds)
    BY <2>1, <2>3, PCFacts DEF Session
  <2>5. QED
    BY <1>4, <2>3, <2>4, SessionStep, PCFacts DEF PreflightDraft, TypeInv, ArticleTypeOK, runs, world
<1>5. CASE MarkDraft(s)
  <2>1. proc[s].run \in DraftIds /\ proc[s] \in Session
    BY <1>5, PCFacts DEF MarkDraft, TypeInv
  <2>2. drafts' \in [DraftIds -> DraftRows]
    BY <1>5, <2>1, DraftStatus DEF MarkDraft, RunStatuses
  <2>3. [proc[s] EXCEPT !.pc = "draftPost"] \in Session
    BY <2>1, PCFacts DEF Session, PCs
  <2>4. proc' = [proc EXCEPT ![s] = [proc[s] EXCEPT !.pc = "draftPost"]]
    BY <1>5 DEF MarkDraft, Goto
  <2>5. QED
    BY <1>5, <2>1, <2>2, <2>3, <2>4, SessionStep, PCFacts
    DEF MarkDraft, TypeInv, ArticleTypeOK, world, Session
<1>6. CASE PostDraft(s)
  <2> DEFINE d == proc[s].run
             after(pc, i) == [proc[s] EXCEPT !.pc = pc, !.seen = drafts[d].status, !.post = i]
  <2>1. d \in DraftIds /\ proc[s] \in Session /\ drafts[d].status \in RunStatuses
    BY <1>6, PCFacts DEF PostDraft, TypeInv, ArticleTypeOK, DraftRows
  <2>2. \A i \in PostIds \cup {0} : \A pc \in {"draftSave", "draftFail"} :
          after(pc, i) \in Session /\ after(pc, i).pc = pc /\ after(pc, i).run = d
    BY <2>1, PCFacts DEF Session, PCs
  <2>3. /\ \E i \in PostIds \cup {0}, pc \in {"draftSave", "draftFail"} :
              proc' = [proc EXCEPT ![s] = after(pc, i)]
        /\ posts' \in [PostIds -> PostRows]
        /\ wire' \subseteq Requests
    <3>1. CASE \E new \in Created(d) :
                 /\ posts' = new /\ UNCHANGED wire
                 /\ \/ proc' = [proc EXCEPT ![s].pc = "draftSave", ![s].seen = drafts[d].status,
                               ![s].post = CHOOSE i \in PostIds : new[i] # posts[i]]
                    \/ proc' = [proc EXCEPT ![s].pc = "draftFail", ![s].seen = drafts[d].status,
                               ![s].post = 0]
      <4>1. PICK new \in Created(d) :
                 /\ posts' = new /\ UNCHANGED wire
                 /\ \/ proc' = [proc EXCEPT ![s].pc = "draftSave", ![s].seen = drafts[d].status,
                               ![s].post = CHOOSE i \in PostIds : new[i] # posts[i]]
                    \/ proc' = [proc EXCEPT ![s].pc = "draftFail", ![s].seen = drafts[d].status,
                               ![s].post = 0]
        BY <3>1
      <4>2. /\ (CHOOSE i \in PostIds : new[i] # posts[i]) \in PostIds
            /\ new \in [PostIds -> PostRows]
        BY <2>1, CreatedPosts
      <4> HIDE DEF d
      <4>3. \E i \in PostIds \cup {0}, pc \in {"draftSave", "draftFail"} :
              proc' = [proc EXCEPT ![s] = after(pc, i)]
        <5>1. CASE proc' = [proc EXCEPT ![s].pc = "draftFail", ![s].seen = drafts[d].status,
                                        ![s].post = 0]
          BY <5>1
        <5>2. CASE proc' = [proc EXCEPT ![s].pc = "draftSave", ![s].seen = drafts[d].status,
                               ![s].post = CHOOSE i \in PostIds : new[i] # posts[i]]
          <6>1. PICK i \in PostIds : i = CHOOSE j \in PostIds : new[j] # posts[j]
            BY <4>2
          <6>2. proc' = [proc EXCEPT ![s].pc = "draftSave", ![s].seen = drafts[d].status,
                                     ![s].post = i]
            BY <5>2, <6>1
          <6>3. proc' = [proc EXCEPT ![s] = after("draftSave", i)]
            BY <6>2
          <6>4. QED
            BY <6>3
        <5>3. QED
          BY <4>1, <5>1, <5>2
      <4>4. QED
        BY <4>1, <4>2, <4>3 DEF TypeInv
    <3>2. CASE /\ wire' \in {wire, wire \cup {[kind |-> "draft", run |-> d]}}
               /\ proc' = [proc EXCEPT ![s].pc = "draftFail", ![s].seen = drafts[d].status,
                               ![s].post = 0]
               /\ UNCHANGED posts
      <4>1. [kind |-> "draft", run |-> d] \in Requests
        BY <2>1 DEF Requests
      <4>2. wire' \subseteq Requests
        BY <3>2, <4>1 DEF TypeInv
      <4>3. proc' = [proc EXCEPT ![s] = after("draftFail", 0)]
        BY <3>2
      <4>4. QED
        BY <3>2, <4>2, <4>3 DEF TypeInv, ArticleTypeOK
    <3>3. QED
      BY <1>6, <3>1, <3>2 DEF PostDraft
  <2> HIDE DEF d, after
  <2>4. PICK v \in Session : proc' = [proc EXCEPT ![s] = v] /\ v.run \in DraftIds
                             /\ v.pc \in {"draftSave", "draftFail"}
    BY <2>1, <2>2, <2>3
  <2>5. QED
    BY <1>6, <2>3, <2>4, SessionStep, PCFacts DEF PostDraft, TypeInv, ArticleTypeOK, runs
<1>7. CASE SaveDraft(s)
  <2>1. proc[s].run \in DraftIds /\ proc[s].post \in PostIds \cup {0}
    BY <1>7, PCFacts DEF SaveDraft, TypeInv, Session
  <2>2. drafts' \in [DraftIds -> DraftRows]
    <3>1. drafts \in [DraftIds -> DraftRows]
      BY DEF TypeInv, ArticleTypeOK
    <3>2. "succeeded" \in RunStatuses
      BY DEF RunStatuses
    <3>3. drafts' = [drafts EXCEPT ![proc[s].run].status = "succeeded",
                                   ![proc[s].run].post = proc[s].post]
      BY <1>7 DEF SaveDraft
    <3>4. QED
      BY <2>1, <3>1, <3>2, <3>3 DEF DraftRows
  <2>3. article' \in Articles
    BY <1>7, <2>1 DEF SaveDraft, TypeInv, ArticleTypeOK, Articles
  <2>4. QED
    BY <1>7, <2>2, <2>3, SessionStep, PCFacts DEF SaveDraft, Ends, TypeInv, ArticleTypeOK, world
<1>8. CASE FailDraft(s)
  <2>1. proc[s].run \in DraftIds
    BY <1>8, PCFacts DEF FailDraft, TypeInv
  <2>2. drafts' \in [DraftIds -> DraftRows]
    BY <1>8, <2>1, DraftStatus DEF FailDraft, RunStatuses
  <2>3. QED
    BY <1>8, <2>2, SessionStep, PCFacts DEF FailDraft, Ends, TypeInv, ArticleTypeOK, world
<1>9. QED
  BY <1>1, <1>2, <1>3, <1>4, <1>5, <1>6, <1>7, <1>8 DEF Drafting

PubRow == [status : RunStatuses \cup {"cancelled"}, body : Texts, raw : Texts,
           post : PostIds \cup {0}, source : DraftIds \cup {0}]

LEMMA PubStatus ==
    ASSUME TypeInv, NEW p \in PubIds, NEW st \in RunStatuses \cup {"cancelled"},
           pubs' = [pubs EXCEPT ![p].status = st]
    PROVE  pubs' \in [PubIds -> PubRow]
<1>1. pubs \in [PubIds -> PubRow]
  BY DEF TypeInv, ArticleTypeOK, PubRow
<1>2. QED
  BY <1>1 DEF PubRow

LEMMA MadePublic ==
    ASSUME TypeInv, NEW i, posts' = [posts EXCEPT ![i].status = "publish"]
    PROVE  posts' \in [PostIds -> PostRows]
<1>1. posts \in [PostIds -> PostRows]
  BY DEF TypeInv, ArticleTypeOK, PostRows
<1>2. QED
  BY <1>1 DEF PostRows

\* What a step on a publication run keeps, seen from its parts.
LEMMA PubStepTypes ==
    ASSUME TypeInv, NEW s \in Sessions,
           UNCHANGED <<gens, promo, revs, drafts>>,
           article' \in Articles,
           pubs' \in [PubIds -> PubRow], posts' \in [PostIds -> PostRows],
           wire' \subseteq Requests,
           NEW v \in Session, proc' = [proc EXCEPT ![s] = v],
           v.pc \notin DraftPCs,
           v.pc \in PubPCs => v.run \in PubIds,
           v.pc = "pubInsert" => v.run \in DraftIds
    PROVE  TypeInv'
BY SessionStep DEF TypeInv, ArticleTypeOK, PubRow, PostRows

LEMMA PublishingTypes ==
    ASSUME TypeInv, NEW s \in Sessions, Publishing(s)
    PROVE  TypeInv'
<1>0. /\ article \in Articles
      /\ pubs \in [PubIds -> PubRow] /\ posts \in [PostIds -> PostRows]
      /\ wire \subseteq Requests /\ proc[s] \in Session
      /\ proc[s].pc \in PubPCs => proc[s].run \in PubIds
      /\ proc[s].pc = "pubInsert" => proc[s].run \in DraftIds
      /\ Idle \in Session /\ Idle.pc = "idle"
      /\ Idle = [pc |-> "idle", run |-> 0, body |-> None, name |-> None, raw |-> None,
                 seen |-> "none", post |-> 0]
  BY PCFacts DEF TypeInv, ArticleTypeOK, PubRow, PostRows, Idle
<1>1. ASSUME NEW d \in DraftIds, PreparePub(s, d)
      PROVE  TypeInv'
  <2>1. article.post \in PostIds /\ posts[article.post].raw \in Texts /\ article.body \in Texts
    BY <1>0, <1>1 DEF PreparePub, Posted, PostRows, Articles
  <2>2. PICK v \in Session :
          /\ v = [Idle EXCEPT !.pc = "pubInsert", !.run = d, !.raw = posts[article.post].raw,
                              !.body = article.body, !.post = article.post]
          /\ v.pc = "pubInsert" /\ v.run = d
    <3> DEFINE w == [Idle EXCEPT !.pc = "pubInsert", !.run = d,
                                 !.raw = posts[article.post].raw, !.body = article.body,
                                 !.post = article.post]
    <3>1. d \in Nat /\ "pubInsert" \in PCs
      BY Bounds DEF PCs
    <3>2. w \in Session /\ w.pc = "pubInsert" /\ w.run = d
      BY <1>0, <2>1, <3>1 DEF Session
    <3>3. QED
      BY <3>2
  <2>3. proc' = [proc EXCEPT ![s] = v]
    BY <1>1, <2>2 DEF PreparePub
  <2>4. QED
    BY <1>0, <1>1, <2>2, <2>3, PubStepTypes, PCFacts DEF PreparePub, runs, world
<1>2. CASE InsertPub(s)
  <2>1. PICK p \in PubIds :
          pubs' = [pubs EXCEPT ![p] =
                     [status |-> "prepared", body |-> proc[s].body, raw |-> proc[s].raw,
                      post |-> proc[s].post, source |-> proc[s].run]]
    BY <1>2 DEF InsertPub
  <2>2. pubs' \in [PubIds -> PubRow]
    BY <1>0, <1>2, <2>1 DEF InsertPub, PubRow, Session, RunStatuses
  <2>3. QED
    BY <1>0, <1>2, <2>2, PubStepTypes, PCFacts DEF InsertPub, Ends, world
<1>3. ASSUME NEW p \in PubIds, BeginPub(s, p) \/ BeginCancel(s, p)
      PROVE  TypeInv'
  <2>1. PICK v \in Session :
          /\ proc' = [proc EXCEPT ![s] = v]
          /\ v.pc \in {"pubPreflight", "cancelWrite"} /\ v.run = p
    <3> DEFINE begun == [Idle EXCEPT !.pc = "pubPreflight", !.run = p, !.name = article.name]
               asked == [Idle EXCEPT !.pc = "cancelWrite", !.run = p]
    <3>1. article.name \in Names /\ p \in Nat
      BY <1>0, Bounds DEF Articles
    <3>2. begun \in Session /\ begun.pc = "pubPreflight" /\ begun.run = p
      BY <1>0, <3>1, PCFacts DEF Session, PCs
    <3>3. asked \in Session /\ asked.pc = "cancelWrite" /\ asked.run = p
      BY <1>0, <3>1, PCFacts DEF Session, PCs
    <3>4. proc' = [proc EXCEPT ![s] = begun] \/ proc' = [proc EXCEPT ![s] = asked]
      BY <1>3 DEF BeginPub, BeginCancel
    <3> HIDE DEF begun, asked
    <3>5. QED
      BY <3>2, <3>3, <3>4
  <2>2. QED
    BY <1>0, <1>3, <2>1, PubStepTypes, PCFacts DEF BeginPub, BeginCancel, runs, world
<1>4. CASE PreflightPub(s) \/ ReadBack(s)
  <2>1. proc[s].run \in PubIds
    BY <1>0, <1>4, PCFacts DEF PreflightPub, ReadBack
  <2>2. PICK v \in Session :
          /\ proc' = [proc EXCEPT ![s] = v]
          /\ v = Idle \/ (v.pc \in {"pubMark", "pubFinish"} /\ v.run = proc[s].run)
    <3>1. \A pc \in {"pubMark", "pubFinish"} :
            /\ [proc[s] EXCEPT !.pc = pc] \in Session
            /\ [proc[s] EXCEPT !.pc = pc].pc = pc
            /\ [proc[s] EXCEPT !.pc = pc].run = proc[s].run
      BY <1>0, PCFacts DEF Session, PCs
    <3>2. QED
      <4>1. \/ proc' = [proc EXCEPT ![s] = Idle]
            \/ \E pc \in {"pubMark", "pubFinish"} :
                 proc' = [proc EXCEPT ![s] = [proc[s] EXCEPT !.pc = pc]]
        <5>1. \/ proc' = [proc EXCEPT ![s] = Idle]
              \/ proc' = [proc EXCEPT ![s].pc = "pubMark"]
              \/ proc' = [proc EXCEPT ![s].pc = "pubFinish"]
          BY <1>4 DEF PreflightPub, ReadBack, Goto, Ends
        <5>2. QED
          BY <5>1
      <4>2. CASE proc' = [proc EXCEPT ![s] = Idle]
        BY <1>0, <4>2
      <4>3. ASSUME NEW pc \in {"pubMark", "pubFinish"},
                   proc' = [proc EXCEPT ![s] = [proc[s] EXCEPT !.pc = pc]]
            PROVE  \E v \in Session :
                     /\ proc' = [proc EXCEPT ![s] = v]
                     /\ v = Idle \/ (v.pc \in {"pubMark", "pubFinish"} /\ v.run = proc[s].run)
        BY <3>1, <4>3
      <4>4. QED
        BY <4>1, <4>2, <4>3
  <2>3. QED
    BY <1>0, <1>4, <2>1, <2>2, PubStepTypes, PCFacts DEF PreflightPub, ReadBack, runs, world
<1>5. CASE MarkPub(s)
  <2>1. proc[s].run \in PubIds
    BY <1>0, <1>5, PCFacts DEF MarkPub
  <2>2. pubs' \in [PubIds -> PubRow]
    BY <1>5, <2>1, PubStatus DEF MarkPub, RunStatuses
  <2>3. PICK v \in Session :
          proc' = [proc EXCEPT ![s] = v] /\ v.pc = "pubPost" /\ v.run = proc[s].run
    <3>1. proc' = [proc EXCEPT ![s] = [proc[s] EXCEPT !.pc = "pubPost"]]
      BY <1>5 DEF MarkPub, Goto
    <3>2. /\ [proc[s] EXCEPT !.pc = "pubPost"] \in Session
          /\ [proc[s] EXCEPT !.pc = "pubPost"].pc = "pubPost"
          /\ [proc[s] EXCEPT !.pc = "pubPost"].run = proc[s].run
      BY <1>0, PCFacts DEF Session, PCs
    <3>3. QED
      BY <3>1, <3>2
  <2>4. QED
    BY <1>0, <1>5, <2>1, <2>2, <2>3, PubStepTypes, PCFacts DEF MarkPub, world
<1>6. CASE PostPub(s)
  <2>1. PICK p \in PubIds : p = proc[s].run
    BY <1>0, <1>6, PCFacts DEF PostPub
  <2>2. PICK st \in RunStatuses \cup {"cancelled"} : st = pubs[p].status
    BY <1>0 DEF PubRow
  <2>3. /\ posts' = [posts EXCEPT ![pubs[p].post].status = "publish"] \/ UNCHANGED posts
        /\ wire' \in {wire, wire \cup {[kind |-> "publication", run |-> p]}}
        /\ \E pc \in {"pubReadback", "pubFail"} :
             proc' = [proc EXCEPT ![s].pc = pc, ![s].seen = st]
    BY <1>6, <2>1, <2>2 DEF PostPub
  <2>4. PICK v \in Session :
          /\ proc' = [proc EXCEPT ![s] = v]
          /\ v.pc \in {"pubReadback", "pubFail"} /\ v.run = p
    <3>1. \A pc \in {"pubReadback", "pubFail"} :
            /\ [proc[s] EXCEPT !.pc = pc, !.seen = st] \in Session
            /\ [proc[s] EXCEPT !.pc = pc, !.seen = st].pc = pc
            /\ [proc[s] EXCEPT !.pc = pc, !.seen = st].run = p
      BY <1>0, <2>1, PCFacts DEF Session, PCs
    <3>2. PICK pc \in {"pubReadback", "pubFail"} :
            proc' = [proc EXCEPT ![s].pc = pc, ![s].seen = st]
      BY <2>3
    <3>3. proc' = [proc EXCEPT ![s] = [proc[s] EXCEPT !.pc = pc, !.seen = st]]
      BY <3>2
    <3> [proc[s] EXCEPT !.pc = pc, !.seen = st] \in Session
      BY <3>1
    <3> WITNESS [proc[s] EXCEPT !.pc = pc, !.seen = st] \in Session
    <3>4. QED
      BY <3>1, <3>3
  <2>5. [kind |-> "publication", run |-> p] \in Requests
    BY DEF Requests
  <2>6. posts' \in [PostIds -> PostRows] /\ wire' \subseteq Requests
    BY <1>0, <2>3, <2>5, MadePublic
  <2>7. QED
    BY <1>0, <1>6, <2>4, <2>6, PubStepTypes, PCFacts DEF PostPub, runs
<1>7. CASE FinishPub(s)
  <2>1. proc[s].run \in PubIds
    BY <1>0, <1>7, PCFacts DEF FinishPub
  <2>2. pubs' \in [PubIds -> PubRow]
    BY <1>7, <2>1, PubStatus DEF FinishPub, RunStatuses
  <2>3. article' \in Articles
    BY <1>0, <1>7 DEF FinishPub, Articles, Transitions
  <2>4. QED
    BY <1>0, <1>7, <2>2, <2>3, PubStepTypes, PCFacts DEF FinishPub, Ends, world
<1>8. CASE FailPub(s) \/ WriteCancel(s)
  <2>1. proc[s].run \in PubIds
    BY <1>0, <1>8, PCFacts DEF FailPub, WriteCancel
  <2>2. pubs' \in [PubIds -> PubRow]
    BY <1>8, <2>1, PubStatus DEF FailPub, WriteCancel, RunStatuses
  <2>3. QED
    BY <1>0, <1>8, <2>2, PubStepTypes, PCFacts DEF FailPub, WriteCancel, Ends, world
<1>9. QED
  BY <1>1, <1>2, <1>3, <1>4, <1>5, <1>6, <1>7, <1>8 DEF Publishing

LEMMA TypeStep ==
    ASSUME TypeInv, [Next]_vars
    PROVE  TypeInv'
<1>1. ASSUME NEW s \in Sessions, Stops(s)
      PROVE  TypeInv'
  BY <1>1, SessionStep, PCFacts DEF Stops, Ends, TypeInv, ArticleTypeOK, runs, world
<1>2. ASSUME NEW r \in wire, LandDraft(r)
      PROVE  TypeInv'
  <2>1. r.run \in DraftIds
    BY <1>2 DEF LandDraft, TypeInv, Requests
  <2>2. posts' \in [PostIds -> PostRows]
    BY <1>2, <2>1, CreatedPosts DEF LandDraft
  <2>3. QED
    BY <1>2, <2>2 DEF LandDraft, TypeInv, ArticleTypeOK, runs
<1>3. ASSUME NEW r \in wire, LandPub(r)
      PROVE  TypeInv'
  <2>1. posts' \in [PostIds -> PostRows]
    BY <1>3, MadePublic DEF LandPub
  <2>2. QED
    BY <1>3, <2>1 DEF LandPub, TypeInv, ArticleTypeOK, runs, PostRows
<1>4. ASSUME NEW i \in PostIds, NEW b \in Bodies, EditPost(i, b)
      PROVE  TypeInv'
  <2>1. posts' \in [PostIds -> PostRows]
    BY <1>4 DEF EditPost, TypeInv, ArticleTypeOK, PostRows, Texts
  <2>2. QED
    BY <1>4, <2>1 DEF EditPost, TypeInv, ArticleTypeOK, runs
<1>5. CASE UNCHANGED vars
  BY <1>5 DEF vars, TypeInv, ArticleTypeOK
<1>6. QED
  BY <1>1, <1>2, <1>3, <1>4, <1>5, WritingTypes, DraftingTypes, PublishingTypes DEF Next

----------------------------------------------------------------------------
(* What a step leaves alone.                                               *)

\* Rows and posts are never taken back, and the article keeps its post.
Grows ==
    /\ \A i : Exists(i) => Exists(i)'
    /\ \A i \in PostIds : Public(i) => Public(i)'
    /\ Exists(article.post) => Exists(article.post)'
    /\ \A p \in PubIds : pubs[p].status # "none" =>
         (pubs[p].status)' # "none" /\ (pubs[p].post)' = pubs[p].post

LEMMA OthersNamesExist ==
    ASSUME TypeInv, RowsExist, Grows, NEW t \in Sessions, proc'[t] = proc[t]
    PROVE  NamesExist(t)'
<1>1. /\ proc[t].pc \in PubPCs => proc[t].run \in PubIds
      /\ NamesExist(t)
  BY DEF TypeInv, RowsExist
<1>2. proc[t].pc = "pubFinish" => pubs[proc[t].run].post \in PostIds
  BY <1>1, PCFacts DEF RowsExist, NamesExist, Exists
<1>3. QED
  BY <1>1, <1>2, PCFacts DEF NamesExist, Grows

\* A step that leaves draft executions, their requests and the posts alone.
LEMMA DraftsUndisturbed ==
    ASSUME DraftsAlone, RowsExist,
           \A t \in Sessions : proc'[t].pc \in DraftPCs => proc'[t] = proc[t],
           \A t \in Sessions : proc'[t].pc = "pubInsert" =>
               proc'[t] = proc[t] \/ proc'[t].post = article.post,
           article'.post = article.post,
           article'.live = article.live \/ Public(article.post)',
           DraftRequests' = DraftRequests,
           \A i \in PostIds : Public(i) => Public(i)',
           \A p \in PubIds : pubs'[p].status # "none" =>
               \/ pubs[p].status # "none" /\ pubs'[p].post = pubs[p].post
               \/ pubs'[p].post = article.post
    PROVE  DraftsAlone'
<1>1. (\A s, t \in Sessions : proc[s].pc \in DraftPCs /\ proc[t].pc \in DraftPCs => s = t)'
  BY DEF DraftsAlone
<1>2. (\A s \in Sessions :
         /\ proc[s].pc \in DraftPCs => article.post = 0
         /\ proc[s].pc \in DraftPCs \ {"draftFail"} => DraftRequests = {})'
  BY DEF DraftsAlone
<1>3. (\A q, r \in DraftRequests : q = r)'
  BY DEF DraftsAlone
<1>4. (\A p \in PubIds : pubs[p].status # "none" => pubs[p].post = article.post)'
  BY DEF DraftsAlone
<1>5. (\A s \in Sessions : proc[s].pc = "pubInsert" => proc[s].post = article.post)'
  BY DEF DraftsAlone
<1>6. (article.live => Public(article.post))'
  <2>1. article.live => article.post \in PostIds
    BY DEF RowsExist, Exists
  <2>2. article.live => Public(article.post)'
    BY <2>1 DEF DraftsAlone
  <2>3. QED
    BY <2>2 DEF Public
<1>7. QED
  BY <1>1, <1>2, <1>3, <1>4, <1>5, <1>6 DEF DraftsAlone

\* A step that leaves publication executions and their runs alone and makes
\* nothing public.
LEMMA PubsUndisturbed ==
    ASSUME PubsAlone,
           \A t \in Sessions : proc'[t].pc \in PubPCs => proc'[t] = proc[t],
           UNCHANGED pubs, PubRequests' = PubRequests,
           \A i \in PostIds : Public(i)' => Public(i)
    PROVE  PubsAlone'
<1>1. (\A s, t \in Sessions : proc[s].pc \in PubPCs /\ proc[t].pc \in PubPCs => s = t)'
  BY DEF PubsAlone
<1>2. (\A s \in Sessions :
         /\ proc[s].pc \in {"pubPreflight", "pubMark", "cancelWrite"} =>
               pubs[proc[s].run].status = "prepared"
         /\ proc[s].pc \in {"pubPost", "pubReadback", "pubFinish", "pubFail"} =>
               pubs[proc[s].run].status = "running")'
  <2>1. {"pubPreflight", "pubMark", "cancelWrite", "pubPost", "pubReadback", "pubFinish",
         "pubFail"} \subseteq PubPCs
    BY PCFacts
  <2>2. QED
    BY <2>1 DEF PubsAlone
<1>3. (\A r \in PubRequests : Reached(r.run))'
  BY DEF PubsAlone, Reached
<1>4. (\A i \in PostIds : Public(i) => \E p \in PubIds : pubs[p].post = i /\ Reached(p))'
  BY DEF PubsAlone, Reached
<1>5. QED
  BY <1>1, <1>2, <1>3, <1>4 DEF PubsAlone

\* Steps of the text, of its status, and of people who edit the post.
Quiet ==
    /\ UNCHANGED <<pubs, wire, proc, overlapped>>
    /\ article'.post = article.post /\ article'.live = article.live
    /\ \A i \in PostIds : posts'[i].status = posts[i].status

LEMMA QuietSteps ==
    ASSUME TypeInv,
           \/ Writing \/ Approve \/ UNCHANGED vars
           \/ \E i \in PostIds, b \in Bodies : EditPost(i, b)
    PROVE  Quiet
<1>1. CASE Writing
  BY <1>1 DEF Writing, PrepareGen, ExecuteGen, SubmitResult, Promote, Revise, Patch,
              ChangeStatus, Quiet, TypeInv, ArticleTypeOK, Articles, runs, world
<1>2. CASE Approve \/ UNCHANGED vars
  BY <1>2 DEF Approve, vars, Quiet, TypeInv, ArticleTypeOK, Articles, runs, world
<1>3. ASSUME NEW i \in PostIds, NEW b \in Bodies, EditPost(i, b)
      PROVE  Quiet
  BY <1>3 DEF EditPost, Quiet, TypeInv, ArticleTypeOK, runs
<1>4. QED
  BY <1>1, <1>2, <1>3

LEMMA QuietKeeps ==
    ASSUME TypeInv, Related, Quiet
    PROVE  Related'
<1>1. /\ \A i \in PostIds : (Exists(i) <=> Exists(i)') /\ (Public(i) <=> Public(i)')
      /\ Existing' = Existing /\ DraftRequests' = DraftRequests
      /\ PubRequests' = PubRequests
      /\ UNCHANGED <<pubs, proc, overlapped>>
      /\ article'.post = article.post /\ article'.live = article.live
  BY DEF Quiet, Exists, Public, Existing, DraftRequests, PubRequests
<1>2. \A i : Exists(i) => Exists(i)'
  BY <1>1 DEF Exists
<1>3. Exists(article.post) <=> Exists(article.post)'
  BY <1>1 DEF Exists
<1>4. RowsExist'
  <2>1. Grows
    BY <1>1, <1>2, <1>3 DEF Grows
  <2>2. \A t \in Sessions : NamesExist(t)'
    BY <1>1, <2>1, OthersNamesExist DEF Related
  <2>3. QED
    BY <1>1, <1>2, <1>3, <2>2 DEF RowsExist, Related
<1>5. "draft" \notin overlapped => DraftsAlone'
  BY <1>1, DraftsUndisturbed DEF Related, DraftsAlone
<1>6. "publication" \notin overlapped => PubsAlone'
  BY <1>1, PubsUndisturbed DEF Related
<1>7. QED
  BY <1>1, <1>4, <1>5, <1>6 DEF Related, Finished

LEMMA ProcAfter ==
    ASSUME TypeInv, NEW s \in Sessions, NEW v, proc' = [proc EXCEPT ![s] = v]
    PROVE  proc'[s] = v /\ \A t \in Sessions : t # s => proc'[t] = proc[t]
BY DEF TypeInv

LEMMA SamePosts ==
    ASSUME UNCHANGED posts
    PROVE  /\ \A i : (Exists(i) => Exists(i)') /\ (Public(i) <=> Public(i)')
           /\ Existing' = Existing
BY DEF Exists, Public, Existing

\* One session moves on without touching a table or the post.
LEMMA MovedNames ==
    ASSUME TypeInv, RowsExist, NEW s \in Sessions, NEW v,
           proc' = [proc EXCEPT ![s] = v],
           UNCHANGED <<pubs, posts, wire>>,
           article'.post = article.post, article'.live = article.live,
           NamesExist(s)'
    PROVE  RowsExist'
<1>1. Exists(article.post) <=> Exists(article.post)'
  BY DEF Exists
<1>2. Grows
  BY <1>1, SamePosts DEF Grows
<1>3. \A t \in Sessions : NamesExist(t)'
  BY <1>2, ProcAfter, OthersNamesExist
<1>4. PubRequests' = PubRequests
  BY DEF PubRequests
<1>5. (\A p \in PubIds : pubs[p].status # "none" => Exists(pubs[p].post) /\ Exists(article.post))'
  BY <1>1, SamePosts DEF RowsExist
<1>6. (\A i \in PostIds : Public(i) => Exists(article.post))'
  BY <1>1, SamePosts DEF RowsExist
<1>7. QED
  BY <1>1, <1>3, <1>4, <1>5, <1>6 DEF RowsExist

\* A session ends, or waits to insert the row of a draft run.
LEMMA LeavesKeeps ==
    ASSUME TypeInv, Related, NEW s \in Sessions, NEW v,
           proc' = [proc EXCEPT ![s] = v], v.pc \in {"idle", "draftInsert"},
           UNCHANGED <<article, pubs, posts, wire, overlapped>>
    PROVE  Related'
<1>1. proc'[s] = v /\ \A t \in Sessions : t # s => proc'[t] = proc[t]
  BY ProcAfter
<1>2. RowsExist'
  <2>1. NamesExist(s)'
    BY <1>1, PCFacts DEF NamesExist
  <2>2. QED
    BY <2>1, MovedNames DEF Related
<1>3. DraftRequests' = DraftRequests /\ PubRequests' = PubRequests
  BY DEF DraftRequests, PubRequests
<1>4. "draft" \notin overlapped => DraftsAlone'
  BY <1>1, <1>3, DraftsUndisturbed, SamePosts, PCFacts DEF Related
<1>5. "publication" \notin overlapped => PubsAlone'
  BY <1>1, <1>3, PubsUndisturbed, SamePosts, PCFacts DEF Related
<1>6. QED
  BY <1>2, <1>4, <1>5 DEF Related, Finished

LEMMA LeavingSteps ==
    ASSUME TypeInv, Related, NEW s \in Sessions,
           \/ PrepareDraft(s) \/ InsertDraft(s) \/ FailDraft(s) \/ Stops(s)
           \/ PreflightDraft(s) /\ SlugTaken(SlugOf[drafts[proc[s].run].name])
    PROVE  Related'
<1>1. Idle.pc = "idle"
  BY PCFacts
<1>2. UNCHANGED <<article, pubs, posts, wire, overlapped>>
  BY DEF PrepareDraft, InsertDraft, FailDraft, Stops, PreflightDraft, runs, world
<1>3. CASE PrepareDraft(s)
  <2>1. proc' = [proc EXCEPT ![s] = [proc[s] EXCEPT !.pc = "draftInsert", !.body = article.body,
                                                     !.name = article.name]]
    BY <1>3 DEF PrepareDraft
  <2>2. [proc[s] EXCEPT !.pc = "draftInsert", !.body = article.body,
                        !.name = article.name].pc = "draftInsert"
    BY DEF TypeInv, Session
  <2>3. QED
    BY <1>2, <2>1, <2>2, LeavesKeeps
<1>4. CASE proc' = [proc EXCEPT ![s] = Idle]
  BY <1>1, <1>2, <1>4, LeavesKeeps
<1>5. QED
  BY <1>3, <1>4 DEF InsertDraft, FailDraft, Stops, PreflightDraft, Ends

\* A draft run that goes on reads or writes nothing of the publication.
LEMMA DraftMovesOn ==
    ASSUME TypeInv, Related, NEW s \in Sessions, NEW v,
           proc' = [proc EXCEPT ![s] = v],
           v.pc \in {"draftPreflight", "draftMark", "draftPost"},
           UNCHANGED <<article, pubs, posts, wire>>, overlapped \subseteq overlapped',
           "draft" \notin overlapped' =>
               /\ \A t \in Sessions \ {s} : proc[t].pc \notin DraftPCs
               /\ article.post = 0 /\ DraftRequests = {}
    PROVE  Related'
<1>1. proc'[s] = v /\ \A t \in Sessions : t # s => proc'[t] = proc[t]
  BY ProcAfter
<1>2. RowsExist'
  <2>1. NamesExist(s)'
    BY <1>1, PCFacts DEF NamesExist
  <2>2. QED
    BY <2>1, MovedNames DEF Related
<1>3. DraftRequests' = DraftRequests /\ PubRequests' = PubRequests
  BY DEF DraftRequests, PubRequests
<1>4. ASSUME "draft" \notin overlapped'
      PROVE  DraftsAlone'
  <2>0. DraftsAlone
    BY <1>4 DEF Related
  <2>1. (\A t, u \in Sessions : proc[t].pc \in DraftPCs /\ proc[u].pc \in DraftPCs => t = u)'
    BY <1>1, <1>4
  <2>2. (\A t \in Sessions :
           /\ proc[t].pc \in DraftPCs => article.post = 0
           /\ proc[t].pc \in DraftPCs \ {"draftFail"} => DraftRequests = {})'
    BY <1>1, <1>3, <1>4, <2>0, SamePosts, PCFacts
  <2>3. (\A t \in Sessions : proc[t].pc = "pubInsert" => proc[t].post = article.post)'
    BY <1>1, <2>0 DEF DraftsAlone
  <2>4. QED
    BY <1>3, <2>0, <2>1, <2>2, <2>3, SamePosts DEF DraftsAlone, Public
<1>5. "publication" \notin overlapped' => PubsAlone'
  BY <1>1, <1>3, PubsUndisturbed, SamePosts, PCFacts DEF Related
<1>6. QED
  BY <1>2, <1>4, <1>5 DEF Related, Finished

LEMMA BeginDraftKeeps ==
    ASSUME TypeInv, Related, NEW s \in Sessions, NEW d \in DraftIds, BeginDraft(s, d)
    PROVE  Related'
<1> DEFINE v == [Idle EXCEPT !.pc = "draftPreflight", !.run = d]
<1>1. proc' = [proc EXCEPT ![s] = v] /\ v.pc = "draftPreflight"
  BY DEF BeginDraft, Idle
<1>2. overlapped \subseteq overlapped' /\ ("draft" \notin overlapped' => ~Meets(s, "draft"))
  BY DEF BeginDraft, Note
<1>3. "draft" \notin overlapped' =>
        /\ \A t \in Sessions \ {s} : proc[t].pc \notin DraftPCs
        /\ article.post = 0 /\ DraftRequests = {}
  BY <1>2 DEF Meets, BeginDraft, DraftGates, Unposted, DraftRequests, DraftPCs, Executing
<1>4. UNCHANGED <<article, pubs, posts, wire>>
  BY DEF BeginDraft, runs, world
<1> HIDE DEF v
<1>5. QED
  BY <1>1, <1>2, <1>3, <1>4, DraftMovesOn

LEMMA PreflightDraftKeeps ==
    ASSUME TypeInv, Related, NEW s \in Sessions, PreflightDraft(s)
    PROVE  Related'
<1>1. CASE SlugTaken(SlugOf[drafts[proc[s].run].name])
  BY <1>1, LeavingSteps
<1>2. CASE ~SlugTaken(SlugOf[drafts[proc[s].run].name])
  <2> DEFINE v == [proc[s] EXCEPT !.pc = "draftMark"]
  <2>1. proc' = [proc EXCEPT ![s] = v] /\ v.pc = "draftMark"
    BY <1>2 DEF PreflightDraft, Goto, TypeInv, Session
  <2>2. proc[s].pc \in DraftPCs /\ proc[s].pc # "draftFail"
    BY PCFacts DEF PreflightDraft
  <2>3. UNCHANGED <<article, pubs, posts, wire, overlapped>>
    BY DEF PreflightDraft, runs, world
  <2>4. ASSUME "draft" \notin overlapped
        PROVE  /\ \A t \in Sessions \ {s} : proc[t].pc \notin DraftPCs
               /\ article.post = 0 /\ DraftRequests = {}
    BY <2>2, <2>4 DEF Related, DraftsAlone
  <2> HIDE DEF v
  <2>5. QED
    BY <2>1, <2>3, <2>4, DraftMovesOn
<1>3. QED
  BY <1>1, <1>2

LEMMA MarkDraftKeeps ==
    ASSUME TypeInv, Related, NEW s \in Sessions, MarkDraft(s)
    PROVE  Related'
<1> DEFINE v == [proc[s] EXCEPT !.pc = "draftPost"]
<1>1. proc' = [proc EXCEPT ![s] = v] /\ v.pc = "draftPost"
  BY DEF MarkDraft, Goto, TypeInv, Session
<1>2. proc[s].pc \in DraftPCs /\ proc[s].pc = "draftMark"
  BY PCFacts DEF MarkDraft
<1>3. UNCHANGED <<article, pubs, posts, wire, overlapped>>
  BY DEF MarkDraft, world
<1>4. ASSUME "draft" \notin overlapped
      PROVE  /\ \A t \in Sessions \ {s} : proc[t].pc \notin DraftPCs
             /\ article.post = 0 /\ DraftRequests = {}
  BY <1>2, <1>4 DEF Related, DraftsAlone
<1> HIDE DEF v
<1>5. QED
  BY <1>1, <1>3, <1>4, DraftMovesOn

\* A new post is a draft with its run's name, and the posts there were stay as
\* they were.
LEMMA CreatedGrows ==
    ASSUME TypeInv, NEW d \in DraftIds, posts' \in Created(d)
    PROVE  \E j \in PostIds :
             /\ posts[j].status = "none"
             /\ (CHOOSE i \in PostIds : posts'[i] # posts[i]) = j
             /\ Existing' = Existing \cup {j}
             /\ \A i : Exists(i) => Exists(i)'
             /\ \A i \in PostIds : Public(i) <=> Public(i)'
             /\ Exists(j)'
             /\ posts'[j].name = drafts[d].name
             /\ \A i \in Existing : posts'[i] = posts[i]
<1>1. PICK j \in PostIds :
        /\ posts[j].status = "none"
        /\ posts' = [posts EXCEPT ![j] = [status |-> "draft", raw |-> drafts[d].body,
                                         name |-> drafts[d].name]]
        /\ (CHOOSE i \in PostIds : posts'[i] # posts[i]) = j
  BY CreatedPosts
<1>2. /\ posts'[j].status = "draft" /\ posts'[j].name = drafts[d].name
      /\ \A i \in PostIds : i # j => posts'[i] = posts[i]
  BY <1>1 DEF TypeInv, ArticleTypeOK
<1>3. QED
  BY <1>1, <1>2 DEF Existing, Exists, Public

\* The rest of the world, when a post was created or may still be.
LEMMA CreatedKeeps ==
    ASSUME TypeInv, Related, UNCHANGED <<article, pubs, overlapped>>,
           \A i : Exists(i) => Exists(i)',
           \A i \in PostIds : Public(i) <=> Public(i)',
           PubRequests' = PubRequests,
           \A t \in Sessions : proc'[t] = proc[t] \/ proc'[t].pc = "draftFail"
                               \/ (proc'[t].pc = "draftSave" /\ Exists(proc[t].post)')
    PROVE  RowsExist' /\ ("publication" \notin overlapped => PubsAlone')
<1>1. Exists(article.post) <=> Exists(article.post)'
  <2>1. Exists(article.post)' => article.post # 0
    BY Bounds DEF Exists
  <2>2. QED
    BY <2>1 DEF Related, RowsExist
<1>2. Grows
  BY <1>1 DEF Grows
<1>3. \A t \in Sessions : NamesExist(t)'
  <2>1. TAKE t \in Sessions
  <2>2. CASE proc'[t] = proc[t]
    BY <1>2, <2>2, OthersNamesExist DEF Related
  <2>3. CASE proc'[t] # proc[t]
    BY <2>3, PCFacts DEF NamesExist
  <2>4. QED
    BY <2>2, <2>3
<1>4. RowsExist'
  BY <1>1, <1>3 DEF RowsExist, Related
<1>5. \A t \in Sessions : proc'[t].pc \in PubPCs => proc'[t] = proc[t]
  BY PCFacts
<1>6. QED
  BY <1>4, <1>5, PubsUndisturbed DEF Related

\* The POST: a post made, with or without its answer, or none as yet.
LEMMA PostDraftDoes ==
    ASSUME TypeInv, NEW s \in Sessions, PostDraft(s), NEW d \in DraftIds, d = proc[s].run
    PROVE  \E v :
             /\ proc' = [proc EXCEPT ![s] = v] /\ v.run = d
             /\ \/ /\ posts' \in Created(d) /\ UNCHANGED wire
                   /\ \/ v.pc = "draftFail"
                      \/ /\ v.pc = "draftSave"
                         /\ v.post = CHOOSE i \in PostIds : posts'[i] # posts[i]
                \/ /\ wire' \in {wire, wire \cup {[kind |-> "draft", run |-> d]}}
                   /\ UNCHANGED posts /\ v.pc = "draftFail"
<1> DEFINE after(pc, i) ==
             [proc[s] EXCEPT !.pc = pc, !.seen = drafts[d].status, !.post = i]
           chosen == CHOOSE i \in PostIds : posts'[i] # posts[i]
<1>1. \A pc, i : after(pc, i).pc = pc /\ after(pc, i).post = i /\ after(pc, i).run = d
  BY DEF TypeInv, Session
<1>2. CASE /\ posts' \in Created(d) /\ UNCHANGED wire
           /\ \/ proc' = [proc EXCEPT ![s].pc = "draftSave", ![s].seen = drafts[d].status,
                                      ![s].post = CHOOSE i \in PostIds : posts'[i] # posts[i]]
              \/ proc' = [proc EXCEPT ![s].pc = "draftFail", ![s].seen = drafts[d].status,
                                      ![s].post = 0]
  <2>1. PICK i : i = CHOOSE j \in PostIds : posts'[j] # posts[j]
    OBVIOUS
  <2>2. \/ proc' = [proc EXCEPT ![s].pc = "draftSave", ![s].seen = drafts[d].status,
                               ![s].post = i]
        \/ proc' = [proc EXCEPT ![s].pc = "draftFail", ![s].seen = drafts[d].status,
                               ![s].post = 0]
    BY <1>2, <2>1
  <2>3. \/ proc' = [proc EXCEPT ![s] = after("draftSave", i)]
        \/ proc' = [proc EXCEPT ![s] = after("draftFail", 0)]
    BY <2>2
  <2> HIDE DEF after
  <2>4. CASE proc' = [proc EXCEPT ![s] = after("draftSave", i)]
    <3> WITNESS after("draftSave", i)
    <3>1. QED
      BY <1>1, <1>2, <2>1, <2>4
  <2>5. CASE proc' = [proc EXCEPT ![s] = after("draftFail", 0)]
    <3> WITNESS after("draftFail", 0)
    <3>1. QED
      BY <1>1, <1>2, <2>5
  <2>6. QED
    BY <2>3, <2>4, <2>5
<1>3. CASE /\ wire' \in {wire, wire \cup {[kind |-> "draft", run |-> d]}}
           /\ proc' = [proc EXCEPT ![s].pc = "draftFail", ![s].seen = drafts[d].status,
                                   ![s].post = 0]
           /\ UNCHANGED posts
  <2>1. proc' = [proc EXCEPT ![s] = after("draftFail", 0)]
    BY <1>3
  <2> HIDE DEF after
  <2> WITNESS after("draftFail", 0)
  <2>2. QED
    BY <1>1, <1>3, <2>1
<1>4. QED
  BY <1>2, <1>3 DEF PostDraft

LEMMA PostDraftKeeps ==
    ASSUME TypeInv, Related, NEW s \in Sessions, PostDraft(s)
    PROVE  Related'
<1>1. PICK d \in DraftIds : d = proc[s].run
  BY PCFacts DEF PostDraft, TypeInv
<1>2. proc[s].pc = "draftPost" /\ proc[s].pc \in DraftPCs
  BY PCFacts DEF PostDraft
<1>3. UNCHANGED <<article, pubs, overlapped>>
  BY DEF PostDraft, runs
<1>4. ASSUME "draft" \notin overlapped
      PROVE  /\ \A t \in Sessions \ {s} : proc[t].pc \notin DraftPCs
             /\ article.post = 0 /\ DraftRequests = {} /\ DraftsAlone
  BY <1>2, <1>4 DEF Related, DraftsAlone
<1>5. PICK v :
        /\ proc' = [proc EXCEPT ![s] = v]
        /\ \/ /\ posts' \in Created(d) /\ UNCHANGED wire
              /\ \/ v.pc = "draftFail"
                 \/ /\ v.pc = "draftSave"
                    /\ v.post = CHOOSE i \in PostIds : posts'[i] # posts[i]
           \/ /\ wire' \in {wire, wire \cup {[kind |-> "draft", run |-> d]}}
              /\ UNCHANGED posts /\ v.pc = "draftFail"
  BY <1>1, PostDraftDoes
<1>6. proc'[s] = v /\ \A t \in Sessions : t # s => proc'[t] = proc[t]
  BY <1>5, ProcAfter
<1>7. ASSUME "draft" \notin overlapped
      PROVE  /\ (\A t, u \in Sessions : proc[t].pc \in DraftPCs /\ proc[u].pc \in DraftPCs => t = u)'
             /\ (\A p \in PubIds : pubs[p].status = "none")
             /\ (\A t \in Sessions : proc[t].pc # "pubInsert")'
             /\ ~article.live
  <2>1. ~Exists(article.post)
    BY <1>4, <1>7, Bounds DEF Exists
  <2>2. QED
    BY <1>4, <1>5, <1>6, <1>7, <2>1 DEF Related, RowsExist, NamesExist
<1>8. CASE posts' \in Created(d) /\ UNCHANGED wire
  <2>1. PICK j \in PostIds :
             /\ (CHOOSE i \in PostIds : posts'[i] # posts[i]) = j
             /\ Existing' = Existing \cup {j}
             /\ \A i : Exists(i) => Exists(i)'
             /\ \A i \in PostIds : Public(i) <=> Public(i)'
             /\ Exists(j)'
    BY <1>8, CreatedGrows
  <2>2. v.pc = "draftFail" \/ (v.pc = "draftSave" /\ v.post = j)
    BY <1>5, <2>1
  <2>3. DraftRequests' = DraftRequests /\ PubRequests' = PubRequests
    BY <1>8 DEF DraftRequests, PubRequests
  <2>4. RowsExist' /\ ("publication" \notin overlapped => PubsAlone')
    <3>1. v.pc = "draftSave" => Exists(proc[s].post)'
      BY <1>6, <2>1, <2>2 DEF Exists
    <3>2. QED
      BY <1>3, <1>6, <2>1, <2>2, <2>3, <3>1, CreatedKeeps
  <2>5. ASSUME "draft" \notin overlapped
        PROVE  DraftsAlone'
    <3>1. (\A t \in Sessions :
             /\ proc[t].pc \in DraftPCs => article.post = 0
             /\ proc[t].pc \in DraftPCs \ {"draftFail"} => DraftRequests = {})'
      BY <1>3, <1>4, <1>6, <2>2, <2>3, <2>5, PCFacts
    <3>2. (\A q, r \in DraftRequests : q = r)'
      BY <1>4, <2>3, <2>5
    <3>3. QED
      BY <1>3, <1>7, <2>5, <3>1, <3>2 DEF DraftsAlone
  <2>6. QED
    BY <1>3, <2>4, <2>5 DEF Related, Finished
<1>9. CASE wire' \in {wire, wire \cup {[kind |-> "draft", run |-> d]}} /\ UNCHANGED posts
           /\ v.pc = "draftFail"
  <2>1. PubRequests' = PubRequests
        /\ DraftRequests' \subseteq DraftRequests \cup {[kind |-> "draft", run |-> d]}
    BY <1>9 DEF DraftRequests, PubRequests
  <2>2. RowsExist' /\ ("publication" \notin overlapped => PubsAlone')
    BY <1>3, <1>6, <1>9, <2>1, SamePosts, CreatedKeeps
  <2>3. ASSUME "draft" \notin overlapped
        PROVE  DraftsAlone'
    <3>1. (\A t \in Sessions :
             /\ proc[t].pc \in DraftPCs => article.post = 0
             /\ proc[t].pc \in DraftPCs \ {"draftFail"} => DraftRequests = {})'
      BY <1>3, <1>4, <1>6, <1>9, <2>3, PCFacts
    <3>2. (\A q, r \in DraftRequests : q = r)'
      BY <1>4, <2>1, <2>3
    <3>3. QED
      BY <1>3, <1>7, <2>3, <3>1, <3>2 DEF DraftsAlone
  <2>4. QED
    BY <1>3, <1>9, <2>2, <2>3 DEF Related, Finished
<1>10. QED
  BY <1>5, <1>8, <1>9

LEMMA LandDraftKeeps ==
    ASSUME TypeInv, Related, NEW r \in wire, LandDraft(r)
    PROVE  Related'
<1>1. r.kind = "draft" /\ r \in DraftRequests /\ r.run \in DraftIds
  BY DEF LandDraft, DraftRequests, TypeInv, Requests
<1>2. UNCHANGED <<article, pubs, proc, overlapped>>
  BY DEF LandDraft, runs
<1>3. PICK j \in PostIds :
           /\ Existing' = Existing \cup {j}
           /\ \A i : Exists(i) => Exists(i)'
           /\ \A i \in PostIds : Public(i) <=> Public(i)'
  BY <1>1, CreatedGrows DEF LandDraft
<1>4. DraftRequests' = DraftRequests \ {r} /\ PubRequests' = PubRequests
  BY <1>1 DEF DraftRequests, PubRequests, LandDraft
<1>5. RowsExist' /\ ("publication" \notin overlapped => PubsAlone')
  BY <1>2, <1>3, <1>4, CreatedKeeps
<1>6. ASSUME "draft" \notin overlapped
      PROVE  DraftsAlone'
  <2>0. DraftsAlone
    BY <1>6 DEF Related
  <2>1. DraftRequests' = {}
    BY <1>1, <1>4, <2>0 DEF DraftsAlone
  <2>2. \A t \in Sessions : proc[t].pc \in DraftPCs => proc[t].pc = "draftFail"
    BY <1>1, <2>0 DEF DraftsAlone
  <2>3. (\A t \in Sessions :
           /\ proc[t].pc \in DraftPCs => article.post = 0
           /\ proc[t].pc \in DraftPCs \ {"draftFail"} => DraftRequests = {})'
    BY <1>2, <2>0, <2>1, <2>2, PCFacts DEF DraftsAlone
  <2>4. (article.live => Public(article.post))'
    <3>1. article.live => article.post \in PostIds /\ Public(article.post)
      BY <2>0 DEF DraftsAlone, Related, RowsExist, Exists
    <3>2. QED
      BY <1>2, <1>3, <3>1
  <2>5. QED
    BY <1>2, <2>0, <2>1, <2>3, <2>4 DEF DraftsAlone
<1>7. QED
  BY <1>2, <1>5, <1>6 DEF Related, Finished

\* The article's post id is set once its run has succeeded; nothing of a
\* publication can be there before.
LEMMA SaveDraftKeeps ==
    ASSUME TypeInv, Related, NEW s \in Sessions, SaveDraft(s)
    PROVE  Related'
<1>1. /\ proc' = [proc EXCEPT ![s] = Idle] /\ Idle.pc = "idle"
      /\ proc'[s] = Idle /\ \A t \in Sessions : t # s => proc'[t] = proc[t]
      /\ proc[s].pc = "draftSave" /\ proc[s].pc \in DraftPCs
  BY ProcAfter, PCFacts DEF SaveDraft, Ends
<1>2. /\ UNCHANGED <<pubs, posts, wire, overlapped>>
      /\ article'.post = proc[s].post /\ article'.live = article.live
  BY DEF SaveDraft, TypeInv, ArticleTypeOK, world
<1>3. Exists(proc[s].post)
  BY <1>1 DEF Related, RowsExist, NamesExist
<1>4. Exists(article.post)'
  BY <1>2, <1>3 DEF Exists
<1>5. RowsExist'
  <2>1. Grows
    BY <1>2, <1>4, SamePosts DEF Grows
  <2>2. NamesExist(s)'
    BY <1>1, PCFacts DEF NamesExist
  <2>3. \A t \in Sessions : NamesExist(t)'
    BY <1>1, <2>1, <2>2, OthersNamesExist DEF Related
  <2>4. PubRequests' = PubRequests
    BY <1>2 DEF PubRequests
  <2>5. (\A p \in PubIds : pubs[p].status # "none" => Exists(pubs[p].post) /\ Exists(article.post))'
    BY <1>2, <1>4, SamePosts DEF Related, RowsExist
  <2>6. QED
    BY <1>2, <1>4, <2>3, <2>4, <2>5 DEF Related, RowsExist
<1>6. ASSUME "draft" \notin overlapped
      PROVE  /\ DraftsAlone' /\ ~article.live
  <2>0. DraftsAlone
    BY <1>6 DEF Related
  <2>1. article.post = 0 /\ \A t \in Sessions : t # s => proc[t].pc \notin DraftPCs
    BY <1>1, <2>0 DEF DraftsAlone
  <2>2. ~Exists(article.post)
    BY <2>1, Bounds DEF Exists
  <2>3. /\ ~article.live /\ \A p \in PubIds : pubs[p].status = "none"
        /\ \A t \in Sessions : proc[t].pc # "pubInsert"
    BY <2>2 DEF Related, RowsExist, NamesExist
  <2>4. \A t \in Sessions : proc'[t].pc \notin DraftPCs /\ proc'[t].pc # "pubInsert"
    BY <1>1, <2>1, <2>3, PCFacts
  <2>5. DraftRequests' = DraftRequests
    BY <1>2 DEF DraftRequests
  <2>6. QED
    BY <1>2, <2>0, <2>3, <2>4, <2>5 DEF DraftsAlone
<1>7. "publication" \notin overlapped => PubsAlone'
  <2>1. \A t \in Sessions : proc'[t].pc \in PubPCs => proc'[t] = proc[t]
    BY <1>1, PCFacts
  <2>2. PubRequests' = PubRequests
    BY <1>2 DEF PubRequests
  <2>3. QED
    BY <1>2, <2>1, <2>2, PubsUndisturbed, SamePosts DEF Related
<1>8. QED
  BY <1>2, <1>5, <1>6, <1>7 DEF Related, Finished

----------------------------------------------------------------------------
(* Steps of publications.                                                  *)

\* A publication run that goes on without a row or the post changing.
LEMMA PubMovesOn ==
    ASSUME TypeInv, Related, NEW s \in Sessions, NEW v,
           proc' = [proc EXCEPT ![s] = v],
           v.pc \in PubPCs \cup {"pubInsert"},
           UNCHANGED <<article, pubs, posts, wire>>, overlapped \subseteq overlapped',
           NamesExist(s)',
           v.pc = "pubInsert" => v.post = article.post,
           v.pc \in PubPCs /\ "publication" \notin overlapped' =>
               /\ \A t \in Sessions \ {s} : proc[t].pc \notin PubPCs
               /\ v.pc \in {"pubPreflight", "pubMark", "cancelWrite"} =>
                    pubs[v.run].status = "prepared"
               /\ v.pc \notin {"pubPreflight", "pubMark", "cancelWrite"} =>
                    pubs[v.run].status = "running"
    PROVE  Related'
<1>1. proc'[s] = v /\ \A t \in Sessions : t # s => proc'[t] = proc[t]
  BY ProcAfter
<1>2. RowsExist'
  BY MovedNames DEF Related
<1>3. DraftRequests' = DraftRequests /\ PubRequests' = PubRequests
  BY DEF DraftRequests, PubRequests
<1>4. "draft" \notin overlapped' => DraftsAlone'
  <2>1. \A t \in Sessions : proc'[t].pc \in DraftPCs => proc'[t] = proc[t]
    BY <1>1, PCFacts
  <2>2. \A t \in Sessions : proc'[t].pc = "pubInsert" =>
               proc'[t] = proc[t] \/ proc'[t].post = article.post
    BY <1>1
  <2>3. QED
    BY <1>3, <2>1, <2>2, DraftsUndisturbed, SamePosts DEF Related
<1>5. ASSUME "publication" \notin overlapped'
      PROVE  PubsAlone'
  <2>0. PubsAlone
    BY <1>5 DEF Related
  <2>1. (\A t, u \in Sessions : proc[t].pc \in PubPCs /\ proc[u].pc \in PubPCs => t = u)'
    BY <1>1, <1>5, <2>0, PCFacts DEF PubsAlone
  <2>2. (\A t \in Sessions :
           /\ proc[t].pc \in {"pubPreflight", "pubMark", "cancelWrite"} =>
                 pubs[proc[t].run].status = "prepared"
           /\ proc[t].pc \in {"pubPost", "pubReadback", "pubFinish", "pubFail"} =>
                 pubs[proc[t].run].status = "running")'
    BY <1>1, <1>5, <2>0, PCFacts DEF PubsAlone
  <2>3. (\A i \in PostIds : Public(i) => \E p \in PubIds : pubs[p].post = i /\ Reached(p))'
    BY <2>0 DEF PubsAlone, Public, Reached
  <2>4. (\A r \in PubRequests : Reached(r.run))'
    BY <1>3, <2>0 DEF PubsAlone, Reached
  <2>5. QED
    BY <2>1, <2>2, <2>3, <2>4 DEF PubsAlone
<1>6. QED
  BY <1>2, <1>4, <1>5 DEF Related, Finished

LEMMA PreparePubKeeps ==
    ASSUME TypeInv, Related, NEW s \in Sessions, NEW d \in DraftIds, PreparePub(s, d)
    PROVE  Related'
<1> DEFINE v == [Idle EXCEPT !.pc = "pubInsert", !.run = d, !.raw = posts[article.post].raw,
                             !.body = article.body, !.post = article.post]
<1>1. proc' = [proc EXCEPT ![s] = v] /\ v.pc = "pubInsert" /\ v.post = article.post
  BY DEF PreparePub, Idle
<1> HIDE DEF v
<1>2. UNCHANGED <<article, pubs, posts, wire, overlapped>>
  BY DEF PreparePub, runs, world
<1>3. Exists(article.post)
  BY DEF PreparePub, Posted, Related, RowsExist
<1>4. proc'[s] = v
  BY <1>1, ProcAfter
<1>5. NamesExist(s)'
  BY <1>1, <1>2, <1>3, <1>4, PCFacts DEF NamesExist, Exists
<1>6. QED
  BY <1>1, <1>2, <1>5, PubMovesOn, PCFacts

LEMMA BeginPubKeeps ==
    ASSUME TypeInv, Related, NEW s \in Sessions, NEW p \in PubIds,
           BeginPub(s, p) \/ BeginCancel(s, p)
    PROVE  Related'
<1>1. PICK v : /\ proc' = [proc EXCEPT ![s] = v] /\ v.run = p
               /\ v.pc \in {"pubPreflight", "cancelWrite"}
  <2> DEFINE begun == [Idle EXCEPT !.pc = "pubPreflight", !.run = p, !.name = article.name]
             asked == [Idle EXCEPT !.pc = "cancelWrite", !.run = p]
  <2>1. /\ begun.pc = "pubPreflight" /\ begun.run = p
        /\ asked.pc = "cancelWrite" /\ asked.run = p
    BY DEF Idle
  <2>2. proc' = [proc EXCEPT ![s] = begun] \/ proc' = [proc EXCEPT ![s] = asked]
    BY DEF BeginPub, BeginCancel
  <2> HIDE DEF begun, asked
  <2>3. QED
    BY <2>1, <2>2
<1>2. UNCHANGED <<article, pubs, posts, wire>> /\ pubs[p].status = "prepared"
  BY DEF BeginPub, BeginCancel, Cancellable, runs, world
<1>3. /\ overlapped \subseteq overlapped'
      /\ "publication" \notin overlapped' => ~Meets(s, "publication")
  BY DEF BeginPub, BeginCancel, Note
<1>4. "publication" \notin overlapped' => \A t \in Sessions \ {s} : proc[t].pc \notin PubPCs
  BY <1>3 DEF Meets, PubPCs, Executing
<1>5. proc'[s] = v
  BY <1>1, ProcAfter
<1>6. NamesExist(s)'
  BY <1>1, <1>2, <1>5, PCFacts DEF NamesExist
<1>7. QED
  BY <1>1, <1>2, <1>3, <1>4, <1>6, PubMovesOn, PCFacts

\* The post seen as expected, the run goes on; seen otherwise, it ends.
LEMMA PubReadsKeep ==
    ASSUME TypeInv, Related, NEW s \in Sessions, PreflightPub(s) \/ ReadBack(s)
    PROVE  Related'
<1>1. /\ UNCHANGED <<article, pubs, posts, wire, overlapped>>
      /\ proc[s].pc \in {"pubPreflight", "pubReadback"} /\ proc[s].pc \in PubPCs
  BY PCFacts DEF PreflightPub, ReadBack, runs, world
<1>2. CASE Ends(s)
  <2>1. Idle.pc = "idle"
    BY PCFacts
  <2>2. QED
    BY <1>1, <1>2, <2>1, LeavesKeeps DEF Ends
<1>3. CASE ~Ends(s)
  <2>1. PICK v :
          /\ proc' = [proc EXCEPT ![s] = v] /\ v.run = proc[s].run
          /\ \/ v.pc = "pubMark" /\ proc[s].pc = "pubPreflight"
             \/ /\ v.pc = "pubFinish" /\ proc[s].pc = "pubReadback"
                /\ posts[pubs[proc[s].run].post].status = "publish"
    BY <1>3 DEF PreflightPub, ReadBack, Goto, TypeInv, Session
  <2>2. proc'[s] = v
    BY <2>1, ProcAfter
  <2>3. pubs[v.run].status # "none"
    BY <1>1, <2>1 DEF Related, RowsExist, NamesExist
  <2>4. NamesExist(s)'
    BY <1>1, <2>1, <2>2, <2>3 DEF NamesExist, Public
  <2>5. v.pc \in PubPCs
    BY <2>1, PCFacts
  <2>6. ASSUME "publication" \notin overlapped
        PROVE  /\ \A t \in Sessions \ {s} : proc[t].pc \notin PubPCs
               /\ v.pc = "pubMark" => pubs[v.run].status = "prepared"
               /\ v.pc = "pubFinish" => pubs[v.run].status = "running"
    BY <1>1, <2>1, <2>6 DEF Related, PubsAlone
  <2>7. QED
    BY <1>1, <2>1, <2>4, <2>5, <2>6, PubMovesOn
<1>4. QED
  BY <1>2, <1>3

\* An execution or a cancellation writes the status of its run.
LEMMA PubStatusStep ==
    ASSUME TypeInv, Related, NEW s \in Sessions, NEW p \in PubIds, p = proc[s].run,
           proc[s].pc \in PubPCs,
           NEW st \in {"running", "succeeded", "failed", "cancelled"},
           pubs' = [pubs EXCEPT ![p].status = st],
           NEW v, proc' = [proc EXCEPT ![s] = v],
           v.pc = "idle" \/ (v.pc = "pubPost" /\ v.run = p /\ st = "running"),
           UNCHANGED <<posts, wire, overlapped>>, article'.post = article.post,
           \/ article'.live = article.live
           \/ st = "succeeded" /\ Public(pubs[p].post),
           "publication" \notin overlapped /\ Reached(p) => st # "cancelled"
    PROVE  Related'
<1>1. proc'[s] = v /\ \A t \in Sessions : t # s => proc'[t] = proc[t]
  BY ProcAfter
<1>2. /\ pubs'[p].status = st /\ pubs'[p].post = pubs[p].post
      /\ \A q \in PubIds : q # p => pubs'[q] = pubs[q]
      /\ \A q \in PubIds : pubs'[q].post = pubs[q].post
  BY DEF TypeInv, ArticleTypeOK
<1>3. pubs[p].status # "none" /\ Exists(pubs[p].post) /\ Exists(article.post)
  BY DEF Related, RowsExist, NamesExist
<1>4. Exists(article.post)'
  BY <1>3 DEF Exists
<1>5. DraftRequests' = DraftRequests /\ PubRequests' = PubRequests /\ Existing' = Existing
  BY SamePosts DEF DraftRequests, PubRequests
<1>6. \A q \in PubIds : pubs'[q].status = "none" <=> pubs[q].status = "none"
  BY <1>2, <1>3
<1>7. RowsExist'
  <2>1. Grows
    BY <1>2, <1>4, <1>6, SamePosts DEF Grows
  <2>2. NamesExist(s)'
    BY <1>1, <1>2, PCFacts DEF NamesExist
  <2>3. \A t \in Sessions : NamesExist(t)'
    BY <1>1, <2>1, <2>2, OthersNamesExist DEF Related
  <2>4. (\A r \in PubRequests : pubs[r.run].status # "none")'
    <3>1. \A r \in PubRequests : r.run \in PubIds /\ pubs[r.run].status # "none"
      BY DEF Related, RowsExist, PubRequests, TypeInv, Requests
    <3>2. QED
      BY <1>5, <1>6, <3>1
  <2>5. (\A q \in PubIds : pubs[q].status # "none" => Exists(pubs[q].post) /\ Exists(article.post))'
    BY <1>2, <1>4, <1>6, SamePosts DEF Related, RowsExist
  <2>6. QED
    BY <1>4, <2>3, <2>4, <2>5 DEF RowsExist
<1>8. ASSUME "draft" \notin overlapped
      PROVE  DraftsAlone'
  <2>0. DraftsAlone
    BY <1>8 DEF Related
  <2>1. \A t \in Sessions : proc'[t].pc \in DraftPCs => proc'[t] = proc[t]
    BY <1>1, PCFacts
  <2>2. \A t \in Sessions : proc'[t].pc = "pubInsert" => proc'[t] = proc[t]
    BY <1>1
  <2>3. article'.live = article.live \/ Public(article.post)'
    <3>1. pubs[p].post = article.post
      BY <1>3, <2>0 DEF DraftsAlone
    <3>2. QED
      BY <3>1 DEF Public
  <2>4. QED
    BY <1>2, <1>5, <1>6, <2>0, <2>1, <2>2, <2>3, DraftsUndisturbed, SamePosts DEF Related
<1>9. ASSUME "publication" \notin overlapped
      PROVE  PubsAlone' /\ pubs[p].status \in {"prepared", "running"}
  <2>0. PubsAlone
    BY <1>9 DEF Related
  <2>1. \A t \in Sessions : t # s => proc'[t].pc \notin PubPCs
    BY <1>1, <2>0 DEF PubsAlone
  <2>2. \A q \in PubIds : Reached(q) => Reached(q)'
    BY <1>2, <1>9 DEF Reached
  <2>3. (\A t, u \in Sessions : proc[t].pc \in PubPCs /\ proc[u].pc \in PubPCs => t = u)'
    BY <2>1
  <2>4. (\A t \in Sessions :
           /\ proc[t].pc \in {"pubPreflight", "pubMark", "cancelWrite"} =>
                 pubs[proc[t].run].status = "prepared"
           /\ proc[t].pc \in {"pubPost", "pubReadback", "pubFinish", "pubFail"} =>
                 pubs[proc[t].run].status = "running")'
    BY <1>1, <1>2, <2>1, PCFacts
  <2>5. (\A r \in PubRequests : Reached(r.run))'
    <3>1. \A r \in PubRequests : r.run \in PubIds /\ Reached(r.run)
      BY <2>0 DEF PubsAlone, PubRequests, TypeInv, Requests
    <3>2. QED
      BY <1>5, <2>2, <3>1 DEF Reached
  <2>6. (\A i \in PostIds : Public(i) => \E q \in PubIds : pubs[q].post = i /\ Reached(q))'
    <3>1. \A i \in PostIds : Public(i) => \E q \in PubIds : pubs[q].post = i /\ Reached(q)
      BY <2>0 DEF PubsAlone
    <3>2. \A i \in PostIds : Public(i)' => \E q \in PubIds : pubs'[q].post = i /\ Reached(q)'
      BY <1>2, <2>2, <3>1, SamePosts
    <3>3. QED
      BY <3>2
  <2>7. pubs[p].status \in {"prepared", "running"}
    BY <2>0, PCFacts DEF PubsAlone
  <2>8. QED
    BY <2>3, <2>4, <2>5, <2>6, <2>7 DEF PubsAlone
<1>10. ASSUME "draft" \notin overlapped, "publication" \notin overlapped
       PROVE  Finished'
  <2>1. DraftsAlone /\ Finished /\ pubs[p].status \in {"prepared", "running"}
    BY <1>9, <1>10 DEF Related
  <2>2. CASE article'.live = article.live
    BY <1>2, <2>1, <2>2 DEF Finished
  <2>3. CASE st = "succeeded"
    BY <1>2, <1>3, <2>1, <2>3 DEF Finished, DraftsAlone
  <2>4. QED
    BY <2>2, <2>3
<1>11. QED
  BY <1>7, <1>8, <1>9, <1>10 DEF Related

LEMMA PubStatusKeeps ==
    ASSUME TypeInv, Related, NEW s \in Sessions,
           MarkPub(s) \/ FinishPub(s) \/ FailPub(s) \/ WriteCancel(s)
    PROVE  Related'
<1>1. PICK p \in PubIds : p = proc[s].run
  BY PCFacts DEF MarkPub, FinishPub, FailPub, WriteCancel, TypeInv
<1>2. /\ proc[s].pc \in PubPCs /\ Idle.pc = "idle"
      /\ UNCHANGED <<posts, wire, overlapped>>
  BY PCFacts DEF MarkPub, FinishPub, FailPub, WriteCancel, world
<1>3. CASE MarkPub(s)
  <2> DEFINE v == [proc[s] EXCEPT !.pc = "pubPost"]
  <2>1. proc' = [proc EXCEPT ![s] = v] /\ v.pc = "pubPost" /\ v.run = p
    BY <1>1, <1>3 DEF MarkPub, Goto, TypeInv, Session
  <2> HIDE DEF v
  <2>2. pubs' = [pubs EXCEPT ![p].status = "running"] /\ UNCHANGED article
    BY <1>1, <1>3 DEF MarkPub
  <2>3. QED
    BY <1>1, <1>2, <2>1, <2>2, PubStatusStep
<1>4. CASE FinishPub(s)
  <2>1. /\ article'.post = article.post
        /\ pubs' = [pubs EXCEPT ![p].status = "succeeded"] /\ proc' = [proc EXCEPT ![s] = Idle]
    BY <1>1, <1>4 DEF FinishPub, Ends, TypeInv, ArticleTypeOK
  <2>2. Public(pubs[p].post)
    BY <1>1, <1>4 DEF FinishPub, Related, RowsExist, NamesExist
  <2>3. QED
    BY <1>1, <1>2, <2>1, <2>2, PubStatusStep
<1>5. CASE FailPub(s)
  <2>1. /\ UNCHANGED article
        /\ pubs' = [pubs EXCEPT ![p].status = "failed"] /\ proc' = [proc EXCEPT ![s] = Idle]
    BY <1>1, <1>5 DEF FailPub, Ends
  <2>2. QED
    BY <1>1, <1>2, <2>1, PubStatusStep
<1>6. CASE WriteCancel(s)
  <2>1. /\ UNCHANGED article
        /\ pubs' = [pubs EXCEPT ![p].status = "cancelled"] /\ proc' = [proc EXCEPT ![s] = Idle]
    BY <1>1, <1>6 DEF WriteCancel, Ends
  <2>2. "publication" \notin overlapped => ~Reached(p)
    BY <1>1, <1>6 DEF WriteCancel, Related, PubsAlone, Reached
  <2>3. QED
    BY <1>1, <1>2, <2>1, <2>2, PubStatusStep
<1>7. QED
  BY <1>3, <1>4, <1>5, <1>6

LEMMA InsertPubKeeps ==
    ASSUME TypeInv, Related, NEW s \in Sessions, InsertPub(s)
    PROVE  Related'
<1>1. PICK p \in PubIds :
        /\ pubs[p].status = "none"
        /\ pubs' = [pubs EXCEPT ![p] =
                      [status |-> "prepared", body |-> proc[s].body, raw |-> proc[s].raw,
                       post |-> proc[s].post, source |-> proc[s].run]]
  BY DEF InsertPub, Unused
<1>2. /\ pubs'[p].status = "prepared" /\ pubs'[p].post = proc[s].post
      /\ \A q \in PubIds : q # p => pubs'[q] = pubs[q]
  BY <1>1 DEF TypeInv, ArticleTypeOK
<1>3. /\ proc' = [proc EXCEPT ![s] = Idle] /\ Idle.pc = "idle"
      /\ proc'[s] = Idle /\ \A t \in Sessions : t # s => proc'[t] = proc[t]
      /\ proc[s].pc = "pubInsert"
      /\ UNCHANGED <<article, posts, wire, overlapped>>
  BY ProcAfter, PCFacts DEF InsertPub, Ends, world
<1>4. Exists(proc[s].post) /\ Exists(article.post)
  BY <1>3 DEF Related, RowsExist, NamesExist
<1>5. Exists(article.post)' /\ \A i : Exists(i) => Exists(i)'
  BY <1>3, <1>4, SamePosts DEF Exists
<1>6. DraftRequests' = DraftRequests /\ PubRequests' = PubRequests /\ Existing' = Existing
  BY <1>3, SamePosts DEF DraftRequests, PubRequests
<1>7. RowsExist'
  <2>1. Grows
    BY <1>1, <1>2, <1>3, <1>5, SamePosts DEF Grows
  <2>2. NamesExist(s)'
    BY <1>3, PCFacts DEF NamesExist
  <2>3. \A t \in Sessions : NamesExist(t)'
    BY <1>3, <2>1, <2>2, OthersNamesExist DEF Related
  <2>4. (\A r \in PubRequests : pubs[r.run].status # "none")'
    <3>1. \A r \in PubRequests : r.run \in PubIds /\ pubs[r.run].status # "none"
      BY DEF Related, RowsExist, PubRequests, TypeInv, Requests
    <3>2. QED
      BY <1>2, <1>6, <3>1
  <2>5. (\A q \in PubIds : pubs[q].status # "none" => Exists(pubs[q].post) /\ Exists(article.post))'
    <3>1. \A q \in PubIds : pubs'[q].status # "none" => Exists(pubs'[q].post)
      BY <1>2, <1>4 DEF Related, RowsExist
    <3>2. QED
      BY <1>3, <1>5, <3>1 DEF Exists
  <2>6. QED
    BY <1>5, <2>3, <2>4, <2>5 DEF RowsExist
<1>8. ASSUME "draft" \notin overlapped
      PROVE  DraftsAlone'
  <2>0. DraftsAlone
    BY <1>8 DEF Related
  <2>1. \A t \in Sessions : proc'[t].pc \in DraftPCs => proc'[t] = proc[t]
    BY <1>3, PCFacts
  <2>2. \A t \in Sessions : proc'[t].pc = "pubInsert" => proc'[t] = proc[t]
    BY <1>3
  <2>3. pubs'[p].post = article.post
    BY <1>2, <1>3, <2>0 DEF DraftsAlone
  <2>4. \A q \in PubIds : pubs'[q].status # "none" =>
          \/ pubs[q].status # "none" /\ pubs'[q].post = pubs[q].post
          \/ pubs'[q].post = article.post
    BY <1>2, <2>3
  <2>5. QED
    BY <1>3, <1>6, <2>0, <2>1, <2>2, <2>4, DraftsUndisturbed, SamePosts DEF Related
<1>9. ASSUME "publication" \notin overlapped
      PROVE  PubsAlone'
  <2>0. PubsAlone
    BY <1>9 DEF Related
  <2>1. \A t \in Sessions : proc'[t].pc \in PubPCs => proc'[t] = proc[t] /\ proc[t].run # p
                                                       /\ proc[t].run \in PubIds
    BY <1>1, <1>3, PCFacts DEF Related, RowsExist, NamesExist, TypeInv
  <2>2. \A q \in PubIds : Reached(q) => q # p /\ Reached(q)'
    BY <1>1, <1>2 DEF Reached
  <2>3. (\A t, u \in Sessions : proc[t].pc \in PubPCs /\ proc[u].pc \in PubPCs => t = u)'
    BY <2>0, <2>1 DEF PubsAlone
  <2>4. (\A t \in Sessions :
           /\ proc[t].pc \in {"pubPreflight", "pubMark", "cancelWrite"} =>
                 pubs[proc[t].run].status = "prepared"
           /\ proc[t].pc \in {"pubPost", "pubReadback", "pubFinish", "pubFail"} =>
                 pubs[proc[t].run].status = "running")'
    BY <1>2, <2>0, <2>1, PCFacts DEF PubsAlone
  <2>5. (\A r \in PubRequests : Reached(r.run))'
    <3>1. \A r \in PubRequests : r.run \in PubIds /\ Reached(r.run)
      BY <2>0 DEF PubsAlone, PubRequests, TypeInv, Requests
    <3>2. QED
      BY <1>6, <2>2, <3>1 DEF Reached
  <2>6. (\A i \in PostIds : Public(i) => \E q \in PubIds : pubs[q].post = i /\ Reached(q))'
    <3>1. \A i \in PostIds : Public(i)' => \E q \in PubIds : pubs'[q].post = i /\ Reached(q)'
      BY <1>2, <1>3, <2>0, <2>2, SamePosts DEF PubsAlone
    <3>2. QED
      BY <3>1
  <2>7. QED
    BY <2>3, <2>4, <2>5, <2>6 DEF PubsAlone
<1>10. QED
  BY <1>1, <1>2, <1>3, <1>7, <1>8, <1>9 DEF Related, Finished

\* A publish request is sent, or lands: it makes public what its run names.
LEMMA PublishKeeps ==
    ASSUME TypeInv, Related, UNCHANGED <<article, pubs, overlapped>>,
           NEW p \in PubIds, pubs[p].status # "none",
           "publication" \notin overlapped => Reached(p),
           posts' = [posts EXCEPT ![pubs[p].post].status = "publish"] \/ UNCHANGED posts,
           DraftRequests' = DraftRequests,
           \A r \in PubRequests' : r \in PubRequests \/ r.run = p,
           \A t \in Sessions :
             \/ proc'[t] = proc[t]
             \/ /\ proc[t].pc = "pubPost" /\ proc'[t].pc \in {"pubReadback", "pubFail"}
                /\ proc'[t].run = proc[t].run
    PROVE  Related'
<1>0. PICK i0 : i0 = pubs[p].post
  OBVIOUS
<1>1. Exists(i0) /\ Exists(article.post)
  BY <1>0 DEF Related, RowsExist
<1>2. /\ \A i \in PostIds : posts'[i].status = posts[i].status \/ (i = i0 /\ Public(i)')
      /\ \A i \in PostIds : Exists(i) <=> Exists(i)'
  <2>1. posts \in [PostIds -> PostRows] /\ i0 \in PostIds
    BY <1>1 DEF Exists, TypeInv, ArticleTypeOK, PostRows
  <2>2. posts' = [posts EXCEPT ![i0].status = "publish"] \/ UNCHANGED posts
    BY <1>0
  <2>3. \A i \in PostIds :
          \/ posts'[i].status = posts[i].status
          \/ i = i0 /\ posts'[i].status = "publish"
    BY <2>1, <2>2 DEF PostRows
  <2>4. posts[i0].status # "none"
    BY <1>1 DEF Exists
  <2>5. QED
    BY <2>3, <2>4 DEF Exists, Public
<1>3. /\ \A i : Exists(i) => Exists(i)'
      /\ \A i \in PostIds : Public(i) => Public(i)'
      /\ \A i \in PostIds : Public(i)' => Public(i) \/ i = i0
      /\ Existing' = Existing /\ Exists(article.post)'
  BY <1>1, <1>2 DEF Exists, Public, Existing
<1>4. RowsExist'
  <2>1. Grows
    BY <1>3 DEF Grows
  <2>2. ASSUME NEW t \in Sessions
        PROVE  NamesExist(t)'
    <3>1. CASE proc'[t] = proc[t]
      BY <2>1, <3>1, OthersNamesExist DEF Related
    <3>2. CASE proc[t].pc = "pubPost" /\ proc'[t].pc \in {"pubReadback", "pubFail"}
               /\ proc'[t].run = proc[t].run
      BY <3>2, PCFacts DEF NamesExist, Related, RowsExist
    <3>3. QED
      BY <3>1, <3>2
  <2>3. (\A r \in PubRequests : pubs[r.run].status # "none")'
    BY DEF Related, RowsExist
  <2>4. (\A q \in PubIds : pubs[q].status # "none" => Exists(pubs[q].post) /\ Exists(article.post))'
    BY <1>3 DEF Related, RowsExist
  <2>5. QED
    BY <1>3, <2>2, <2>3, <2>4 DEF RowsExist
<1>5. "draft" \notin overlapped => DraftsAlone'
  <2>1. \A t \in Sessions :
          /\ proc'[t].pc \in DraftPCs => proc'[t] = proc[t]
          /\ proc'[t].pc = "pubInsert" => proc'[t] = proc[t]
    BY PCFacts
  <2>2. QED
    BY <1>3, <2>1, DraftsUndisturbed DEF Related
<1>6. ASSUME "publication" \notin overlapped
      PROVE  PubsAlone'
  <2>0. PubsAlone
    BY <1>6 DEF Related
  <2>1. \A t \in Sessions : proc'[t].pc \in PubPCs => proc[t].pc \in PubPCs
    BY PCFacts
  <2>2. (\A t, u \in Sessions : proc[t].pc \in PubPCs /\ proc[u].pc \in PubPCs => t = u)'
    BY <2>0, <2>1 DEF PubsAlone
  <2>3. (\A t \in Sessions :
           /\ proc[t].pc \in {"pubPreflight", "pubMark", "cancelWrite"} =>
                 pubs[proc[t].run].status = "prepared"
           /\ proc[t].pc \in {"pubPost", "pubReadback", "pubFinish", "pubFail"} =>
                 pubs[proc[t].run].status = "running")'
    BY <2>0 DEF PubsAlone
  <2>4. (\A r \in PubRequests : Reached(r.run))'
    BY <1>6, <2>0 DEF PubsAlone, Reached
  <2>5. (\A i \in PostIds : Public(i) => \E q \in PubIds : pubs[q].post = i /\ Reached(q))'
    <3>1. \A i \in PostIds : Public(i)' => \E q \in PubIds : pubs[q].post = i /\ Reached(q)
      BY <1>0, <1>3, <1>6, <2>0 DEF PubsAlone
    <3>2. QED
      BY <3>1 DEF Reached
  <2>6. QED
    BY <2>2, <2>3, <2>4, <2>5 DEF PubsAlone
<1>7. QED
  BY <1>4, <1>5, <1>6 DEF Related, Finished

LEMMA PostPubKeeps ==
    ASSUME TypeInv, Related, NEW s \in Sessions, PostPub(s)
    PROVE  Related'
<1>1. PICK p \in PubIds : p = proc[s].run
  BY PCFacts DEF PostPub, TypeInv
<1>2. pubs[p].status # "none" /\ ("publication" \notin overlapped => Reached(p))
  BY <1>1, PCFacts DEF PostPub, Related, RowsExist, NamesExist, PubsAlone, Reached
<1>3. /\ UNCHANGED <<article, pubs, overlapped>>
      /\ posts' = [posts EXCEPT ![pubs[p].post].status = "publish"] \/ UNCHANGED posts
      /\ wire' \in {wire, wire \cup {[kind |-> "publication", run |-> p]}}
  BY <1>1 DEF PostPub, runs
<1>4. /\ DraftRequests' = DraftRequests
      /\ \A r \in PubRequests' : r \in PubRequests \/ r.run = p
  BY <1>3 DEF DraftRequests, PubRequests
<1>5. \E pc \in {"pubReadback", "pubFail"} :
        proc' = [proc EXCEPT ![s].pc = pc, ![s].seen = pubs[p].status]
  BY <1>1 DEF PostPub
<1>6. /\ proc[s].pc = "pubPost" /\ proc'[s].pc \in {"pubReadback", "pubFail"}
      /\ proc'[s].run = proc[s].run
      /\ \A t \in Sessions : t # s => proc'[t] = proc[t]
  BY <1>5 DEF PostPub, TypeInv, Session
<1>7. QED
  BY <1>2, <1>3, <1>4, <1>6, PublishKeeps

LEMMA LandPubKeeps ==
    ASSUME TypeInv, Related, NEW r \in wire, LandPub(r)
    PROVE  Related'
<1>1. r \in PubRequests /\ r.kind = "publication"
  BY DEF LandPub, PubRequests
<1>2. PICK p \in PubIds : p = r.run
  BY <1>1 DEF TypeInv, Requests
<1>3. pubs[p].status # "none" /\ ("publication" \notin overlapped => Reached(p))
  BY <1>1, <1>2 DEF Related, RowsExist, PubsAlone
<1>4. /\ UNCHANGED <<article, pubs, overlapped, proc>>
      /\ posts' = [posts EXCEPT ![pubs[p].post].status = "publish"]
      /\ wire' = wire \ {r}
  BY <1>2 DEF LandPub, runs
<1>5. DraftRequests' = DraftRequests /\ PubRequests' \subseteq PubRequests
  BY <1>1, <1>4 DEF DraftRequests, PubRequests
<1>6. QED
  BY <1>3, <1>4, <1>5, PublishKeeps

----------------------------------------------------------------------------
(* The slugs of the posts.                                                 *)

\* A row of a draft run is never taken back, and its name never changes.
RowsKept ==
    \A d \in DraftIds : drafts[d].status # "none" =>
        (drafts[d].status)' # "none" /\ (drafts[d].name)' = drafts[d].name

LEMMA RowsKeptStep ==
    ASSUME TypeInv, NEW s \in Sessions, Drafting(s)
    PROVE  RowsKept
<1>1. drafts \in [DraftIds -> DraftRows]
  BY DEF TypeInv, ArticleTypeOK
<1>2. CASE InsertDraft(s)
  <2>1. PICK d \in DraftIds :
          /\ drafts[d].status = "none"
          /\ drafts' = [drafts EXCEPT ![d] =
                          [status |-> "prepared", body |-> proc[s].body,
                           name |-> proc[s].name, post |-> 0]]
    BY <1>2 DEF InsertDraft, Unused
  <2>2. QED
    BY <1>1, <2>1 DEF RowsKept
<1>3. CASE MarkDraft(s) \/ SaveDraft(s) \/ FailDraft(s)
  <2>1. PICK d \in DraftIds : d = proc[s].run
    BY <1>3, PCFacts DEF MarkDraft, SaveDraft, FailDraft, TypeInv
  <2>2. \/ drafts' = [drafts EXCEPT ![d].status = "running"]
        \/ drafts' = [drafts EXCEPT ![d].status = "failed"]
        \/ drafts' = [drafts EXCEPT ![d].status = "succeeded", ![d].post = proc[s].post]
    BY <1>3, <2>1 DEF MarkDraft, SaveDraft, FailDraft
  <2>3. QED
    BY <1>1, <2>2 DEF RowsKept, DraftRows
<1>4. CASE UNCHANGED drafts
  BY <1>4 DEF RowsKept
<1>5. QED
  BY <1>2, <1>3, <1>4
  DEF Drafting, PrepareDraft, BeginDraft, PreflightDraft, PostDraft, runs

\* No post is made, and what goes on or is on its way has a free slug.
LEMMA SlugsKept ==
    ASSUME SlugsApart, RowsKept, Existing' = Existing,
           \A i \in Existing : posts'[i].name = posts[i].name,
           \A t \in Sessions : proc'[t].pc \in DraftPCs =>
               proc'[t].run \in DraftIds /\ drafts[proc'[t].run].status # "none",
           \A t \in Sessions : proc'[t].pc \in {"draftMark", "draftPost"} =>
               NoPostOf(proc'[t].run),
           \A r \in DraftRequests' :
               /\ r.run \in DraftIds /\ drafts[r.run].status # "none"
               /\ NoPostOf(r.run)
    PROVE  SlugsApart'
<1>1. \A d \in DraftIds : drafts[d].status # "none" =>
        /\ (drafts[d].status)' # "none"
        /\ NoPostOf(d) => NoPostOf(d)'
  BY DEF RowsKept, NoPostOf
<1>2. {"draftMark", "draftPost"} \subseteq DraftPCs
  BY PCFacts
<1>3. (\A s \in Sessions :
         /\ proc[s].pc \in DraftPCs => drafts[proc[s].run].status # "none"
         /\ proc[s].pc \in {"draftMark", "draftPost"} => NoPostOf(proc[s].run))'
  <2>1. TAKE s \in Sessions
  <2>2. CASE proc'[s].pc \in DraftPCs
    <3>1. PICK d \in DraftIds : d = proc'[s].run
      BY <2>2
    <3>2. (drafts[d].status)' # "none" /\ (NoPostOf(d) => NoPostOf(d)')
      BY <1>1, <2>2, <3>1
    <3>3. proc'[s].pc \in {"draftMark", "draftPost"} => NoPostOf(d)'
      BY <3>1, <3>2
    <3>4. QED
      BY <3>1, <3>2, <3>3 DEF NoPostOf
  <2>3. CASE proc'[s].pc \notin DraftPCs
    BY <1>2, <2>3
  <2>4. QED
    BY <2>2, <2>3
<1>4. (\A r \in DraftRequests : drafts[r.run].status # "none" /\ NoPostOf(r.run))'
  <2>1. TAKE r \in DraftRequests'
  <2>2. PICK d \in DraftIds : d = r.run
    OBVIOUS
  <2>3. (drafts[d].status)' # "none" /\ NoPostOf(d)'
    BY <1>1, <2>2
  <2>4. QED
    BY <2>2, <2>3 DEF NoPostOf
<1>5. (\A i, j \in Existing : i # j => SlugOf[posts[i].name] # SlugOf[posts[j].name])'
  BY DEF SlugsApart
<1>6. QED
  BY <1>3, <1>4, <1>5 DEF SlugsApart

\* Sessions that were drafting go no further, and no request is sent.
LEMMA SlugsUndisturbed ==
    ASSUME TypeInv, SlugsApart, RowsKept, Existing' = Existing,
           \A i \in Existing : posts'[i].name = posts[i].name,
           \A t \in Sessions : proc'[t].pc \in DraftPCs => proc'[t] = proc[t],
           DraftRequests' \subseteq DraftRequests
    PROVE  SlugsApart'
<1>1. \A t \in Sessions : proc'[t].pc \in DraftPCs =>
        proc'[t].run \in DraftIds /\ drafts[proc'[t].run].status # "none"
  BY DEF TypeInv, SlugsApart
<1>2. \A t \in Sessions : proc'[t].pc \in {"draftMark", "draftPost"} =>
        NoPostOf(proc'[t].run)
  BY PCFacts DEF SlugsApart
<1>3. \A r \in DraftRequests' :
        /\ r.run \in DraftIds /\ drafts[r.run].status # "none"
        /\ NoPostOf(r.run)
  BY DEF SlugsApart, DraftRequests, TypeInv, Requests
<1>4. QED
  BY <1>1, <1>2, <1>3, SlugsKept

\* A run whose slug is free makes its post, and no other is near its own.
LEMMA SlugsGrow ==
    ASSUME TypeInv, SlugsApart, NEW d \in DraftIds, NoPostOf(d),
           posts' \in Created(d), UNCHANGED drafts, DraftRequests' = {},
           \A t \in Sessions :
             /\ proc'[t].pc \notin {"draftMark", "draftPost"}
             /\ proc'[t].pc \in DraftPCs => drafts[proc'[t].run].status # "none"
    PROVE  SlugsApart'
<1>1. PICK j \in PostIds :
        /\ posts[j].status = "none" /\ Existing' = Existing \cup {j}
        /\ posts'[j].name = drafts[d].name
        /\ \A i \in Existing : posts'[i] = posts[i]
  BY CreatedGrows
<1>2. \A i, k \in Existing' : i # k => SlugOf[posts'[i].name] # SlugOf[posts'[k].name]
  <2>1. \A i, k \in Existing : i # k => SlugOf[posts[i].name] # SlugOf[posts[k].name]
    BY DEF SlugsApart
  <2>2. \A i \in Existing : SlugOf[posts'[i].name] # SlugOf[posts'[j].name]
    BY <1>1 DEF NoPostOf
  <2>3. QED
    BY <1>1, <2>1, <2>2
<1>3. QED
  BY <1>2 DEF SlugsApart

\* What a publication changes of the posts is their status.
LEMMA PublishedNames ==
    ASSUME TypeInv, NEW i, Exists(i), posts' = [posts EXCEPT ![i].status = "publish"]
    PROVE  Existing' = Existing /\ \A k \in Existing : posts'[k].name = posts[k].name
<1>1. posts \in [PostIds -> PostRows] /\ i \in PostIds /\ posts[i].status # "none"
  BY DEF TypeInv, ArticleTypeOK, Exists
<1>2. /\ posts'[i].status = "publish" /\ posts'[i].name = posts[i].name
      /\ \A k \in PostIds : k # i => posts'[k] = posts[k]
  BY <1>1 DEF PostRows
<1>3. QED
  BY <1>1, <1>2 DEF Existing

\* A publication, and a session that ends, leave the drafting alone.
LEMMA PublishingSlugs ==
    ASSUME TypeInv, Related, SlugsApart, NEW s \in Sessions, Publishing(s) \/ Stops(s)
    PROVE  SlugsApart'
<1>1. UNCHANGED drafts
  BY DEF Publishing, Stops, PreparePub, InsertPub, BeginPub, BeginCancel, PreflightPub,
         MarkPub, PostPub, ReadBack, FinishPub, FailPub, WriteCancel, runs
<1>2. \A t \in Sessions : proc'[t].pc \in DraftPCs => proc'[t] = proc[t]
  <2>1. CASE proc' = [proc EXCEPT ![s] = Idle]
    BY <2>1, ProcAfter, PCFacts
  <2>2. ASSUME NEW d \in DraftIds, PreparePub(s, d)
        PROVE  proc'[s].pc = "pubInsert" /\ \A t \in Sessions : t # s => proc'[t] = proc[t]
    BY <2>2 DEF PreparePub, TypeInv, Idle
  <2>3. ASSUME NEW p \in PubIds, BeginPub(s, p) \/ BeginCancel(s, p)
        PROVE  /\ proc'[s].pc \in {"pubPreflight", "cancelWrite"}
               /\ \A t \in Sessions : t # s => proc'[t] = proc[t]
    BY <2>3 DEF BeginPub, BeginCancel, TypeInv, Idle
  <2>4. ASSUME NEW pc \in {"pubMark", "pubPost", "pubFinish"}, Goto(s, pc)
        PROVE  proc'[s].pc = pc /\ \A t \in Sessions : t # s => proc'[t] = proc[t]
    BY <2>4 DEF Goto, TypeInv, Session
  <2>5. ASSUME PostPub(s)
        PROVE  /\ proc'[s].pc \in {"pubReadback", "pubFail"}
               /\ \A t \in Sessions : t # s => proc'[t] = proc[t]
    BY <2>5 DEF PostPub, TypeInv, Session
  <2>6. QED
    BY <2>1, <2>2, <2>3, <2>4, <2>5, PCFacts
    DEF Publishing, Stops, InsertPub, PreflightPub, MarkPub, ReadBack, FinishPub, FailPub,
        WriteCancel, Ends
<1>3. Existing' = Existing /\ (\A k \in Existing : posts'[k].name = posts[k].name)
      /\ DraftRequests' = DraftRequests
  <2>1. CASE PostPub(s)
    <3>1. PICK p \in PubIds : p = proc[s].run
      BY <2>1, PCFacts DEF PostPub, TypeInv
    <3>2. Exists(pubs[p].post)
      BY <2>1, <3>1, PCFacts DEF PostPub, Related, RowsExist, NamesExist
    <3>3. /\ posts' = [posts EXCEPT ![pubs[p].post].status = "publish"] \/ UNCHANGED posts
          /\ wire' \in {wire, wire \cup {[kind |-> "publication", run |-> p]}}
      BY <2>1, <3>1 DEF PostPub
    <3>4. QED
      BY <3>2, <3>3, PublishedNames, SamePosts DEF DraftRequests
  <2>2. CASE UNCHANGED <<posts, wire>>
    BY <2>2, SamePosts DEF DraftRequests
  <2>3. QED
    BY <2>1, <2>2
    DEF Publishing, Stops, PreparePub, InsertPub, BeginPub, BeginCancel, PreflightPub,
        MarkPub, ReadBack, FinishPub, FailPub, WriteCancel, world
<1>4. QED
  BY <1>1, <1>2, <1>3, SlugsUndisturbed DEF RowsKept

\* An execution that finds its slug free keeps it free until its POST.
LEMMA PreflightSlugs ==
    ASSUME TypeInv, Related, NEW s \in Sessions, PreflightDraft(s), "draft" \notin overlapped,
           ~SlugTaken(SlugOf[drafts[proc[s].run].name])
    PROVE  NoPostOf(proc[s].run)
<1>1. article.post = 0
  BY PCFacts DEF PreflightDraft, Related, DraftsAlone
<1>2. \A i \in PostIds : ~Public(i)
  BY <1>1, Bounds DEF Related, RowsExist, Exists
<1>3. \A i \in Existing : posts[i].status = "draft"
  BY <1>2 DEF TypeInv, ArticleTypeOK, PostRows, Public, Existing
<1>4. QED
  BY <1>3 DEF SlugTaken, NoPostOf, Existing

LEMMA PostDraftSlugs ==
    ASSUME TypeInv, Related, SlugsApart, "draft" \notin overlapped,
           NEW s \in Sessions, PostDraft(s)
    PROVE  SlugsApart'
<1>1. PICK d \in DraftIds : d = proc[s].run
  BY PCFacts DEF PostDraft, TypeInv
<1>2. /\ drafts[d].status # "none" /\ NoPostOf(d) /\ UNCHANGED drafts
      /\ DraftRequests = {} /\ \A t \in Sessions \ {s} : proc[t].pc \notin DraftPCs
  BY <1>1, PCFacts DEF PostDraft, SlugsApart, Related, DraftsAlone, runs
<1>3. PICK v :
        /\ proc' = [proc EXCEPT ![s] = v] /\ v.run = d
        /\ v.pc \in {"draftFail", "draftSave"}
        /\ \/ posts' \in Created(d) /\ UNCHANGED wire
           \/ /\ wire' \in {wire, wire \cup {[kind |-> "draft", run |-> d]}}
              /\ UNCHANGED posts
  BY <1>1, PostDraftDoes
<1>4. proc'[s] = v /\ \A t \in Sessions : t # s => proc'[t] = proc[t]
  BY <1>3, ProcAfter
<1>5. \A t \in Sessions :
        /\ proc'[t].pc \notin {"draftMark", "draftPost"}
        /\ proc'[t].pc \in DraftPCs => proc'[t].run = d
  BY <1>2, <1>3, <1>4, PCFacts
<1>6. CASE posts' \in Created(d) /\ UNCHANGED wire
  <2>1. DraftRequests' = {}
    BY <1>2, <1>6 DEF DraftRequests
  <2>2. QED
    BY <1>2, <1>5, <1>6, <2>1, SlugsGrow
<1>7. CASE wire' \in {wire, wire \cup {[kind |-> "draft", run |-> d]}} /\ UNCHANGED posts
  <2>1. \A r \in DraftRequests' : r.run = d
    BY <1>2, <1>7 DEF DraftRequests
  <2>2. RowsKept
    BY <1>2 DEF RowsKept
  <2>3. QED
    BY <1>2, <1>5, <1>7, <2>1, <2>2, SamePosts, SlugsKept
<1>8. QED
  BY <1>3, <1>6, <1>7

LEMMA LandDraftSlugs ==
    ASSUME TypeInv, Related, SlugsApart, "draft" \notin overlapped,
           NEW r \in wire, LandDraft(r)
    PROVE  SlugsApart'
<1>1. r \in DraftRequests
  BY DEF LandDraft, DraftRequests
<1>2. PICK d \in DraftIds : d = r.run
  BY <1>1 DEF DraftRequests, TypeInv, Requests
<1>3. NoPostOf(d) /\ posts' \in Created(d) /\ UNCHANGED <<drafts, proc>>
  BY <1>1, <1>2 DEF SlugsApart, LandDraft, runs
<1>4. DraftRequests' = {}
  BY <1>1 DEF LandDraft, DraftRequests, Related, DraftsAlone
<1>5. \A t \in Sessions :
        /\ proc[t].pc \notin {"draftMark", "draftPost"}
        /\ proc[t].pc \in DraftPCs => drafts[proc[t].run].status # "none"
  BY <1>1, PCFacts DEF Related, DraftsAlone, SlugsApart
<1>6. QED
  BY <1>3, <1>4, <1>5, SlugsGrow

\* A step of a draft execution that contacts nobody, or only looks the slug up.
LEMMA DraftingSlugs ==
    ASSUME TypeInv, Related, SlugsApart, "draft" \notin overlapped,
           NEW s \in Sessions, Drafting(s)
    PROVE  SlugsApart'
<1>1. CASE PostDraft(s)
  BY <1>1, PostDraftSlugs
<1>2. CASE ~PostDraft(s)
  <2>1. RowsKept /\ TypeInv'
    BY RowsKeptStep, DraftingTypes
  <2>2. Existing' = Existing /\ UNCHANGED <<posts, wire>> /\ DraftRequests' = DraftRequests
    <3>1. UNCHANGED <<posts, wire>>
      BY <1>2 DEF Drafting, PrepareDraft, InsertDraft, BeginDraft, PreflightDraft, MarkDraft,
                  SaveDraft, FailDraft, world
    <3>2. QED
      BY <3>1, SamePosts DEF DraftRequests
  <2>3. \A t \in Sessions : t # s => proc'[t] = proc[t]
    BY <1>2 DEF Drafting, PrepareDraft, InsertDraft, BeginDraft, PreflightDraft, MarkDraft,
                SaveDraft, FailDraft, Goto, Ends, TypeInv
  <2>4. /\ proc'[s].pc \in DraftPCs => drafts[proc'[s].run].status # "none"
        /\ proc'[s].pc \in {"draftMark", "draftPost"} => NoPostOf(proc'[s].run)
    <3>1. CASE PrepareDraft(s) \/ InsertDraft(s) \/ SaveDraft(s) \/ FailDraft(s)
      <4>1. proc'[s].pc \in {"draftInsert", "idle"}
        BY <3>1, PCFacts DEF PrepareDraft, InsertDraft, SaveDraft, FailDraft, Ends, TypeInv,
                             Session
      <4>2. QED
        BY <4>1, PCFacts
    <3>2. ASSUME NEW d \in DraftIds, BeginDraft(s, d)
          PROVE  proc'[s].pc = "draftPreflight" /\ drafts[proc'[s].run].status # "none"
      BY <3>2 DEF BeginDraft, TypeInv, Idle
    <3>3. CASE PreflightDraft(s)
      <4>1. CASE Ends(s)
        <5>1. proc'[s].pc = "idle"
          BY <4>1, PCFacts DEF Ends, TypeInv
        <5>2. QED
          BY <5>1, PCFacts
      <4>2. CASE ~Ends(s)
        <5>1. NoPostOf(proc[s].run) /\ Goto(s, "draftMark")
          BY <3>3, <4>2, PreflightSlugs DEF PreflightDraft
        <5>2. proc'[s].run = proc[s].run /\ drafts[proc[s].run].status # "none"
          BY <3>3, <5>1, PCFacts DEF Goto, TypeInv, Session, PreflightDraft, SlugsApart
        <5>3. QED
          BY <5>1, <5>2
      <4>3. QED
        BY <4>1, <4>2
    <3>4. CASE MarkDraft(s)
      <4>1. proc'[s].run = proc[s].run
        BY <3>4 DEF MarkDraft, Goto, TypeInv, Session
      <4>2. NoPostOf(proc[s].run) /\ drafts[proc[s].run].status # "none"
        BY <3>4, PCFacts DEF MarkDraft, SlugsApart
      <4>3. QED
        BY <4>1, <4>2
    <3>5. QED
      BY <1>2, <3>1, <3>2, <3>3, <3>4 DEF Drafting
  <2>5. \A t \in Sessions : proc'[t].pc \in DraftPCs =>
          proc'[t].run \in DraftIds /\ drafts[proc'[t].run].status # "none"
    BY <2>1, <2>3, <2>4 DEF TypeInv, SlugsApart
  <2>6. \A t \in Sessions : proc'[t].pc \in {"draftMark", "draftPost"} =>
          NoPostOf(proc'[t].run)
    BY <2>3, <2>4 DEF SlugsApart
  <2>7. \A r \in DraftRequests' :
          /\ r.run \in DraftIds /\ drafts[r.run].status # "none"
          /\ NoPostOf(r.run)
    BY <2>2 DEF SlugsApart, DraftRequests, TypeInv, Requests
  <2>8. QED
    BY <2>1, <2>2, <2>5, <2>6, <2>7, SlugsKept
<1>3. QED
  BY <1>1, <1>2

LEMMA SlugsStep ==
    ASSUME TypeInv, Related, Slugs, [Next]_vars
    PROVE  Slugs'
<1>1. overlapped \subseteq overlapped'
  <2>1. ASSUME NEW s \in Sessions, Drafting(s)
        PROVE  overlapped \subseteq overlapped'
    BY <2>1 DEF Drafting, PrepareDraft, InsertDraft, BeginDraft, PreflightDraft, MarkDraft,
                PostDraft, SaveDraft, FailDraft, Note
  <2>2. ASSUME NEW s \in Sessions, Publishing(s) \/ Stops(s)
        PROVE  overlapped \subseteq overlapped'
    BY <2>2 DEF Publishing, PreparePub, InsertPub, BeginPub, BeginCancel, PreflightPub, MarkPub,
                PostPub, ReadBack, FinishPub, FailPub, WriteCancel, Stops, Note
  <2>3. CASE Writing
    BY <2>3 DEF Writing, PrepareGen, ExecuteGen, SubmitResult, Promote, Revise, Patch, ChangeStatus
  <2>4. CASE \/ Approve \/ UNCHANGED vars
             \/ \E r \in wire : LandDraft(r) \/ LandPub(r)
             \/ \E i \in PostIds, b \in Bodies : EditPost(i, b)
    BY <2>4 DEF Approve, vars, LandDraft, LandPub, EditPost
  <2>5. QED
    BY <2>1, <2>2, <2>3, <2>4 DEF Next
<1>2. SUFFICES ASSUME "draft" \notin overlapped, SlugsApart
               PROVE  SlugsApart'
  BY <1>1 DEF Slugs
<1>3. ASSUME NEW s \in Sessions, Drafting(s)
      PROVE  SlugsApart'
  BY <1>2, <1>3, DraftingSlugs
<1>4. ASSUME NEW s \in Sessions, Publishing(s) \/ Stops(s)
      PROVE  SlugsApart'
  BY <1>2, <1>4, PublishingSlugs
<1>5. ASSUME NEW r \in wire, LandDraft(r)
      PROVE  SlugsApart'
  BY <1>2, <1>5, LandDraftSlugs
<1>6. ASSUME NEW r \in wire, LandPub(r)
      PROVE  SlugsApart'
  <2>1. PICK p \in PubIds : p = r.run
    BY <1>6 DEF LandPub, TypeInv, Requests
  <2>2. Exists(pubs[p].post)
    BY <1>6, <2>1 DEF LandPub, PubRequests, Related, RowsExist
  <2>3. posts' = [posts EXCEPT ![pubs[p].post].status = "publish"]
        /\ DraftRequests' \subseteq DraftRequests /\ UNCHANGED <<drafts, proc>>
    BY <1>6, <2>1 DEF LandPub, DraftRequests, runs
  <2>4. QED
    BY <1>2, <2>2, <2>3, PublishedNames, SlugsUndisturbed DEF RowsKept
<1>7. CASE \/ Writing \/ Approve \/ UNCHANGED vars
           \/ \E i \in PostIds, b \in Bodies : EditPost(i, b)
  <2>1. UNCHANGED <<drafts, wire, proc>>
    BY <1>7 DEF Writing, Approve, vars, EditPost, PrepareGen, ExecuteGen, SubmitResult, Promote,
                Revise, Patch, ChangeStatus, runs, world
  <2>2. \A i \in PostIds : posts'[i].status = posts[i].status /\ posts'[i].name = posts[i].name
    <3>1. CASE UNCHANGED posts
      BY <3>1
    <3>2. ASSUME NEW i \in PostIds, NEW b \in Bodies, EditPost(i, b)
          PROVE  \A k \in PostIds :
                   posts'[k].status = posts[k].status /\ posts'[k].name = posts[k].name
      BY <3>2 DEF EditPost, TypeInv, ArticleTypeOK, PostRows
    <3>3. QED
      BY <1>7, <3>1, <3>2
      DEF Writing, Approve, vars, PrepareGen, ExecuteGen, SubmitResult, Promote,
          Revise, Patch, ChangeStatus, runs, world
  <2>3. Existing' = Existing /\ DraftRequests' = DraftRequests
    BY <2>1, <2>2 DEF Existing, DraftRequests
  <2>4. QED
    BY <1>2, <2>1, <2>2, <2>3, SlugsUndisturbed DEF RowsKept, Existing
<1>8. QED
  BY <1>3, <1>4, <1>5, <1>6, <1>7 DEF Next

----------------------------------------------------------------------------
(* The theorems.                                                           *)

LEMMA RelatedStep ==
    ASSUME TypeInv, Related, [Next]_vars
    PROVE  Related'
<1>1. ASSUME NEW s \in Sessions, Drafting(s)
      PROVE  Related'
  BY <1>1, LeavingSteps, BeginDraftKeeps, PreflightDraftKeeps, MarkDraftKeeps,
     PostDraftKeeps, SaveDraftKeeps DEF Drafting
<1>2. ASSUME NEW s \in Sessions, Publishing(s)
      PROVE  Related'
  BY <1>2, PreparePubKeeps, InsertPubKeeps, BeginPubKeeps, PubReadsKeep, PostPubKeeps,
     PubStatusKeeps DEF Publishing
<1>3. ASSUME NEW s \in Sessions, Stops(s)
      PROVE  Related'
  BY <1>3, LeavingSteps
<1>4. ASSUME NEW r \in wire, LandDraft(r) \/ LandPub(r)
      PROVE  Related'
  BY <1>4, LandDraftKeeps, LandPubKeeps
<1>5. ASSUME \/ Writing \/ Approve \/ UNCHANGED vars
             \/ \E i \in PostIds, b \in Bodies : EditPost(i, b)
      PROVE  Related'
  BY <1>5, QuietSteps, QuietKeeps
<1>6. QED
  BY <1>1, <1>2, <1>3, <1>4, <1>5 DEF Next

LEMMA ArticleInitially ==
    ASSUME Init
    PROVE  ArticleInv
<1>1. \A s \in Sessions : proc[s] = Idle
  BY DEF Init
<1>2. wire = {} /\ DraftRequests = {} /\ PubRequests = {} /\ Existing = {}
  BY DEF Init, DraftRequests, PubRequests, Existing
<1>3. /\ \A p \in PubIds : pubs[p].status = "none"
      /\ \A i \in PostIds : posts[i].status = "none"
      /\ article.post = 0 /\ ~article.live
  BY DEF Init
<1>4. TypeInv
  <2>1. IsInjective(<<>>)
    BY DEF IsInjective
  <2>2. ArticleTypeOK
    BY <1>1, <2>1, PCFacts DEF Init, ArticleTypeOK, Articles, DraftRows, PostRows, Texts,
                            RunStatuses, Transitions, Idle
  <2>3. proc \in [Sessions -> Session]
    BY PCFacts DEF Init
  <2>4. QED
    BY <1>1, <1>2, <2>2, <2>3, PCFacts DEF TypeInv
<1>5. RowsExist
  BY <1>1, <1>2, <1>3, PCFacts DEF RowsExist, NamesExist, Public
<1>6. DraftsAlone
  BY <1>1, <1>2, <1>3, PCFacts DEF DraftsAlone
<1>7. PubsAlone
  BY <1>1, <1>2, <1>3, PCFacts DEF PubsAlone, Public
<1>8. Finished
  BY <1>3 DEF Finished
<1>9. Slugs
  BY <1>1, <1>2, PCFacts DEF Slugs, SlugsApart
<1>10. QED
  BY <1>4, <1>5, <1>6, <1>7, <1>8, <1>9 DEF ArticleInv, Related

\* At every time the rows, the sessions and WordPress fit together, and as long
\* as no two executions of a kind met each works on what it takes for granted.
THEOREM ArticleInvariant == ArticleSpec => []ArticleInv
<1>1. Init => ArticleInv
  BY ArticleInitially
<1>2. ArticleInv /\ [Next]_vars => ArticleInv'
  BY TypeStep, RelatedStep, SlugsStep DEF ArticleInv
<1>3. QED
  BY <1>1, <1>2, PTL DEF ArticleSpec

\* Every row, post and session holds a value its table allows, and no text is
\* recorded twice as a revision.
THEOREM ArticleTypeCorrect == ArticleSpec => []ArticleTypeOK
<1>1. ArticleInv => ArticleTypeOK
  BY DEF ArticleInv, TypeInv
<1>2. QED
  BY <1>1, ArticleInvariant, PTL

\* WordPress never gets two posts of the article with one slug unless draft
\* executions met: the lookup by slug and the one POST are enough, whatever
\* PATCH does to the name in between.
THEOREM OnePostCorrect == ArticleSpec => []OnePost
<1>1. ArticleInv => OnePost
  BY DEF ArticleInv, Slugs, SlugsApart, Existing, OnePost
<1>2. QED
  BY <1>1, ArticleInvariant, PTL

\* A public post has a publication run that says so or asks a person to look,
\* unless publication executions or cancellations met.
THEOREM LiveIsRecordedCorrect == ArticleSpec => []LiveIsRecorded
<1>1. ArticleInv => LiveIsRecorded
  BY DEF ArticleInv, Related, PubsAlone, LiveIsRecorded, Public, Reached
<1>2. QED
  BY <1>1, ArticleInvariant, PTL

\* An article with a public URL points to a post that is public, and that a
\* succeeded run published, unless executions of a kind met.
THEOREM PublishedIsLiveCorrect == ArticleSpec => []PublishedIsLive
<1>1. ArticleInv => PublishedIsLive
  BY DEF ArticleInv, Related, DraftsAlone, Finished, PublishedIsLive, Public
<1>2. QED
  BY <1>1, ArticleInvariant, PTL

=============================================================================
