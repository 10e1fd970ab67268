------------------------- MODULE ArticlePublication -------------------------
(***************************************************************************)
(* One article from its plan to its public page: the generation run that   *)
(* writes a draft, the promotion and the editorial revisions of its text,  *)
(* the WordPress draft run that creates the post, the approval, and the    *)
(* WordPress publication run that makes the post public.                   *)
(*                                                                         *)
(* A session is a request or a command somebody runs; it holds what it has *)
(* read (SessionLocal has expire_on_commit=False) and writes it over       *)
(* whatever is there by then, for no UPDATE compares what it replaces.     *)
(* Operations that contact nobody are one step, except the two prepares,   *)
(* which look for an active run before they insert theirs.  Bodies stand   *)
(* for a text and its meta description, names for a title and its slug; a  *)
(* post's content is the body that was rendered into it.                   *)
(***************************************************************************)
EXTENDS Integers, FiniteSets, Sequences, SequencesExt

CONSTANTS
    Sessions,     \* requests and commands under way
    Bodies,       \* texts of the article
    SlugOf,       \* the slug of each name, a title with a slug
    None,         \* no text, no name
    MaxGens, MaxDrafts, MaxPubs,  \* bounds: runs of each kind
    MaxPosts,     \* bound: posts WordPress may create
    MaxPatches,   \* bound: texts, titles and slugs written by PATCH
    MaxEdits      \* bound: edits of a post in WordPress

Names == DOMAIN SlugOf

ASSUME NoneAssumption == None \notin Bodies \cup Names
ASSUME ArticleBoundsAssumption ==
    {MaxGens, MaxDrafts, MaxPubs, MaxPosts, MaxPatches, MaxEdits} \subseteq Nat

VARIABLES
    article,    \* row of articles: status, text, name, post id, published_url set
    gens,       \* status of each generation run
    promo,      \* text of the promotion
    revs,       \* texts of the editorial revisions, oldest first
    drafts,     \* rows of wordpress_draft_runs
    pubs,       \* rows of wordpress_publication_runs
    posts,      \* WordPress: status, name and content of the article's posts
    wire,       \* requests nobody waits for any more and that may still land
    proc,       \* where each session is
    patched, edited,  \* what the bounds count
    overlapped  \* history: what was under way twice at the same time

vars == <<article, gens, promo, revs, drafts, pubs, posts, wire, proc,
          patched, edited, overlapped>>
runs == <<gens, promo, revs, drafts, pubs>>
world == <<posts, wire, patched, edited>>

DraftIds == 1 .. MaxDrafts
PubIds == 1 .. MaxPubs
PostIds == 1 .. MaxPosts
Texts == Bodies \cup {None}

RunStatuses == {"none", "prepared", "running", "succeeded", "failed"}

Transitions ==
    [idea |-> {"planned"}, planned |-> {"drafting"}, drafting |-> {"review"},
     review |-> {"approved"}, approved |-> {"published", "archived"},
     published |-> {"rewrite", "archived"}, rewrite |-> {"review", "archived"},
     archived |-> {}]

\* body and name are what the session has read of the article, seen what it
\* has read of its run.
Idle == [pc |-> "idle", run |-> 0, body |-> None, name |-> None, raw |-> None,
         seen |-> "none", post |-> 0]

Executing == [draft |-> {"draftPreflight", "draftMark", "draftPost", "draftSave", "draftFail"},
              publication |-> {"pubPreflight", "pubMark", "pubPost", "pubReadback",
                               "pubFinish", "pubFail", "cancelWrite"}]

Init ==
    /\ \E n \in Names :
         article = [status |-> "idea", body |-> None, name |-> n, post |-> 0, live |-> FALSE]
    /\ gens = [g \in 1 .. MaxGens |-> "none"]
    /\ promo = None /\ revs = <<>>
    /\ drafts = [d \in DraftIds |-> [status |-> "none", body |-> None, name |-> None,
                                     post |-> 0]]
    /\ pubs = [p \in PubIds |-> [status |-> "none", body |-> None, raw |-> None,
                                 post |-> 0, source |-> 0]]
    /\ posts = [i \in PostIds |-> [status |-> "none", raw |-> None, name |-> None]]
    /\ wire = {}
    /\ proc = [s \in Sessions |-> Idle]
    /\ patched = 0 /\ edited = 0 /\ overlapped = {}

----------------------------------------------------------------------------
(* The text.                                                               *)

\* The first unused id of a table: rows are numbered as they are inserted.
Unused(table, id) == table[id].status = "none" /\ \A i \in 1 .. id - 1 : table[i].status # "none"

Generating == article.status \in {"planned", "drafting"}

PrepareGen(g) ==
    /\ Generating /\ article.body = None
    /\ gens[g] = "none" /\ \A h \in 1 .. g - 1 : gens[h] # "none"
    /\ gens' = [gens EXCEPT ![g] = "prepared"]
    /\ UNCHANGED <<article, promo, revs, drafts, pubs, world, proc, overlapped>>

\* One run of the article may be running; the first one starts the drafting.
ExecuteGen(g) ==
    /\ gens[g] = "prepared" /\ Generating
    /\ \A h \in DOMAIN gens : gens[h] # "running"
    /\ gens' = [gens EXCEPT ![g] = "running"]
    /\ article' = [article EXCEPT !.status = "drafting"]
    /\ UNCHANGED <<promo, revs, drafts, pubs, world, proc, overlapped>>

\* The result pasted by a person parses, or the run has failed.
SubmitResult(g) ==
    /\ gens[g] = "running"
    /\ \E result \in {"succeeded", "failed"} : gens' = [gens EXCEPT ![g] = result]
    /\ UNCHANGED <<article, promo, revs, drafts, pubs, world, proc, overlapped>>

\* The reviewed text of a succeeded run becomes the article's, in one commit
\* with the promotion row and the status.
Promote(b) ==
    /\ article.status = "drafting" /\ article.body = None
    /\ \E g \in DOMAIN gens : gens[g] = "succeeded"
    /\ promo' = b
    /\ article' = [article EXCEPT !.body = b, !.status = "review"]
    /\ UNCHANGED <<gens, revs, drafts, pubs, world, proc, overlapped>>

\* (a mistake: a text that was a revision becomes one again)
ReviseAgain(b) ==
    /\ article.status \in {"review", "approved", "published"}
    /\ promo # None /\ article.body # None /\ b # article.body
    /\ revs' = Append(revs, b)
    /\ article' = [article EXCEPT !.body = b]
    /\ UNCHANGED <<gens, promo, drafts, pubs, world, proc, overlapped>>

\* A revision is a row and the article's text in one commit; a text that was
\* a revision before is answered as applied and changes nothing.
Revise(b) ==
    /\ article.status \in {"review", "approved", "published"}
    /\ promo # None /\ article.body # None
    /\ b # article.body /\ b \notin ToSet(revs)
    /\ revs' = Append(revs, b)
    /\ article' = [article EXCEPT !.body = b]
    /\ UNCHANGED <<gens, promo, drafts, pubs, world, proc, overlapped>>

\* PATCH writes the text, the title and the slug at any status and leaves no
\* revision; the text may be cleared.
Patch(b, n) ==
    /\ patched < MaxPatches /\ <<b, n>> # <<article.body, article.name>>
    /\ patched' = patched + 1
    /\ article' = [article EXCEPT !.body = b, !.name = n]
    /\ UNCHANGED <<runs, posts, wire, edited, proc, overlapped>>

\* The generic status change refuses the two protected targets.
ChangeStatus(to) ==
    /\ to \in Transitions[article.status] \ {"approved", "published"}
    /\ article' = [article EXCEPT !.status = to]
    /\ UNCHANGED <<runs, world, proc, overlapped>>

----------------------------------------------------------------------------
(* The draft run: prepare and execute.                                     *)

\* The text of record is the latest revision, or the promotion.
Canon == IF revs = <<>> THEN promo ELSE Last(revs)

\* (a mistake: nothing is asked about an earlier post or page)
UnpostedUnasked == TRUE

\* The article has neither a post nor a public page.
Unposted == article.post = 0 /\ ~article.live

\* What both prepare and execute ask of the article, its preview included:
\* the validator passes only the text of record.
DraftGates == article.status = "review" /\ Unposted /\ promo # None /\ article.body = Canon

Goto(s, pc) == proc' = [proc EXCEPT ![s].pc = pc]
Ends(s) == proc' = [proc EXCEPT ![s] = Idle]

PrepareDraft(s) ==
    /\ proc[s] = Idle /\ DraftGates
    /\ \A d \in DraftIds :
         ~(/\ drafts[d].status \in {"prepared", "running"}
           /\ drafts[d].body = article.body /\ drafts[d].name = article.name)
    /\ proc' = [proc EXCEPT ![s].pc = "draftInsert", ![s].body = article.body,
                            ![s].name = article.name]
    /\ UNCHANGED <<article, runs, world, overlapped>>

InsertDraft(s) ==
    /\ proc[s].pc = "draftInsert"
    /\ \E d \in DraftIds :
         /\ Unused(drafts, d)
         /\ drafts' = [drafts EXCEPT ![d] =
                         [status |-> "prepared", body |-> proc[s].body,
                          name |-> proc[s].name, post |-> 0]]
    /\ Ends(s)
    /\ UNCHANGED <<article, gens, promo, revs, pubs, world, overlapped>>

\* History: this kind of work begins while another session is still at it, or
\* a draft while a request nobody waits for is still on its way.
Meets(s, kind) ==
    \/ \E t \in Sessions \ {s} : proc[t].pc \in Executing[kind]
    \/ kind = "draft" /\ \E r \in wire : r.kind = kind
Note(s, kind) == overlapped' = IF Meets(s, kind) THEN overlapped \cup {kind} ELSE overlapped

BeginDraft(s, d) ==
    /\ proc[s] = Idle
    /\ drafts[d].status = "prepared" /\ DraftGates
    /\ article.body = drafts[d].body /\ article.name = drafts[d].name
    /\ proc' = [proc EXCEPT ![s] = [Idle EXCEPT !.pc = "draftPreflight", !.run = d]]
    /\ Note(s, "draft")
    /\ UNCHANGED <<article, runs, world>>

\* (a mistake: the lookup asks for public posts)
SlugPublished(slug) ==
    \E i \in PostIds : posts[i].status = "publish" /\ SlugOf[posts[i].name] = slug

\* The lookup by slug sees drafts only.
SlugTaken(slug) ==
    \E i \in PostIds : posts[i].status = "draft" /\ SlugOf[posts[i].name] = slug

\* The slug is the one in the run's payload; a post found leaves the run
\* prepared.
PreflightDraft(s) ==
    /\ proc[s].pc = "draftPreflight"
    /\ IF SlugTaken(SlugOf[drafts[proc[s].run].name]) THEN Ends(s) ELSE Goto(s, "draftMark")
    /\ UNCHANGED <<article, runs, world, overlapped>>

MarkDraft(s) ==
    /\ proc[s].pc = "draftMark"
    /\ drafts' = [drafts EXCEPT ![proc[s].run].status = "running"]
    /\ Goto(s, "draftPost")
    /\ UNCHANGED <<article, gens, promo, revs, pubs, world, overlapped>>

\* What the payload of a run makes of the posts.
Created(d) ==
    {[posts EXCEPT ![i] = [status |-> "draft", raw |-> drafts[d].body, name |-> drafts[d].name]] :
        i \in {j \in PostIds : Unused(posts, j)}}

\* The run is read again, then the one POST.  An answer carries the id; any
\* exception, an answer that never came too, is a failure of the run: the
\* request was refused, did its work, or is still on its way.
PostDraft(s) ==
    /\ proc[s].pc = "draftPost"
    /\ LET d == proc[s].run
           request == [kind |-> "draft", run |-> d]
           to(pc, i) == [proc EXCEPT ![s].pc = pc, ![s].seen = drafts[d].status, ![s].post = i]
       IN  \/ \E after \in Created(d) :
                /\ posts' = after /\ UNCHANGED wire
                /\ \/ proc' = to("draftSave", CHOOSE i \in PostIds : after[i] # posts[i])
                   \/ proc' = to("draftFail", 0)
           \/ /\ wire' \in {wire, wire \cup {request}}
              /\ proc' = to("draftFail", 0) /\ UNCHANGED posts
    /\ UNCHANGED <<article, runs, patched, edited, overlapped>>

\* A request nobody waits for reaches WordPress after all.
LandDraft(r) ==
    /\ r.kind = "draft"
    /\ posts' \in Created(r.run) /\ wire' = wire \ {r}
    /\ UNCHANGED <<article, runs, patched, edited, proc, overlapped>>

\* The run and the article's post id in one commit.
SaveDraft(s) ==
    /\ proc[s].pc = "draftSave" /\ proc[s].seen = "running"
    /\ drafts' = [drafts EXCEPT ![proc[s].run].status = "succeeded",
                                ![proc[s].run].post = proc[s].post]
    /\ article' = [article EXCEPT !.post = proc[s].post]
    /\ Ends(s)
    /\ UNCHANGED <<gens, promo, revs, pubs, world, overlapped>>

FailDraft(s) ==
    /\ proc[s].pc = "draftFail" /\ proc[s].seen = "running"
    /\ drafts' = [drafts EXCEPT ![proc[s].run].status = "failed"]
    /\ Ends(s)
    /\ UNCHANGED <<article, gens, promo, revs, pubs, world, overlapped>>

----------------------------------------------------------------------------
(* The approval and the publication run.                                   *)

\* A succeeded draft run of the article's post, and the text of record: the
\* latest revision, or what that run sent.
Sourced(d) ==
    /\ drafts[d].status = "succeeded" /\ drafts[d].post = article.post
    /\ article.body = (IF revs = <<>> THEN drafts[d].body ELSE Last(revs))

Posted == article.post # 0 /\ ~article.live

Approve ==
    /\ article.status = "review" /\ Posted /\ \E d \in DraftIds : Sourced(d)
    /\ article' = [article EXCEPT !.status = "approved"]
    /\ UNCHANGED <<runs, world, proc, overlapped>>

\* The person who prepares gives the content WordPress shows at that time.
PreparePub(s, d) ==
    /\ proc[s] = Idle /\ article.status = "approved" /\ Posted /\ Sourced(d)
    /\ LET raw == posts[article.post].raw IN
       /\ \A p \in PubIds :
            /\ pubs[p].status # "succeeded"
            /\ ~(/\ pubs[p].status \in {"prepared", "running"} /\ pubs[p].source = d
                 /\ pubs[p].body = article.body /\ pubs[p].raw = raw)
       /\ proc' = [proc EXCEPT ![s] = [Idle EXCEPT !.pc = "pubInsert", !.run = d, !.raw = raw,
                                         !.body = article.body, !.post = article.post]]
    /\ UNCHANGED <<article, runs, world, overlapped>>

InsertPub(s) ==
    /\ proc[s].pc = "pubInsert"
    /\ \E p \in PubIds :
         /\ Unused(pubs, p)
         /\ pubs' = [pubs EXCEPT ![p] =
                       [status |-> "prepared", body |-> proc[s].body, raw |-> proc[s].raw,
                        post |-> proc[s].post, source |-> proc[s].run]]
    /\ Ends(s)
    /\ UNCHANGED <<article, gens, promo, revs, drafts, world, overlapped>>

BeginPub(s, p) ==
    /\ proc[s] = Idle
    /\ pubs[p].status = "prepared"
    /\ article.status = "approved" /\ ~article.live
    /\ article.post = pubs[p].post /\ article.body = pubs[p].body
    /\ drafts[pubs[p].source].status = "succeeded" /\ drafts[pubs[p].source].post = pubs[p].post
    /\ proc' = [proc EXCEPT ![s] = [Idle EXCEPT !.pc = "pubPreflight", !.run = p,
                                                 !.name = article.name]]
    /\ Note(s, "publication")
    /\ UNCHANGED <<article, runs, world>>

\* The post must still be the draft with the approved content, under the name
\* the article had when the session read it.
PreflightPub(s) ==
    /\ proc[s].pc = "pubPreflight"
    /\ LET p == pubs[proc[s].run] IN
       IF posts[p.post] = [status |-> "draft", raw |-> p.raw, name |-> proc[s].name]
       THEN Goto(s, "pubMark") ELSE Ends(s)
    /\ UNCHANGED <<article, runs, world, overlapped>>

MarkPub(s) ==
    /\ proc[s].pc = "pubMark"
    /\ pubs' = [pubs EXCEPT ![proc[s].run].status = "running"]
    /\ Goto(s, "pubPost")
    /\ UNCHANGED <<article, gens, promo, revs, drafts, world, overlapped>>

\* The run is read again, then the one publish request.
PostPub(s) ==
    /\ proc[s].pc = "pubPost"
    /\ LET p == proc[s].run
           to(pc) == [proc EXCEPT ![s].pc = pc, ![s].seen = pubs[p].status]
       IN  \/ /\ posts' = [posts EXCEPT ![pubs[p].post].status = "publish"]
              /\ proc' \in {to("pubReadback"), to("pubFail")} /\ UNCHANGED wire
           \/ /\ wire' \in {wire, wire \cup {[kind |-> "publication", run |-> p]}}
              /\ proc' = to("pubFail") /\ UNCHANGED posts
    /\ UNCHANGED <<article, runs, patched, edited, overlapped>>

LandPub(r) ==
    /\ r.kind = "publication"
    /\ posts' = [posts EXCEPT ![pubs[r.run].post].status = "publish"]
    /\ wire' = wire \ {r}
    /\ UNCHANGED <<article, runs, patched, edited, proc, overlapped>>

\* A read-back that fails or differs leaves the run running.
ReadBack(s) ==
    /\ proc[s].pc = "pubReadback"
    /\ LET p == pubs[proc[s].run] IN
       IF posts[p.post] = [status |-> "publish", raw |-> p.raw, name |-> proc[s].name]
       THEN Goto(s, "pubFinish") ELSE Ends(s)
    /\ UNCHANGED <<article, runs, world, overlapped>>

\* The run and the article in one commit.  The check of the article's status
\* compares two constants: whatever status it has by now is overwritten.
FinishPub(s) ==
    /\ proc[s].pc = "pubFinish" /\ proc[s].seen = "running"
    /\ pubs' = [pubs EXCEPT ![proc[s].run].status = "succeeded"]
    /\ article' = [article EXCEPT !.status = "published", !.live = TRUE]
    /\ Ends(s)
    /\ UNCHANGED <<gens, promo, revs, drafts, world, overlapped>>

FailPub(s) ==
    /\ proc[s].pc = "pubFail" /\ proc[s].seen = "running"
    /\ pubs' = [pubs EXCEPT ![proc[s].run].status = "failed"]
    /\ Ends(s)
    /\ UNCHANGED <<article, gens, promo, revs, drafts, world, overlapped>>

\* (a mistake: a run left running may be cancelled as well)
CancellableActive(p) == pubs[p].status \in {"prepared", "running"}

\* Only a run that never started may be cancelled (started_at is set with the
\* status running, so a prepared run has none).
Cancellable(p) == pubs[p].status = "prepared"

BeginCancel(s, p) ==
    /\ proc[s] = Idle /\ Cancellable(p)
    /\ proc' = [proc EXCEPT ![s] = [Idle EXCEPT !.pc = "cancelWrite", !.run = p]]
    /\ Note(s, "publication")
    /\ UNCHANGED <<article, runs, world>>

WriteCancel(s) ==
    /\ proc[s].pc = "cancelWrite"
    /\ pubs' = [pubs EXCEPT ![proc[s].run].status = "cancelled"]
    /\ Ends(s)
    /\ UNCHANGED <<article, gens, promo, revs, drafts, world, overlapped>>

----------------------------------------------------------------------------
(* What happens around them.                                               *)

\* The process dies, a GET or a commit fails, or the run read again is not
\* running any more: nothing more is written.
Stops(s) ==
    /\ proc[s] # Idle /\ Ends(s)
    /\ UNCHANGED <<article, runs, world, overlapped>>

\* Somebody edits the post's content in WordPress, or a content update run does.
EditPost(i, b) ==
    /\ edited < MaxEdits /\ posts[i].status # "none" /\ posts[i].raw # b
    /\ edited' = edited + 1
    /\ posts' = [posts EXCEPT ![i].raw = b]
    /\ UNCHANGED <<article, runs, wire, patched, proc, overlapped>>

Writing ==
    \/ \E g \in 1 .. MaxGens : PrepareGen(g) \/ ExecuteGen(g) \/ SubmitResult(g)
    \/ \E b \in Bodies : Promote(b) \/ Revise(b)
    \/ \E b \in Texts, n \in Names : Patch(b, n)
    \/ \E to \in DOMAIN Transitions : ChangeStatus(to)

Drafting(s) ==
    \/ PrepareDraft(s) \/ InsertDraft(s)
    \/ \E d \in DraftIds : BeginDraft(s, d)
    \/ PreflightDraft(s) \/ MarkDraft(s) \/ PostDraft(s) \/ SaveDraft(s) \/ FailDraft(s)

Publishing(s) ==
    \/ \E d \in DraftIds : PreparePub(s, d)
    \/ InsertPub(s)
    \/ \E p \in PubIds : BeginPub(s, p) \/ BeginCancel(s, p)
    \/ PreflightPub(s) \/ MarkPub(s) \/ PostPub(s) \/ ReadBack(s) \/ FinishPub(s)
    \/ FailPub(s) \/ WriteCancel(s)

Next ==
    \/ Writing \/ Approve
    \/ \E s \in Sessions : Drafting(s) \/ Publishing(s) \/ Stops(s)
    \/ \E r \in wire : LandDraft(r) \/ LandPub(r)
    \/ \E i \in PostIds, b \in Bodies : EditPost(i, b)

ArticleSpec == Init /\ [][Next]_vars

----------------------------------------------------------------------------
(* Properties.                                                             *)

Articles ==
    [status : DOMAIN Transitions, body : Texts, name : Names, post : PostIds \cup {0},
     live : BOOLEAN]

DraftRows ==
    [status : RunStatuses, body : Texts, name : Names \cup {None}, post : PostIds \cup {0}]

PostRows ==
    [status : {"none", "draft", "publish"}, raw : Texts, name : Names \cup {None}]

\* Every row, post and session holds a value its table allows; a revision is
\* never recorded twice (its content hash is unique per article).
ArticleTypeOK ==
    /\ article \in Articles
    /\ gens \in [1 .. MaxGens -> RunStatuses] /\ promo \in Texts
    /\ revs \in Seq(Bodies) /\ IsInjective(revs)
    /\ drafts \in [DraftIds -> DraftRows]
    /\ pubs \in [PubIds -> [status : RunStatuses \cup {"cancelled"}, body : Texts, raw : Texts,
                            post : PostIds \cup {0}, source : DraftIds \cup {0}]]
    /\ posts \in [PostIds -> PostRows]
    /\ \A s \in Sessions : proc[s].pc # "idle" => proc[s] # Idle

\* However often an answer is lost, a process dies, the article is patched and a
\* person prepares a new run, WordPress never gets two posts of the article with
\* one slug, unless two executions (or an execution and a request still on its
\* way) were under way together: a second post takes a PATCH of the slug.
OnePost ==
    "draft" \notin overlapped =>
        \A i, j \in PostIds :
            /\ i # j /\ posts[i].status # "none" /\ posts[j].status # "none"
            => SlugOf[posts[i].name] # SlugOf[posts[j].name]

\* A public post has a publication run that says so or asks a person to look
\* (running, failed or succeeded), unless two executions, or a cancellation and
\* an execution, were under way together: no other cancelled run ever reached
\* WordPress.
LiveIsRecorded ==
    "publication" \notin overlapped =>
        \A i \in PostIds : posts[i].status = "publish" =>
            \E p \in PubIds :
                pubs[p].post = i /\ pubs[p].status \in {"running", "failed", "succeeded"}

\* An article with a public URL points to a post that is public (as long as
\* draft executions did not meet) and that a succeeded run published (as long as
\* publications and cancellations did not meet either), whatever was edited,
\* patched, revised or archived while the publication was under way.
PublishedIsLive ==
    article.live /\ "draft" \notin overlapped =>
        /\ posts[article.post].status = "publish"
        /\ "publication" \notin overlapped =>
             \E p \in PubIds : pubs[p].status = "succeeded" /\ pubs[p].post = article.post

=============================================================================
