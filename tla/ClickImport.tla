------------------------------ MODULE ClickImport ------------------------------
(***************************************************************************)
(* Clicks from WordPress to the database.  The runtime plugin appends a    *)
(* row for each click it redirects and exports the rows above a cursor,    *)
(* oldest first (bizfluxlab-affiliate-runtime.php).  An import reads the   *)
(* cursor twice, stores its run, fetches one page and commits the page     *)
(* with its cursor in one transaction (affiliate_click_import_service.py). *)
(* The command line and the nightly pipeline both import, without a lock   *)
(* between them.                                                           *)
(*                                                                         *)
(* A click is its id.  Ids are given in order, rows appear in any order: a *)
(* request that was given a smaller id may store its row after a larger    *)
(* one was exported.  The times of clicks are left out, and with them the  *)
(* drift of a row that was imported before: rows never change.             *)
(***************************************************************************)
EXTENDS Integers, Sequences, FiniteSets

CONSTANTS
    Imports,     \* affiliate_click_import_runs
    Tokens,      \* tokens a click can have
    NoToken,     \* the token of a click that has not begun
    NoImport,    \* the import of a click that is not in the replica
    MaxClicks,   \* bound: clicks there will be
    PageLimits   \* limits of a page

ASSUME ClickAssumption ==
    /\ NoToken \notin Tokens
    /\ NoImport \notin Imports
    /\ MaxClicks \in Nat
    /\ PageLimits \subseteq Nat \ {0}

VARIABLES
    click,       \* Clicks -> the request that was redirected, and its row
    order,       \* import runs in the order of created_at and id
    import,      \* Imports -> the run and the process behind it
    replica,     \* Clicks -> the import that inserted affiliate_outbound_clicks
    exported,    \* history: the largest id any page had
    late,        \* history: clicks stored after a larger one was exported
    overlapped   \* history: two imports were under way at once

clickVars == <<click, order, import, replica, exported, late, overlapped>>
importVars == <<order, import, replica, overlapped>>

-----------------------------------------------------------------------------
Clicks == 1 .. MaxClicks
Idle == [pc |-> "idle", limit |-> 1, since |-> 0, page |-> {}, next |-> 0, known |-> {}]

ClickInit ==
    /\ click = [c \in Clicks |-> [status |-> "none", token |-> NoToken]]
    /\ order = << >>
    /\ import = [i \in Imports |-> Idle]
    /\ replica = [c \in Clicks |-> NoImport]
    /\ exported = 0
    /\ late = {}
    /\ overlapped = FALSE

Highest(S) == IF S = {} THEN 0 ELSE CHOOSE c \in S : \A d \in S : d <= c

-----------------------------------------------------------------------------
(* The plugin: bfl_affiliate_maybe_handle_go.                               *)

\* The next id is taken for a click of t; the row is not visible yet.
BeginClick(c, t) ==
    /\ click[c].status = "none"
    /\ \A d \in Clicks : d < c => click[d].status # "none"
    /\ click' = [click EXCEPT ![c] = [status |-> "begun", token |-> t]]
    /\ UNCHANGED <<importVars, exported, late>>

StoreClick(c) ==
    /\ click[c].status = "begun"
    /\ click' = [click EXCEPT ![c].status = "stored"]
    /\ late' = IF c < exported THEN late \cup {c} ELSE late
    /\ UNCHANGED <<importVars, exported>>

\* The insert fails or its process dies: the reader is redirected all the same.
LoseClick(c) ==
    /\ click[c].status = "begun"
    /\ click' = [click EXCEPT ![c].status = "lost"]
    /\ UNCHANGED <<importVars, exported, late>>

Stored == {c \in Clicks : click[c].status = "stored"}

-----------------------------------------------------------------------------
(* The import: AffiliateClickImportService.import_next_page.                *)

At(i, pc) == import[i].pc = pc
UnderWay(i) == import[i].pc \in {"read", "fetch", "load", "insert"}
Replicated == {c \in Clicks : replica[c] # NoImport}

\* Mutant: the cursor of the newest run, succeeded or not.
RunCursorOfAny ==
    IF order = << >> THEN 0 ELSE import[order[Len(order)]].next

\* latest_succeeded.
RunCursor ==
    LET succeeded == {k \in DOMAIN order : At(order[k], "succeeded")} IN
    IF succeeded = {} THEN 0 ELSE import[order[Highest(succeeded)]].next

ReplicaCursor == Highest(Replicated)

\* The two cursors must agree: if they do not, there is not even a run.
Preflight(i, limit) ==
    /\ At(i, "idle")
    /\ RunCursor = ReplicaCursor
    /\ import' = [import EXCEPT ![i].pc = "read", ![i].limit = limit, ![i].since = RunCursor]
    /\ overlapped' = (overlapped \/ \E j \in Imports : UnderWay(j))
    /\ UNCHANGED <<click, order, replica, exported, late>>

\* add_running and its commit.
StoreImport(i) ==
    /\ At(i, "read")
    /\ order' = Append(order, i)
    /\ import' = [import EXCEPT ![i].pc = "fetch"]
    /\ UNCHANGED <<click, replica, exported, late, overlapped>>

After(since) == {c \in Stored : c > since}

\* Mutant: the newest rows first.
NewestPage(since, limit) ==
    {c \in After(since) : Cardinality({d \in After(since) : d >= c}) <= limit}

\* clicks_since: the first rows above the cursor, limit of them if there are.
Page(since, limit) ==
    {c \in After(since) : Cardinality({d \in After(since) : d <= c}) <= limit}

\* The signed GET; an empty page leaves the cursor where it is.
Fetch(i) ==
    /\ At(i, "fetch")
    /\ LET page == Page(import[i].since, import[i].limit) IN
          /\ import' = [import EXCEPT ![i].pc = "load", ![i].page = page,
                                      ![i].next = Highest(page \cup {import[i].since})]
          /\ exported' = Highest(page \cup {exported})
    /\ UNCHANGED <<click, order, replica, late, overlapped>>

\* get_map_by_source_ids: rows that are there already are not inserted.
Load(i) ==
    /\ At(i, "load")
    /\ import' = [import EXCEPT ![i].pc = "insert",
                                ![i].known = import[i].page \cap Replicated]
    /\ UNCHANGED <<click, order, replica, exported, late, overlapped>>

Missing(i) == import[i].page \ import[i].known

\* insert_many, the cursor invariant and mark_succeeded in one transaction; a
\* row that came in since is a violation of the unique source_click_id.
Insert(i) ==
    /\ At(i, "insert")
    /\ Missing(i) \cap Replicated = {}
    /\ Highest(Replicated \cup Missing(i)) = import[i].next
    /\ replica' = [c \in Clicks |-> IF c \in Missing(i) THEN i ELSE replica[c]]
    /\ import' = [import EXCEPT ![i].pc = "succeeded", ![i].known = {}]
    /\ UNCHANGED <<click, order, exported, late, overlapped>>

\* Anything that raises, after which the run is marked as failed, and death,
\* after which it stays running: neither counts as succeeded or has a cursor.
Fail(i) ==
    /\ UnderWay(i)
    /\ import' = [import EXCEPT ![i] = [Idle EXCEPT !.pc = "failed"]]
    /\ UNCHANGED <<click, order, replica, exported, late, overlapped>>

-----------------------------------------------------------------------------
Import(i) ==
    \/ \E limit \in PageLimits : Preflight(i, limit)
    \/ StoreImport(i) \/ Fetch(i) \/ Load(i) \/ Insert(i) \/ Fail(i)

ClickNext ==
    \/ \E c \in Clicks :
          \/ \E t \in Tokens : BeginClick(c, t)
          \/ StoreClick(c) \/ LoseClick(c)
    \/ \E i \in Imports : Import(i)

ClickSpec == ClickInit /\ [][ClickNext]_clickVars

-----------------------------------------------------------------------------
(* Properties.                                                              *)

ClickType == [status : {"none", "begun", "stored", "lost"}, token : Tokens \cup {NoToken}]
ImportType ==
    [pc : {"idle", "read", "fetch", "load", "insert", "succeeded", "failed"},
     limit : Nat, since : 0 .. MaxClicks, page : SUBSET Clicks, next : 0 .. MaxClicks,
     known : SUBSET Clicks]

\* Every variable has its type.
ClickTypeOK ==
    /\ click \in [Clicks -> ClickType]
    /\ order \in Seq(Imports)
    /\ import \in [Imports -> ImportType]
    /\ replica \in [Clicks -> Imports \cup {NoImport}]
    /\ exported \in 0 .. MaxClicks
    /\ late \in SUBSET Clicks
    /\ overlapped \in BOOLEAN

\* The cursor never passes over a click: below it every row of the plugin is in
\* the replica, however imports overlap, fail or die and whatever their limits,
\* unless the row was stored after a larger id had been exported.
NothingSkipped ==
    \A c \in Stored : c <= ReplicaCursor => c \in Replicated \cup late

\* The two cursors agree, so that the next import may begin.  Two imports that
\* overlap can part them for good: the run that is newer commits a smaller page
\* before the run that is older.
CursorsAgree == overlapped \/ RunCursor = ReplicaCursor
=============================================================================
