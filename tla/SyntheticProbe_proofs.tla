------------------------- MODULE SyntheticProbe_proofs -------------------------
(***************************************************************************)
(* Proofs about the click import and the synthetic probe, for any number   *)
(* of clicks, imports, requests and limits: the cursor never passes over a *)
(* click and its two copies agree, what the probe's file says is true, and *)
(* the evidence it rests on stays.                                         *)
(***************************************************************************)
EXTENDS SyntheticProbe, FiniteSetTheorems, WellFoundedInduction, TLAPS

\* A set of natural numbers below a bound has a highest member.
LEMMA HighestBelow ==
    ASSUME NEW n \in Nat, NEW S, S \subseteq 0 .. n, S # {}
    PROVE  Highest(S) \in S /\ \A d \in S : d <= Highest(S)
<1> DEFINE Below == {n - c : c \in S}
<1>1. Below \subseteq Nat /\ Below # {}
  <2>1. \A c \in S : n - c \in Nat
    <3> SUFFICES ASSUME NEW c \in S PROVE n - c \in Nat
      OBVIOUS
    <3>1. c \in 0 .. n
      OBVIOUS
    <3> QED
      BY <3>1
  <2>2. Below \subseteq Nat
    BY <2>1
  <2>3. \E c \in S : n - c \in Below
    OBVIOUS
  <2> QED
    BY <2>2, <2>3
<1>2. PICK m \in Below : \A d \in Below : ~(<<d, m>> \in OpToRel(<, Nat))
  <2> HIDE DEF Below
  <2> QED
    BY <1>1, NatLessThanWellFounded, WFMin
<1>3. \A d \in Below : m <= d
  <2> SUFFICES ASSUME NEW d \in Below PROVE m <= d
    OBVIOUS
  <2>1. ~(<<d, m>> \in OpToRel(<, Nat)) /\ d \in Nat /\ m \in Nat
    BY <1>1, <1>2
  <2> QED
    BY <2>1 DEF OpToRel
<1>4. PICK c \in S : m = n - c
  OBVIOUS
<1>5. \A d \in S : d <= c
  <2> SUFFICES ASSUME NEW d \in S PROVE d <= c
    OBVIOUS
  <2>1. n - c <= n - d
    BY <1>3, <1>4
  <2> QED
    BY <2>1
<1> QED
  BY <1>5 DEF Highest

LEMMA HighestOfMany ==
    ASSUME NEW S, S \subseteq 0 .. MaxClicks, S # {}
    PROVE  Highest(S) \in S /\ \A d \in S : d <= Highest(S)
BY HighestBelow, ClickAssumption

LEMMA HighestBounds ==
    ASSUME NEW S, S \subseteq 0 .. MaxClicks
    PROVE  /\ Highest(S) \in S \cup {0}
           /\ Highest(S) \in 0 .. MaxClicks
           /\ \A d \in S : d <= Highest(S)
<1>1. CASE S = {}
  BY <1>1, ClickAssumption DEF Highest
<1>2. CASE S # {}
  BY <1>2, HighestOfMany
<1> QED
  BY <1>1, <1>2

\* A page is a beginning of what is above the cursor.
LEMMA PageIsPrefix ==
    ASSUME NEW since, NEW limit \in Nat,
           NEW c \in Page(since, limit), NEW d \in After(since), d <= c
    PROVE  d \in Page(since, limit)
<1> DEFINE UpTo(e) == {b \in After(since) : b <= e}
<1>1. c \in Int /\ d \in Int /\ \A b \in After(since) : b \in 1 .. MaxClicks
  BY DEF Page, After, Stored, Clicks
<1>2. UpTo(d) \subseteq UpTo(c) /\ UpTo(c) \subseteq 1 .. MaxClicks
  <2> SUFFICES ASSUME NEW b \in UpTo(c) \cup UpTo(d)
               PROVE  b \in 1 .. MaxClicks /\ (b \in UpTo(d) => b \in UpTo(c))
    OBVIOUS
  <2>1. b \in After(since) /\ b \in 1 .. MaxClicks /\ b \in Int
    BY <1>1, ClickAssumption
  <2> QED
    BY <1>1, <2>1
<1>3. IsFiniteSet(UpTo(c))
  BY <1>2, FS_Interval, FS_Subset, ClickAssumption
<1>4. /\ Cardinality(UpTo(d)) <= Cardinality(UpTo(c))
      /\ Cardinality(UpTo(d)) \in Nat /\ Cardinality(UpTo(c)) \in Nat
  <2>1. IsFiniteSet(UpTo(d))
    BY <1>2, <1>3, FS_Subset
  <2> QED
    BY <1>2, <1>3, <2>1, FS_Subset, FS_CardinalityType
<1>5. Cardinality(UpTo(c)) <= limit
  BY DEF Page
<1>6. Cardinality(UpTo(d)) <= limit
  BY <1>4, <1>5
<1> QED
  BY <1>6 DEF Page

-----------------------------------------------------------------------------
(* Types.                                                                   *)

LEMMA ClickTypeInit == ClickInit => ClickTypeOK
<1> SUFFICES ASSUME ClickInit PROVE ClickTypeOK
  OBVIOUS
<1>1. Idle \in ImportType
  BY ClickAssumption DEF Idle, ImportType
<1>2. order \in Seq(Imports)
  BY DEF ClickInit
<1>3. [status |-> "none", token |-> NoToken] \in ClickType
  BY DEF ClickType
<1>4. 0 \in 0 .. MaxClicks
  BY ClickAssumption
<1> QED
  BY <1>1, <1>2, <1>3, <1>4 DEF ClickInit, ClickTypeOK

LEMMA CursorIsNat ==
    ASSUME ClickTypeOK
    PROVE  /\ Replicated \subseteq Clicks
           /\ ReplicaCursor \in 0 .. MaxClicks
           /\ ReplicaCursor \in Replicated \cup {0}
           /\ \A c \in Replicated : c <= ReplicaCursor
<1>1. Replicated \subseteq Clicks /\ Replicated \subseteq 0 .. MaxClicks
  BY ClickAssumption DEF Replicated, Clicks
<1> QED
  BY <1>1, HighestBounds DEF ReplicaCursor

\* What a fetched page is.
LEMMA PageIsClicks ==
    ASSUME NEW since, NEW limit
    PROVE  /\ Page(since, limit) \subseteq After(since)
           /\ After(since) \subseteq Stored
           /\ Stored \subseteq Clicks
BY DEF Page, After, Stored

LEMMA ClickTypeStep ==
    ASSUME ClickTypeOK, [ClickNext]_clickVars
    PROVE  ClickTypeOK'
<1> USE DEF ClickTypeOK
<1>0. Clicks \subseteq 0 .. MaxClicks /\ \A i \in Imports : Idle \in ImportType
  BY ClickAssumption DEF Clicks, Idle, ImportType
<1>1. ASSUME NEW c \in Clicks, NEW t \in Tokens, BeginClick(c, t) PROVE ClickTypeOK'
  BY <1>1 DEF BeginClick, importVars, ClickType
<1>2. ASSUME NEW c \in Clicks, StoreClick(c) PROVE ClickTypeOK'
  BY <1>2 DEF StoreClick, importVars, ClickType
<1>3. ASSUME NEW c \in Clicks, LoseClick(c) PROVE ClickTypeOK'
  BY <1>3 DEF LoseClick, importVars, ClickType
<1>4. ASSUME NEW i \in Imports, NEW limit \in PageLimits, Preflight(i, limit)
      PROVE  ClickTypeOK'
  <2>1. RunCursor \in 0 .. MaxClicks /\ limit \in Nat
    BY <1>4, CursorIsNat, ClickAssumption DEF Preflight
  <2> DEFINE new == [import[i] EXCEPT !.pc = "read", !.limit = limit, !.since = RunCursor]
  <2>a. import[i] \in ImportType
    BY <1>4
  <2>b. new \in ImportType
    BY <2>1, <2>a DEF ImportType
  <2>c. import' = [import EXCEPT ![i] = new]
    BY <1>4 DEF Preflight
  <2>2. import' \in [Imports -> ImportType]
    <3> HIDE DEF new
    <3> QED
    BY <2>b, <2>c
  <2>3. overlapped' \in BOOLEAN
    BY <1>4 DEF Preflight
  <2> QED
    BY <1>4, <2>2, <2>3 DEF Preflight
<1>5. ASSUME NEW i \in Imports, StoreImport(i) PROVE ClickTypeOK'
  <2>1. order' \in Seq(Imports)
    BY <1>5 DEF StoreImport
  <2>2. import' \in [Imports -> ImportType]
    BY <1>5 DEF StoreImport, ImportType
  <2> QED
    BY <1>5, <2>1, <2>2 DEF StoreImport
<1>6. ASSUME NEW i \in Imports, Fetch(i) PROVE ClickTypeOK'
  <2> DEFINE page == Page(import[i].since, import[i].limit)
  <2>1. page \subseteq Clicks /\ Clicks \subseteq 0 .. MaxClicks
    BY PageIsClicks DEF Clicks
  <2>2. import[i].since \in 0 .. MaxClicks
    BY DEF ImportType
  <2>3. /\ Highest(page \cup {import[i].since}) \in 0 .. MaxClicks
        /\ Highest(page \cup {exported}) \in 0 .. MaxClicks
    BY <2>1, <2>2, HighestBounds
  <2> DEFINE new == [import[i] EXCEPT !.pc = "load", !.page = page,
                                      !.next = Highest(page \cup {import[i].since})]
  <2>a. import[i] \in ImportType
    BY <1>6
  <2>b. new \in ImportType
    BY <2>1, <2>3, <2>a DEF ImportType
  <2>c. import' = [import EXCEPT ![i] = new]
    BY <1>6 DEF Fetch
  <2>4. import' \in [Imports -> ImportType]
    <3> HIDE DEF new
    <3> QED
    BY <2>b, <2>c
  <2> QED
    BY <1>6, <2>3, <2>4 DEF Fetch
<1>7. ASSUME NEW i \in Imports, Load(i) PROVE ClickTypeOK'
  <2> DEFINE new == [import[i] EXCEPT !.pc = "insert",
                                      !.known = import[i].page \cap Replicated]
  <2>1. import[i] \in ImportType
    BY <1>7
  <2>2. new \in ImportType
    BY <2>1 DEF ImportType
  <2>3. import' = [import EXCEPT ![i] = new]
    BY <1>7 DEF Load
  <2>4. import' \in [Imports -> ImportType]
    <3> HIDE DEF new
    <3> QED
      BY <2>2, <2>3
  <2> QED
    BY <1>7, <2>4 DEF Load
<1>8. ASSUME NEW i \in Imports, Insert(i) PROVE ClickTypeOK'
  <2> DEFINE new == [import[i] EXCEPT !.pc = "succeeded", !.known = {}]
  <2>1. import[i] \in ImportType
    BY <1>8
  <2>2. new \in ImportType
    BY <2>1 DEF ImportType
  <2>3. import' = [import EXCEPT ![i] = new]
    BY <1>8 DEF Insert
  <2>4. import' \in [Imports -> ImportType]
    <3> HIDE DEF new
    <3> QED
      BY <2>2, <2>3
  <2>5. replica' \in [Clicks -> Imports \cup {NoImport}]
    BY <1>8 DEF Insert
  <2> QED
    BY <1>8, <2>4, <2>5 DEF Insert
<1>9. ASSUME NEW i \in Imports, Fail(i) PROVE ClickTypeOK'
  BY <1>0, <1>9 DEF Fail, ImportType, Idle
<1>10. CASE UNCHANGED clickVars
  BY <1>10 DEF clickVars
<1> QED
  BY <1>1, <1>2, <1>3, <1>4, <1>5, <1>6, <1>7, <1>8, <1>9, <1>10 DEF ClickNext, Import

-----------------------------------------------------------------------------
(* The invariant.                                                           *)

ExportedIsStored == exported = 0 \/ exported \in Stored

ReplicatedIsExported == \A c \in Replicated : c <= exported

ImportBounds ==
    \A i \in Imports :
        /\ import[i].since <= exported
        /\ import[i].next <= exported
        /\ import[i].known \subseteq Replicated

\* What is below the cursor an import starts from is settled.
BehindIsIn ==
    \A i \in Imports : UnderWay(i) =>
        \A c \in Stored : c <= import[i].since => c \in Replicated \cup late

\* What is between the cursor and its next place is on the page.
PageIsIn ==
    \A i \in Imports : import[i].pc \in {"load", "insert"} =>
        \A c \in Stored : import[i].since < c /\ c <= import[i].next
                            => c \in import[i].page \cup late

ClickInv ==
    /\ ClickTypeOK
    /\ ExportedIsStored
    /\ ReplicatedIsExported
    /\ ImportBounds
    /\ BehindIsIn
    /\ PageIsIn
    /\ NothingSkipped

LEMMA ClickInvInit == ClickInit => ClickInv
<1> SUFFICES ASSUME ClickInit PROVE ClickInv
  OBVIOUS
<1>1. ClickTypeOK
  BY ClickTypeInit
<1>2. Replicated = {} /\ Stored = {} /\ exported = 0
  BY DEF ClickInit, Replicated, Stored
<1>3. ImportBounds /\ BehindIsIn /\ PageIsIn
  BY <1>2 DEF ClickInit, Idle, ImportBounds, BehindIsIn, PageIsIn, UnderWay
<1> QED
  BY <1>1, <1>2, <1>3 DEF ClickInv, ExportedIsStored, ReplicatedIsExported, NothingSkipped

\* Numbers that are compared are natural numbers.
LEMMA ClickNumbers ==
    ASSUME ClickTypeOK
    PROVE  /\ exported \in Nat
           /\ Clicks \subseteq Nat \ {0}
           /\ \A i \in Imports : /\ import[i].since \in 0 .. MaxClicks
                                 /\ import[i].next \in 0 .. MaxClicks
                                 /\ import[i].limit \in Nat
                                 /\ import[i].page \subseteq Clicks
                                 /\ import[i].known \subseteq Clicks
BY ClickAssumption DEF ClickTypeOK, ImportType, Clicks

\* A step that leaves imports and replica alone, and at most stores one click.
LEMMA ClickSideStep ==
    ASSUME ClickInv, ClickTypeOK', UNCHANGED <<importVars, exported>>,
           Stored \subseteq Stored', late \subseteq late',
           \A c \in Stored' \ Stored : c < exported => c \in late'
    PROVE  ClickInv'
<1> USE DEF ClickInv
<1>1. UNCHANGED <<import, replica, exported, Replicated, ReplicaCursor>>
  BY DEF importVars, Replicated, ReplicaCursor
<1>2. /\ exported \in Nat /\ Clicks \subseteq Nat \ {0}
      /\ Stored' \subseteq Clicks /\ Stored \subseteq Clicks
      /\ \A i \in Imports : import[i].since \in Nat /\ import[i].next \in Nat
  BY ClickNumbers DEF Stored
<1>3. \A c \in Stored' \ Stored : c <= exported => c \in late'
  <2> SUFFICES ASSUME NEW c \in Stored' \ Stored, c <= exported PROVE c \in late'
    OBVIOUS
  <2>1. c # exported
    BY <1>2 DEF ExportedIsStored
  <2> QED
    BY <1>2, <2>1
<1>4. ExportedIsStored' /\ ReplicatedIsExported' /\ ImportBounds'
  BY <1>1 DEF ExportedIsStored, ReplicatedIsExported, ImportBounds
<1>5. BehindIsIn'
  <2> SUFFICES ASSUME NEW i \in Imports, UnderWay(i), NEW c \in Stored',
                      c <= import[i].since
               PROVE  c \in Replicated \cup late'
    BY <1>1 DEF BehindIsIn, UnderWay
  <2>1. c <= exported
    BY <1>2 DEF ImportBounds
  <2> QED
    BY <1>3, <2>1 DEF BehindIsIn
<1>6. PageIsIn'
  <2> SUFFICES ASSUME NEW i \in Imports, import[i].pc \in {"load", "insert"},
                      NEW c \in Stored', import[i].since < c, c <= import[i].next
               PROVE  c \in import[i].page \cup late'
    BY <1>1 DEF PageIsIn
  <2>1. c <= exported
    BY <1>2 DEF ImportBounds
  <2> QED
    BY <1>3, <2>1 DEF PageIsIn
<1>7. NothingSkipped'
  <2> SUFFICES ASSUME NEW c \in Stored', c <= ReplicaCursor
               PROVE  c \in Replicated \cup late'
    BY <1>1 DEF NothingSkipped
  <2>1. ReplicaCursor \in Nat /\ ReplicaCursor <= exported
    BY <1>2, CursorIsNat DEF ReplicatedIsExported
  <2>2. c <= exported
    BY <1>2, <2>1
  <2> QED
    BY <1>3, <2>2 DEF NothingSkipped
<1> QED
  BY <1>4, <1>5, <1>6, <1>7

\* The click actions are such steps.
LEMMA ClickSideSteps ==
    ASSUME ClickInv, ClickTypeOK', NEW c \in Clicks,
           \/ \E t \in Tokens : BeginClick(c, t)
           \/ StoreClick(c)
           \/ LoseClick(c)
    PROVE  ClickInv'
<1>1. click \in [Clicks -> ClickType]
  BY DEF ClickInv, ClickTypeOK
<1>2. ASSUME NEW t \in Tokens, BeginClick(c, t) PROVE ClickInv'
  <2>1. Stored' = Stored
    BY <1>1, <1>2 DEF BeginClick, Stored
  <2> QED
    BY <1>2, <2>1, ClickSideStep DEF BeginClick
<1>3. CASE StoreClick(c)
  <2>1. Stored' = Stored \cup {c}
    BY <1>1, <1>3 DEF StoreClick, Stored, ClickType
  <2> QED
    BY <1>3, <2>1, ClickSideStep DEF StoreClick
<1>4. CASE LoseClick(c)
  <2>1. Stored' = Stored
    BY <1>1, <1>4 DEF LoseClick, Stored, ClickType
  <2> QED
    BY <1>4, <2>1, ClickSideStep DEF LoseClick
<1> QED
  BY <1>2, <1>3, <1>4

\* An import step whose run keeps its cursors and reaches no new place.
LEMMA ImportSideStep ==
    ASSUME ClickInv, ClickTypeOK', NEW i \in Imports,
           UNCHANGED <<click, replica, exported, late>>,
           \A j \in Imports \ {i} : import'[j] = import[j],
           import'[i].since <= exported, import'[i].next <= exported,
           import'[i].known \subseteq Replicated,
           UnderWay(i)' => \A c \in Stored : c <= import'[i].since => c \in Replicated \cup late,
           import'[i].pc \in {"load", "insert"} =>
               \A c \in Stored : import'[i].since < c /\ c <= import'[i].next
                                   => c \in import'[i].page \cup late
    PROVE  ClickInv'
<1> USE DEF ClickInv
<1>1. UNCHANGED <<exported, late, Stored, Replicated, ReplicaCursor>>
  BY DEF Stored, Replicated, ReplicaCursor
<1>2. ExportedIsStored' /\ ReplicatedIsExported' /\ NothingSkipped'
  BY <1>1 DEF ExportedIsStored, ReplicatedIsExported, NothingSkipped
<1>3. ImportBounds'
  <2> SUFFICES ASSUME NEW j \in Imports
               PROVE  /\ import'[j].since <= exported
                      /\ import'[j].next <= exported
                      /\ import'[j].known \subseteq Replicated
    BY <1>1 DEF ImportBounds
  <2> QED
    BY DEF ImportBounds
<1>4. BehindIsIn'
  <2> SUFFICES ASSUME NEW j \in Imports, UnderWay(j)', NEW c \in Stored,
                      c <= import'[j].since
               PROVE  c \in Replicated \cup late
    BY <1>1 DEF BehindIsIn
  <2>1. CASE j = i
    BY <2>1
  <2>2. CASE j # i
    <3>1. import'[j] = import[j]
      BY <2>2
    <3> QED
      BY <3>1 DEF BehindIsIn, UnderWay
  <2> QED
    BY <2>1, <2>2
<1>5. PageIsIn'
  <2> SUFFICES ASSUME NEW j \in Imports, import'[j].pc \in {"load", "insert"},
                      NEW c \in Stored, import'[j].since < c, c <= import'[j].next
               PROVE  c \in import'[j].page \cup late
    BY <1>1 DEF PageIsIn
  <2>1. CASE j = i
    BY <2>1
  <2>2. CASE j # i
    <3>1. import'[j] = import[j]
      BY <2>2
    <3> QED
      BY <3>1 DEF PageIsIn
  <2> QED
    BY <2>1, <2>2
<1> QED
  BY <1>2, <1>3, <1>4, <1>5

LEMMA PreflightStep ==
    ASSUME ClickInv, ClickTypeOK', NEW i \in Imports, NEW limit \in PageLimits,
           Preflight(i, limit)
    PROVE  ClickInv'
<1>1. /\ import'[i].since = RunCursor /\ import'[i].pc = "read"
      /\ import'[i].next = import[i].next /\ import'[i].known = import[i].known
      /\ \A j \in Imports \ {i} : import'[j] = import[j]
  BY DEF Preflight, ClickInv, ClickTypeOK, ImportType
<1>2. import'[i].since = ReplicaCursor /\ UNCHANGED <<click, replica, exported, late>>
  BY <1>1 DEF Preflight
<1>3. ReplicaCursor <= exported
  BY CursorIsNat, ClickNumbers DEF ClickInv, ReplicatedIsExported
<1>4. \A c \in Stored : c <= import'[i].since => c \in Replicated \cup late
  BY <1>2 DEF ClickInv, NothingSkipped
<1>5. import[i].next <= exported /\ import[i].known \subseteq Replicated
  BY DEF ClickInv, ImportBounds
<1> QED
  BY <1>1, <1>2, <1>3, <1>4, <1>5, ImportSideStep

LEMMA StoreImportStep ==
    ASSUME ClickInv, ClickTypeOK', NEW i \in Imports, StoreImport(i)
    PROVE  ClickInv'
<1>1. /\ import'[i].since = import[i].since /\ import'[i].pc = "fetch"
      /\ import'[i].next = import[i].next /\ import'[i].known = import[i].known
      /\ \A j \in Imports \ {i} : import'[j] = import[j]
      /\ UNCHANGED <<click, replica, exported, late>>
  BY DEF StoreImport, ClickInv, ClickTypeOK, ImportType
<1>2. UnderWay(i)
  BY DEF StoreImport, UnderWay, At
<1>3. \A c \in Stored : c <= import'[i].since => c \in Replicated \cup late
  BY <1>1, <1>2 DEF ClickInv, BehindIsIn
<1>4. /\ import[i].next <= exported /\ import[i].since <= exported
      /\ import[i].known \subseteq Replicated
  BY DEF ClickInv, ImportBounds
<1> QED
  BY <1>1, <1>3, <1>4, ImportSideStep

LEMMA LoadStep ==
    ASSUME ClickInv, ClickTypeOK', NEW i \in Imports, Load(i)
    PROVE  ClickInv'
<1>1. /\ import'[i].since = import[i].since /\ import'[i].pc = "insert"
      /\ import'[i].next = import[i].next
      /\ import'[i].known = import[i].page \cap Replicated
      /\ import'[i].page = import[i].page
      /\ \A j \in Imports \ {i} : import'[j] = import[j]
      /\ UNCHANGED <<click, replica, exported, late>>
  BY DEF Load, ClickInv, ClickTypeOK, ImportType
<1>2. UnderWay(i) /\ import[i].pc \in {"load", "insert"}
  BY DEF Load, UnderWay, At
<1>3. \A c \in Stored : c <= import'[i].since => c \in Replicated \cup late
  BY <1>1, <1>2 DEF ClickInv, BehindIsIn
<1>4. \A c \in Stored : import'[i].since < c /\ c <= import'[i].next
                          => c \in import'[i].page \cup late
  BY <1>1, <1>2 DEF ClickInv, PageIsIn
<1>5. import[i].next <= exported /\ import[i].since <= exported
  BY DEF ClickInv, ImportBounds
<1> QED
  BY <1>1, <1>3, <1>4, <1>5, ImportSideStep

LEMMA FailStep ==
    ASSUME ClickInv, ClickTypeOK', NEW i \in Imports, Fail(i)
    PROVE  ClickInv'
<1>1. /\ import'[i].since = 0 /\ import'[i].pc = "failed"
      /\ import'[i].next = 0 /\ import'[i].known = {}
      /\ \A j \in Imports \ {i} : import'[j] = import[j]
      /\ UNCHANGED <<click, replica, exported, late>>
  BY DEF Fail, Idle, ClickInv, ClickTypeOK
<1>2. 0 <= exported
  BY ClickNumbers DEF ClickInv
<1>3. ~UnderWay(i)'
  BY <1>1 DEF UnderWay
<1> QED
  BY <1>1, <1>2, <1>3, ImportSideStep

\* A page is a beginning, so that nothing between two cursors is missed.
LEMMA FetchStep ==
    ASSUME ClickInv, ClickTypeOK', NEW i \in Imports, Fetch(i)
    PROVE  ClickInv'
<1> USE DEF ClickInv
<1> DEFINE since == import[i].since
           page == Page(since, import[i].limit)
           next == Highest(page \cup {since})
<1>1. /\ import'[i].since = since /\ import'[i].pc = "load"
      /\ import'[i].next = next /\ import'[i].known = import[i].known
      /\ import'[i].page = page
      /\ \A j \in Imports \ {i} : import'[j] = import[j]
      /\ exported' = Highest(page \cup {exported})
      /\ UNCHANGED <<click, replica, late>>
  BY DEF Fetch, ClickTypeOK, ImportType
<1>2. /\ UNCHANGED <<Stored, Replicated, ReplicaCursor, late>>
      /\ UnderWay(i)
  BY <1>1 DEF Stored, Replicated, ReplicaCursor, UnderWay, Fetch, At
<1>3. /\ page \subseteq Stored /\ page \subseteq Clicks /\ Clicks \subseteq 0 .. MaxClicks
      /\ since \in 0 .. MaxClicks /\ exported \in 0 .. MaxClicks
      /\ import[i].limit \in Nat /\ Clicks \subseteq Nat \ {0} /\ Stored \subseteq Clicks
  BY PageIsClicks, ClickNumbers DEF Clicks, ClickTypeOK
<1>4. /\ next \in page \cup {since, 0} /\ next \in 0 .. MaxClicks
      /\ \A d \in page \cup {since} : d <= next
  BY <1>3, HighestBounds
<1>5. /\ exported' \in page \cup {exported, 0} /\ exported' \in 0 .. MaxClicks
      /\ \A d \in page \cup {exported} : d <= exported'
  BY <1>1, <1>3, HighestBounds
<1>6. ExportedIsStored'
  BY <1>2, <1>3, <1>5 DEF ExportedIsStored
<1>7. exported <= exported' /\ next <= exported' /\ since <= exported'
  <2>1. since <= exported /\ exported <= exported'
    BY <1>5 DEF ImportBounds
  <2>2. since <= exported'
    BY <1>3, <1>5, <2>1
  <2> QED
    BY <1>3, <1>4, <1>5, <2>1, <2>2
<1>8. ReplicatedIsExported'
  <2>1. \A c \in Replicated : c \in Nat
    BY <1>3 DEF Replicated
  <2> QED
    BY <1>2, <1>3, <1>5, <1>7, <2>1 DEF ReplicatedIsExported
<1>9. ImportBounds'
  <2> SUFFICES ASSUME NEW j \in Imports
               PROVE  /\ import'[j].since <= exported'
                      /\ import'[j].next <= exported'
                      /\ import'[j].known \subseteq Replicated
    BY <1>2 DEF ImportBounds
  <2>1. CASE j = i
    BY <1>1, <1>7, <2>1 DEF ImportBounds
  <2>2. CASE j # i
    <3>1. import'[j] = import[j]
      BY <1>1, <2>2
    <3>2. /\ import[j].since <= exported /\ import[j].next <= exported
          /\ import[j].known \subseteq Replicated
      BY DEF ImportBounds
    <3>3. import[j].since \in Nat /\ import[j].next \in Nat
      BY ClickNumbers
    <3> QED
      BY <1>3, <1>5, <1>7, <3>1, <3>2, <3>3
  <2> QED
    BY <2>1, <2>2
<1>10. BehindIsIn'
  <2> SUFFICES ASSUME NEW j \in Imports, UnderWay(j)', NEW c \in Stored,
                      c <= import'[j].since
               PROVE  c \in Replicated \cup late
    BY <1>2 DEF BehindIsIn
  <2>1. UnderWay(j) /\ import'[j].since = import[j].since
    BY <1>1, <1>2 DEF UnderWay
  <2> QED
    BY <2>1 DEF BehindIsIn
<1>11. PageIsIn'
  <2> SUFFICES ASSUME NEW j \in Imports, import'[j].pc \in {"load", "insert"},
                      NEW c \in Stored, import'[j].since < c, c <= import'[j].next
               PROVE  c \in import'[j].page \cup late
    BY <1>2 DEF PageIsIn
  <2>1. CASE j = i
    <3>1. c > since /\ c <= next /\ c \in Nat \ {0}
      BY <1>1, <1>3, <2>1
    <3>2. next \in page
      BY <1>3, <1>4, <3>1
    <3>3. c \in After(since)
      BY <3>1 DEF After
    <3>4. c \in page
      BY <1>3, <3>1, <3>2, <3>3, PageIsPrefix
    <3> QED
      BY <1>1, <2>1, <3>4
  <2>2. CASE j # i
    <3>1. import'[j] = import[j]
      BY <1>1, <2>2
    <3> QED
      BY <3>1 DEF PageIsIn
  <2> QED
    BY <2>1, <2>2
<1>12. NothingSkipped'
  BY <1>2 DEF NothingSkipped
<1> QED
  BY <1>6, <1>8, <1>9, <1>10, <1>11, <1>12

\* A page and its cursor go in at once.
LEMMA InsertStep ==
    ASSUME ClickInv, ClickTypeOK', NEW i \in Imports, Insert(i)
    PROVE  ClickInv'
<1> USE DEF ClickInv
<1>1. /\ import'[i].since = import[i].since /\ import'[i].pc = "succeeded"
      /\ import'[i].next = import[i].next /\ import'[i].known = {}
      /\ \A j \in Imports \ {i} : import'[j] = import[j]
      /\ UNCHANGED <<click, exported, late>>
  BY DEF Insert, ClickTypeOK, ImportType
<1>2. Replicated' = Replicated \cup Missing(i)
  <2>1. Missing(i) \subseteq Clicks
    BY ClickNumbers DEF Missing
  <2>2. replica' = [c \in Clicks |-> IF c \in Missing(i) THEN i ELSE replica[c]]
    BY DEF Insert
  <2> QED
    BY <2>1, <2>2, ClickAssumption DEF Replicated
<1>3. ReplicaCursor' = import[i].next
  BY <1>2 DEF ReplicaCursor, Insert
<1>4. UNCHANGED Stored /\ import[i].pc \in {"load", "insert"} /\ UnderWay(i)
  BY <1>1 DEF Stored, UnderWay, Insert, At
<1>5. ReplicatedIsExported'
  <2>1. \A c \in Replicated' : c <= import[i].next /\ c \in Nat
    <3>1. Replicated' \subseteq 0 .. MaxClicks
      BY <1>2, CursorIsNat, ClickNumbers, ClickAssumption DEF Missing, Clicks
    <3>2. Highest(Replicated') = import[i].next
      BY <1>2 DEF Insert
    <3>3. \A c \in Replicated' : c <= Highest(Replicated')
      BY <3>1, HighestBounds
    <3> QED
      BY <3>1, <3>2, <3>3
  <2>2. import[i].next <= exported
    BY DEF ImportBounds
  <2> QED
    BY <1>1, <2>1, <2>2, ClickNumbers DEF ReplicatedIsExported
<1>6. ExportedIsStored'
  BY <1>1, <1>4 DEF ExportedIsStored
<1>7. ImportBounds'
  <2> SUFFICES ASSUME NEW j \in Imports
               PROVE  /\ import'[j].since <= exported
                      /\ import'[j].next <= exported
                      /\ import'[j].known \subseteq Replicated'
    BY <1>1 DEF ImportBounds
  <2>1. CASE j = i
    BY <1>1, <2>1 DEF ImportBounds
  <2>2. CASE j # i
    <3>1. import'[j] = import[j]
      BY <1>1, <2>2
    <3> QED
      BY <1>2, <3>1 DEF ImportBounds
  <2> QED
    BY <2>1, <2>2
<1>8. BehindIsIn'
  <2> SUFFICES ASSUME NEW j \in Imports, UnderWay(j)', NEW c \in Stored,
                      c <= import'[j].since
               PROVE  c \in Replicated' \cup late
    BY <1>1, <1>4 DEF BehindIsIn
  <2>1. j # i
    BY <1>1 DEF UnderWay
  <2>2. import'[j] = import[j]
    BY <1>1, <2>1
  <2> QED
    BY <1>2, <2>2 DEF BehindIsIn, UnderWay
<1>9. PageIsIn'
  <2> SUFFICES ASSUME NEW j \in Imports, import'[j].pc \in {"load", "insert"},
                      NEW c \in Stored, import'[j].since < c, c <= import'[j].next
               PROVE  c \in import'[j].page \cup late
    BY <1>1, <1>4 DEF PageIsIn
  <2>1. import'[j] = import[j]
    BY <1>1
  <2> QED
    BY <2>1 DEF PageIsIn
<1>10. NothingSkipped'
  <2> SUFFICES ASSUME NEW c \in Stored, c <= import[i].next
               PROVE  c \in Replicated' \cup late
    BY <1>1, <1>3, <1>4 DEF NothingSkipped
  <2>1. CASE c <= import[i].since
    BY <1>2, <1>4, <2>1 DEF BehindIsIn
  <2>2. CASE ~(c <= import[i].since)
    <3>1. c \in Nat /\ import[i].since \in Nat
      BY ClickNumbers DEF Stored
    <3>2. c \in import[i].page \cup late
      BY <1>4, <2>2, <3>1 DEF PageIsIn
    <3>3. import[i].known \subseteq Replicated
      BY DEF ImportBounds
    <3> QED
      BY <1>2, <3>2, <3>3 DEF Missing
  <2> QED
    BY <2>1, <2>2
<1> QED
  BY <1>5, <1>6, <1>7, <1>8, <1>9, <1>10

LEMMA ClickInvStep == ClickInv /\ [ClickNext]_clickVars => ClickInv'
<1> SUFFICES ASSUME ClickInv, [ClickNext]_clickVars PROVE ClickInv'
  OBVIOUS
<1>1. ClickTypeOK'
  BY ClickTypeStep DEF ClickInv
<1>2. ASSUME NEW c \in Clicks,
             (\E t \in Tokens : BeginClick(c, t)) \/ StoreClick(c) \/ LoseClick(c)
      PROVE  ClickInv'
  BY <1>1, <1>2, ClickSideSteps
<1>3. ASSUME NEW i \in Imports, Import(i) PROVE ClickInv'
  <2>1. ASSUME NEW limit \in PageLimits, Preflight(i, limit) PROVE ClickInv'
    BY <1>1, <2>1, PreflightStep
  <2>2. CASE StoreImport(i)
    BY <1>1, <2>2, StoreImportStep
  <2>3. CASE Fetch(i)
    BY <1>1, <2>3, FetchStep
  <2>4. CASE Load(i)
    BY <1>1, <2>4, LoadStep
  <2>5. CASE Insert(i)
    BY <1>1, <2>5, InsertStep
  <2>6. CASE Fail(i)
    BY <1>1, <2>6, FailStep
  <2> QED
    BY <1>3, <2>1, <2>2, <2>3, <2>4, <2>5, <2>6 DEF Import
<1>4. CASE UNCHANGED clickVars
  <2>1. UNCHANGED <<Stored, importVars, exported, late>>
    BY <1>4 DEF clickVars, importVars, Stored
  <2> QED
    BY <1>1, <2>1, ClickSideStep
<1> QED
  BY <1>2, <1>3, <1>4 DEF ClickNext

\* ClickTypeOK, NothingSkipped and what they rest on, for imports by themselves:
\* any number of them, of clicks and of limits.
THEOREM ClickInvariant == ClickSpec => []ClickInv
<1>1. ClickInit => ClickInv
  BY ClickInvInit
<1>2. ClickInv /\ [ClickNext]_clickVars => ClickInv'
  BY ClickInvStep
<1> QED
  BY <1>1, <1>2, PTL DEF ClickSpec

-----------------------------------------------------------------------------
(* The two cursors.                                                         *)

\* The run that moved the cursor last.
SucceededRuns == {k \in DOMAIN order : At(order[k], "succeeded")}

\* As long as no two imports have overlapped, the one under way is alone and,
\* once it has a row, the newest.
OneUnderWay == \A i, j \in Imports : UnderWay(i) /\ UnderWay(j) => i = j
UnderWayIsNewest ==
    \A i \in Imports : import[i].pc \in {"fetch", "load", "insert"} =>
        order # << >> /\ order[Len(order)] = i

CursorInv ==
    /\ ClickTypeOK
    /\ CursorsAgree
    /\ ~overlapped => OneUnderWay /\ UnderWayIsNewest

\* The run cursor is read from the succeeded rows alone.
LEMMA RunCursorStays ==
    ASSUME ClickTypeOK, ClickTypeOK', SucceededRuns' = SucceededRuns,
           \A k \in SucceededRuns : order'[k] = order[k]
                                    /\ import'[order[k]] = import[order[k]]
    PROVE  RunCursor' = RunCursor
<1>1. CASE SucceededRuns = {}
  BY <1>1 DEF RunCursor, SucceededRuns
<1>2. CASE SucceededRuns # {}
  <2>1. SucceededRuns \subseteq 0 .. Len(order) /\ Len(order) \in Nat
    BY DEF SucceededRuns, ClickTypeOK
  <2>2. Highest(SucceededRuns) \in SucceededRuns
    BY <1>2, <2>1, HighestBelow
  <2> QED
    BY <1>2, <2>2 DEF RunCursor, SucceededRuns
<1> QED
  BY <1>1, <1>2

\* A step that changes no succeeded import and gives no other import a row.
LEMMA CursorSideStep ==
    ASSUME CursorInv, ClickTypeOK', UNCHANGED <<order, replica>>,
           overlapped => overlapped',
           \A i \in Imports : /\ At(i, "succeeded") <=> At(i, "succeeded")'
                              /\ At(i, "succeeded") => import'[i] = import[i]
    PROVE  CursorsAgree'
<1>1. \A k \in DOMAIN order : order[k] \in Imports
  BY DEF CursorInv, ClickTypeOK
<1>2. SucceededRuns' = SucceededRuns
  BY <1>1 DEF SucceededRuns
<1>3. RunCursor' = RunCursor
  BY <1>1, <1>2, RunCursorStays DEF CursorInv, SucceededRuns
<1>4. ReplicaCursor' = ReplicaCursor
  BY DEF ReplicaCursor, Replicated
<1> QED
  BY <1>3, <1>4 DEF CursorInv, CursorsAgree

LEMMA CursorInvStep == CursorInv /\ [ClickNext]_clickVars => CursorInv'
<1> SUFFICES ASSUME CursorInv, [ClickNext]_clickVars PROVE CursorInv'
  OBVIOUS
<1>1. ClickTypeOK /\ ClickTypeOK'
  BY ClickTypeStep DEF CursorInv
<1>2. ASSUME UNCHANGED importVars PROVE CursorInv'
  <2>1. UNCHANGED <<order, import, replica, overlapped>>
    BY <1>2 DEF importVars
  <2>2. CursorsAgree'
    BY <1>1, <2>1, CursorSideStep DEF At
  <2>3. (~overlapped => OneUnderWay /\ UnderWayIsNewest)'
    BY <2>1 DEF CursorInv, OneUnderWay, UnderWayIsNewest, UnderWay
  <2> QED
    BY <1>1, <2>2, <2>3 DEF CursorInv
<1>3. ASSUME NEW c \in Clicks,
             (\E t \in Tokens : BeginClick(c, t)) \/ StoreClick(c) \/ LoseClick(c)
      PROVE  CursorInv'
  BY <1>2, <1>3 DEF BeginClick, StoreClick, LoseClick
<1>4. ASSUME NEW i \in Imports, NEW limit \in PageLimits, Preflight(i, limit)
      PROVE  CursorInv'
  <2>1. /\ import'[i].pc = "read" /\ import[i].pc = "idle"
        /\ \A j \in Imports \ {i} : import'[j] = import[j]
        /\ UNCHANGED <<order, replica>> /\ overlapped' \in BOOLEAN
        /\ overlapped' = (overlapped \/ \E j \in Imports : UnderWay(j))
    BY <1>1, <1>4 DEF Preflight, At, ClickTypeOK, ImportType
  <2>2. CursorsAgree'
    BY <1>1, <2>1, CursorSideStep DEF At, ClickTypeOK
  <2>3. (~overlapped => OneUnderWay /\ UnderWayIsNewest)'
    BY <2>1 DEF CursorInv, OneUnderWay, UnderWayIsNewest, UnderWay
  <2> QED
    BY <1>1, <2>2, <2>3 DEF CursorInv
<1>5. ASSUME NEW i \in Imports, StoreImport(i) PROVE CursorInv'
  <2>1. /\ import'[i].pc = "fetch" /\ import[i].pc = "read"
        /\ \A j \in Imports \ {i} : import'[j] = import[j]
        /\ order' = Append(order, i) /\ UNCHANGED <<replica, overlapped>>
    BY <1>1, <1>5 DEF StoreImport, At, ClickTypeOK, ImportType
  <2>2. /\ order \in Seq(Imports) /\ Len(order) \in Nat
        /\ DOMAIN order' = DOMAIN order \cup {Len(order) + 1}
        /\ order' # << >> /\ Len(order') = Len(order) + 1
        /\ order'[Len(order) + 1] = i
        /\ \A k \in DOMAIN order : order'[k] = order[k] /\ order[k] \in Imports
    BY <1>1, <2>1 DEF ClickTypeOK
  <2>3. SucceededRuns' = SucceededRuns
    BY <2>1, <2>2 DEF SucceededRuns, At
  <2>4. RunCursor' = RunCursor
    <3>1. \A k \in SucceededRuns : k \in DOMAIN order /\ order[k] # i
      BY <2>1 DEF SucceededRuns, At
    <3> QED
      BY <1>1, <2>1, <2>2, <2>3, <3>1, RunCursorStays
  <2>5. CursorsAgree'
    BY <2>1, <2>4 DEF CursorInv, CursorsAgree, ReplicaCursor, Replicated
  <2>6. (~overlapped => OneUnderWay /\ UnderWayIsNewest)'
    <3> SUFFICES ASSUME ~overlapped PROVE (OneUnderWay /\ UnderWayIsNewest)'
      BY <2>1
    <3>1. OneUnderWay /\ UnderWay(i)
      BY <2>1 DEF CursorInv, UnderWay
    <3>2. \A j \in Imports : UnderWay(j)' => j = i
      BY <2>1, <3>1 DEF OneUnderWay, UnderWay
    <3> QED
      BY <2>2, <3>2 DEF OneUnderWay, UnderWayIsNewest, UnderWay
  <2> QED
    BY <1>1, <2>5, <2>6 DEF CursorInv
<1>6. ASSUME NEW i \in Imports, Fetch(i) \/ Load(i) \/ Fail(i) PROVE CursorInv'
  <2>1. /\ \A j \in Imports \ {i} : import'[j] = import[j]
        /\ UnderWay(i)
        /\ import'[i].pc \in {"load", "insert", "failed"}
        /\ import'[i].pc # "failed" => import[i].pc \in {"fetch", "load"}
        /\ UNCHANGED <<order, replica, overlapped>>
    BY <1>1, <1>6 DEF Fetch, Load, Fail, Idle, UnderWay, At, ClickTypeOK, ImportType
  <2>2. CursorsAgree'
    BY <1>1, <2>1, CursorSideStep DEF At, UnderWay
  <2>3. (~overlapped => OneUnderWay /\ UnderWayIsNewest)'
    BY <2>1 DEF CursorInv, OneUnderWay, UnderWayIsNewest, UnderWay
  <2> QED
    BY <1>1, <2>2, <2>3 DEF CursorInv
<1>7. ASSUME NEW i \in Imports, Insert(i) PROVE CursorInv'
  <2>1. /\ \A j \in Imports \ {i} : import'[j] = import[j]
        /\ import[i].pc = "insert" /\ import'[i].pc = "succeeded"
        /\ import'[i].next = import[i].next
        /\ UNCHANGED <<order, overlapped>>
    BY <1>1, <1>7 DEF Insert, At, ClickTypeOK, ImportType
  <2>2. CursorsAgree'
    <3> SUFFICES ASSUME ~overlapped PROVE RunCursor' = ReplicaCursor'
      BY <2>1 DEF CursorsAgree
    <3>1. order # << >> /\ order[Len(order)] = i /\ order \in Seq(Imports)
      BY <1>1, <2>1 DEF CursorInv, UnderWayIsNewest, ClickTypeOK
    <3>2. /\ Len(order) \in SucceededRuns'
          /\ SucceededRuns' \subseteq 1 .. Len(order) /\ Len(order) \in Nat
      BY <2>1, <3>1 DEF SucceededRuns, At
    <3> DEFINE S == SucceededRuns'
    <3>a. S \subseteq 0 .. Len(order) /\ S # {} /\ Len(order) \in Nat
      BY <3>2
    <3>b. Highest(S) \in S /\ \A d \in S : d <= Highest(S)
      <4> HIDE DEF S
      <4> QED
        BY <3>a, HighestBelow
    <3>3. /\ Highest(SucceededRuns') \in SucceededRuns'
          /\ \A d \in SucceededRuns' : d <= Highest(SucceededRuns')
      BY <3>b
    <3>4. Highest(SucceededRuns') = Len(order)
      <4>1. Highest(SucceededRuns') \in 1 .. Len(order)
        BY <3>2, <3>3
      <4>2. Len(order) <= Highest(SucceededRuns')
        BY <3>2, <3>3
      <4> QED
        BY <3>2, <4>1, <4>2
    <3>5. RunCursor' = import[i].next
      BY <2>1, <3>1, <3>2, <3>4 DEF RunCursor, SucceededRuns
    <3>6. Replicated' = Replicated \cup Missing(i)
      <4>1. Missing(i) \subseteq Clicks
        BY <1>1, ClickNumbers DEF Missing
      <4>2. replica' = [c \in Clicks |-> IF c \in Missing(i) THEN i ELSE replica[c]]
        BY <1>7 DEF Insert
      <4> QED
        BY <4>1, <4>2, ClickAssumption DEF Replicated
    <3> QED
      BY <1>7, <3>5, <3>6 DEF Insert, ReplicaCursor
  <2>3. (~overlapped => OneUnderWay /\ UnderWayIsNewest)'
    BY <2>1 DEF CursorInv, OneUnderWay, UnderWayIsNewest, UnderWay
  <2> QED
    BY <1>1, <2>2, <2>3 DEF CursorInv
<1>8. CASE UNCHANGED clickVars
  BY <1>2, <1>8 DEF clickVars, importVars
<1> QED
  BY <1>3, <1>4, <1>5, <1>6, <1>7, <1>8 DEF ClickNext, Import

\* The run cursor and the replica cursor agree, so that the next import may
\* begin, unless two imports overlapped at some time.
THEOREM CursorsAgreeOfImports == ClickSpec => []CursorsAgree
<1>1. ClickInit => CursorInv
  <2> SUFFICES ASSUME ClickInit PROVE CursorInv
    OBVIOUS
  <2>1. SucceededRuns = {} /\ Replicated = {}
    BY DEF ClickInit, SucceededRuns, Replicated
  <2>2. RunCursor = 0 /\ ReplicaCursor = 0
    BY <2>1 DEF RunCursor, ReplicaCursor, SucceededRuns, Highest
  <2> QED
    BY <2>2, ClickTypeInit
    DEF ClickInit, Idle, CursorInv, CursorsAgree, OneUnderWay, UnderWayIsNewest, UnderWay
<1>2. CursorInv /\ [ClickNext]_clickVars => CursorInv'
  BY CursorInvStep
<1>3. CursorInv => CursorsAgree
  BY DEF CursorInv
<1> QED
  BY <1>1, <1>2, <1>3, PTL DEF ClickSpec

-----------------------------------------------------------------------------
(* The probe drives what it asks for and nothing else.                      *)

\* Every step of the probe is a step of the clicks and imports, or leaves them
\* alone.
LEMMA ProbeStepIsClickStep == [Next]_vars => [ClickNext]_clickVars
<1> SUFFICES ASSUME [Next]_vars PROVE [ClickNext]_clickVars
  OBVIOUS
<1>1. CASE Script
  BY <1>1 DEF Script, Initialise, PlanActive, PlanDisable, ExecuteActive, ExecuteGo,
              ExecuteDisable, Step, Execute, Moves, Send, ConfirmActive, ConfirmGo,
              ConfirmDisable, Confirm, Abandon, Look, ReconcileActive, ReconcileDisable,
              Reconcile, CountClicks, ReconcileGo, RecordImport
<1>2. CASE Plugin
  <2>1. PICK n \in Requests : \/ Decide(n) \/ CommitInsert(n) \/ CommitUpdate(n)
                              \/ Resolve(n) \/ \E c \in Clicks : Redirect(n, c)
                              \/ TurnAway(n) \/ Refuse(n)
    BY <1>2 DEF Plugin
  <2>2. ASSUME NEW c \in Clicks, Redirect(n, c) PROVE ClickNext
    BY <2>2, ProbeAssumption DEF Redirect, ClickNext
  <2>3. CASE Decide(n) \/ CommitInsert(n) \/ CommitUpdate(n) \/ Resolve(n) \/ TurnAway(n)
             \/ Refuse(n)
    BY <2>3 DEF Decide, CommitInsert, CommitUpdate, Resolve, TurnAway, Refuse
  <2> QED
    BY <2>1, <2>2, <2>3
<1>3. CASE Others
  BY <1>3 DEF Others, ClickNext
<1>4. CASE UNCHANGED vars
  BY <1>4 DEF vars
<1> QED
  BY <1>1, <1>2, <1>3, <1>4 DEF Next

\* The probe implements the click import: what it does to the plugin's clicks
\* and to the replica is what readers and imports may do.
THEOREM ProbeImplementsClickImport == Spec => ClickSpec
<1>1. Init => ClickInit
  BY DEF Init
<1>2. [Next]_vars => [ClickNext]_clickVars
  BY ProbeStepIsClickStep
<1> QED
  BY <1>1, <1>2, PTL DEF Spec, ClickSpec

\* However imports overlap, fail or die and whatever the probe does meanwhile,
\* no import passes over a click that was there to be exported.
THEOREM NothingSkippedCorrect == Spec => []NothingSkipped
<1>1. ClickInv => NothingSkipped
  BY DEF ClickInv
<1> QED
  BY <1>1, ClickInvariant, ProbeImplementsClickImport, PTL

\* The cursors of the import agree beside a probe as well.
THEOREM CursorsAgreeCorrect == Spec => []CursorsAgree
  BY CursorsAgreeOfImports, ProbeImplementsClickImport, PTL

-----------------------------------------------------------------------------
(* What the file says of the plugin.                                        *)

Attempts == {"active_attempted", "click_attempted", "disable_attempted"}
Retiring == {"disable_prepared", "disable_attempted", "disabled_confirmed"}

\* A process that sends or waits does what the file says was attempted.
ProbeJobKnows ==
    /\ job.pc \in {"send", "await"} => probe.state \in Attempts
    /\ job.pc = "await" => job.n \in Requests /\ request[job.n].kind = Kind
    /\ job.pc = "count" => In("click_attempted")

\* Nothing is sent before the first attempt, and nothing is retired before the
\* import was confirmed.
RequestsFollow ==
    /\ probe.state \in {"none", "initialized"} => \A n \in Requests : request[n] = NoRequest
    /\ \A n \in Requests : request[n].kind = "disable" => probe.state \in Retiring

\* A decision is one of a request that has a row, an answer is true for good.
AnswersAreTrue ==
    \A n \in Requests :
        /\ request[n].wire = "insert" => request[n].kind \in {"active", "disable"}
        /\ request[n].wire = "update" => request[n].kind = "disable"
        /\ request[n].wire = "inserted" => runtime # "none"
        /\ request[n].wire = "updated" => runtime = "disabled"

\* Only a request to retire retires.
RetiredByRequest ==
    runtime = "disabled" => \E n \in Requests : request[n].kind = "disable"

\* The row a person saw is still there, and still retired if it was.
SeenIsPast ==
    /\ seen = "active" => runtime # "none"
    /\ seen = "disabled" => runtime = "disabled"

ProbeInv ==
    /\ ProbeTypeOK
    /\ ProbeJobKnows
    /\ RequestsFollow
    /\ AnswersAreTrue
    /\ RetiredByRequest
    /\ SeenIsPast
    /\ RecordIsTrue

ProbeType ==
    [state : ProbeStates \cup {"none"}, contaminated : BOOLEAN,
     click : Clicks \cup {NoClick}, run : Imports \cup {NoImport}]
RequestType ==
    [kind : {"none", "active", "go", "disable"},
     wire : {"none", "sent", "insert", "update", "resolved", "inserted", "updated",
             "redirected", "refused"},
     click : Clicks \cup {NoClick}]

JobType == [pc : {"idle", "send", "await", "count"}, n : Nat]
RuntimeStates == {"none", "active", "disabled"}

ProbeTyped ==
    /\ ClickTypeOK
    /\ probe \in ProbeType
    /\ job \in JobType
    /\ request \in [Requests -> RequestType]
    /\ runtime \in RuntimeStates
    /\ seen \in RuntimeStates \cup {"nothing"}

LEMMA ProbeTypes == (ProbeTypeOK <=> ProbeTyped) /\ (ProbeTypeOK' <=> ProbeTyped')
BY DEF ProbeTyped, ProbeTypeOK, ProbeType, RequestType, JobType, RuntimeStates

\* A count of clicks is a number.
LEMMA CountIsNat ==
    Cardinality(OwnClicks(Page(0, ExportMax))) \in Nat
<1>1. OwnClicks(Page(0, ExportMax)) \subseteq 1 .. MaxClicks
  BY PageIsClicks DEF OwnClicks, Clicks
<1>2. IsFiniteSet(1 .. MaxClicks)
  BY FS_Interval, ClickAssumption
<1>3. IsFiniteSet(OwnClicks(Page(0, ExportMax)))
  BY <1>1, <1>2, FS_Subset
<1> QED
  BY <1>3, FS_CardinalityType

\* What every action of the probe keeps.
LEMMA ProbeTypeStep ==
    ASSUME ProbeTypeOK, [Next]_vars
    PROVE  ProbeTypeOK'
<1> USE ProbeTypes DEF ProbeTyped, RuntimeStates
<1>0. ClickTypeOK'
  BY ProbeStepIsClickStep, ClickTypeStep
<1>1. ASSUME NEW state \in ProbeStates, Moves(state),
             job' \in JobType,
             seen' \in RuntimeStates \cup {"nothing"}
      PROVE  ProbeTypeOK'
  BY <1>0, <1>1 DEF Moves, ProbeType
<1>2. Free \in JobType
  BY DEF Free, JobType
<1>3. CASE Initialise \/ PlanActive \/ PlanDisable
  BY <1>1, <1>3 DEF Initialise, PlanActive, PlanDisable, Step, ProbeStates
<1>4. CASE ExecuteActive \/ ExecuteGo \/ ExecuteDisable
  BY <1>1, <1>4 DEF ExecuteActive, ExecuteGo, ExecuteDisable, Execute, ProbeStates, JobType
<1>5. CASE ConfirmActive \/ ConfirmGo \/ ConfirmDisable
  BY <1>1, <1>2, <1>5 DEF ConfirmActive, ConfirmGo, ConfirmDisable, Confirm, ProbeStates
<1>6. ASSUME NEW n \in Requests, Send(n) PROVE ProbeTypeOK'
  <2>1. n \in Nat /\ Kind \in {"active", "go", "disable"}
    BY DEF Requests, Kind
  <2>2. [NoRequest EXCEPT !.kind = Kind, !.wire = "sent"] \in RequestType
    BY <2>1 DEF NoRequest, RequestType
  <2> QED
    BY <1>0, <1>6, <2>1, <2>2 DEF Send, JobType
<1>7. CASE Abandon \/ Look
  BY <1>0, <1>2, <1>7 DEF Abandon, Look
<1>8. CASE ReconcileActive \/ ReconcileDisable
  BY <1>1, <1>8 DEF ReconcileActive, ReconcileDisable, Reconcile, ProbeStates
<1>9. CASE CountClicks
  BY <1>0, <1>9, CountIsNat DEF CountClicks, JobType
<1>10. CASE ReconcileGo
  <2>1. probe' \in ProbeType
    BY <1>10 DEF ReconcileGo, ProbeType, ProbeStates
  <2> QED
    BY <1>0, <1>2, <1>10, <2>1 DEF ReconcileGo
<1>11. CASE RecordImport
  <2>1. PICK c \in Clicks :
             /\ OwnClicks(Replicated) = {c}
             /\ probe' = [probe EXCEPT !.state = "import_confirmed",
                                       !.click = c, !.run = replica[c]]
    BY <1>11 DEF RecordImport
  <2>2. replica[c] \in Imports \cup {NoImport}
    BY DEF ClickTypeOK
  <2>3. probe' \in ProbeType
    BY <2>1, <2>2 DEF ProbeType, ProbeStates
  <2> QED
    BY <1>0, <1>11, <2>3 DEF RecordImport
<1>12. CASE Plugin
  <2>1. PICK n \in Requests : \/ Decide(n) \/ CommitInsert(n) \/ CommitUpdate(n)
                              \/ Resolve(n) \/ \E c \in Clicks : Redirect(n, c)
                              \/ TurnAway(n) \/ Refuse(n)
    BY <1>12 DEF Plugin
  <2>2. request' \in [Requests -> RequestType]
    BY <2>1 DEF Decide, CommitInsert, CommitUpdate, Resolve, Redirect, TurnAway, Refuse,
                Becomes, RequestType
  <2>3. runtime' \in RuntimeStates
    BY <2>1 DEF Decide, CommitInsert, CommitUpdate, Resolve, Redirect, TurnAway, Refuse
  <2>4. UNCHANGED <<probe, job, seen>>
    BY <2>1 DEF Decide, CommitInsert, CommitUpdate, Resolve, Redirect, TurnAway, Refuse
  <2> QED
    BY <1>0, <2>2, <2>3, <2>4
<1>13. CASE Others \/ UNCHANGED vars
  BY <1>0, <1>13 DEF Others, probeVars, vars
<1> QED
  BY <1>3, <1>4, <1>5, <1>6, <1>7, <1>8, <1>9, <1>10, <1>11, <1>12, <1>13 DEF Next, Script

LEMMA ProbeInvInit == Init => ProbeInv
<1> SUFFICES ASSUME Init PROVE ProbeInv
  OBVIOUS
<1>1. ProbeTypeOK
  <2>1. NoRequest \in RequestType /\ Free \in JobType
    BY DEF NoRequest, RequestType, Free, JobType
  <2> QED
    BY <2>1, ClickTypeInit, ProbeTypes DEF Init, ProbeType, ProbeTyped, RuntimeStates
<1> QED
  BY <1>1 DEF Init, ProbeInv, ProbeJobKnows, RequestsFollow, AnswersAreTrue,
              RetiredByRequest, SeenIsPast, RecordIsTrue, NoRequest, Free, In

\* The file moves and the plugin does not.
LEMMA FileStep ==
    ASSUME ProbeInv, ProbeTypeOK', UNCHANGED <<request, runtime>>,
           ProbeJobKnows', SeenIsPast', RecordIsTrue',
           probe'.state \in {"none", "initialized"} => probe'.state = probe.state
                                                       \/ probe.state = "none",
           probe.state \in Retiring => probe'.state \in Retiring
    PROVE  ProbeInv'
BY DEF ProbeInv, RequestsFollow, AnswersAreTrue, RetiredByRequest

LEMMA ScriptStep ==
    ASSUME ProbeInv, ProbeTypeOK', Script
    PROVE  ProbeInv'
<1> USE DEF ProbeInv, ProbeJobKnows, SeenIsPast, RuntimeStates
<1>1. /\ probe \in ProbeType /\ runtime \in RuntimeStates
      /\ probe.state \in ProbeStates \cup {"none"}
  BY ProbeTypes DEF ProbeTyped, ProbeType
<1>2. probe.state \notin Retiring => runtime # "disabled"
  BY DEF RequestsFollow, RetiredByRequest
<1>3. CASE Initialise \/ PlanActive \/ PlanDisable
  <2>1. /\ \/ In("none") /\ probe'.state = "initialized"
           \/ In("initialized") /\ probe'.state = "active_prepared"
           \/ In("import_confirmed") /\ probe'.state = "disable_prepared"
        /\ job.pc = "idle" /\ UNCHANGED <<job, seen, request, runtime>>
    BY <1>1, <1>3
    DEF Initialise, PlanActive, PlanDisable, Step, Moves, In, Unlocked, ProbeType
  <2>2. RecordIsTrue'
    BY <2>1 DEF RecordIsTrue, In
  <2> QED
    BY <2>1, <2>2, FileStep DEF In, Retiring
<1>4. CASE ExecuteActive \/ ExecuteGo \/ ExecuteDisable
  <2>1. /\ \/ In("active_prepared") /\ probe'.state = "active_attempted"
           \/ In("active_confirmed") /\ probe'.state = "click_attempted"
           \/ In("disable_prepared") /\ probe'.state = "disable_attempted"
        /\ job'.pc = "send" /\ seen' = "nothing" /\ UNCHANGED <<request, runtime>>
    BY <1>1, <1>4 DEF ExecuteActive, ExecuteGo, ExecuteDisable, Execute, Moves, In, ProbeType
  <2>2. RecordIsTrue'
    BY <2>1 DEF RecordIsTrue, In
  <2> QED
    BY <2>1, <2>2, FileStep DEF In, Attempts, Retiring
<1>5. ASSUME NEW n \in Requests, Send(n) PROVE ProbeInv'
  <2>1. /\ request'[n].kind = Kind /\ request'[n].wire = "sent"
        /\ \A m \in Requests \ {n} : request'[m] = request[m]
        /\ request[n] = NoRequest
        /\ UNCHANGED <<probe, runtime, seen>> /\ job' = [pc |-> "await", n |-> n]
        /\ probe.state \in Attempts
    BY <1>5, ProbeTypes DEF Send, NoRequest, ProbeTyped, RequestType
  <2>2. Kind' = Kind /\ (Kind = "disable" <=> In("disable_attempted"))
    BY <2>1 DEF Kind, In, Attempts
  <2>3. RequestsFollow'
    BY <2>1, <2>2 DEF RequestsFollow, Attempts, In, Retiring
  <2>4. AnswersAreTrue' /\ RecordIsTrue'
    BY <2>1 DEF AnswersAreTrue, RecordIsTrue, In
  <2>5. RetiredByRequest'
    BY <2>1 DEF RetiredByRequest, NoRequest
  <2> QED
    BY <2>1, <2>2, <2>3, <2>4, <2>5
<1>6. CASE ConfirmActive
  <2>1. In("active_attempted") /\ runtime # "none"
    BY <1>1, <1>6 DEF ConfirmActive, Awaiting, AnswersAreTrue, Kind
  <2> QED
    BY <1>1, <1>2, <1>6, <2>1, FileStep
    DEF ConfirmActive, Confirm, Moves, In, RecordIsTrue, Retiring, Free
<1>7. CASE ConfirmGo
  <2>1. In("click_attempted")
    BY <1>1, <1>7 DEF ConfirmGo, Awaiting, Kind
  <2> QED
    BY <1>1, <1>7, <2>1, FileStep
    DEF ConfirmGo, Confirm, Moves, In, RecordIsTrue, Retiring, Free
<1>8. CASE ConfirmDisable
  <2>1. In("disable_attempted") /\ runtime = "disabled"
    BY <1>1, <1>8 DEF ConfirmDisable, Awaiting, AnswersAreTrue, Kind, Attempts, In
  <2> QED
    BY <1>1, <1>8, <2>1, FileStep
    DEF ConfirmDisable, Confirm, Moves, In, RecordIsTrue, Retiring, Free
<1>9. CASE Abandon
  BY <1>9, FileStep DEF Abandon, Free, RecordIsTrue, In
<1>10. CASE Look
  BY <1>10, FileStep DEF Look, Unlocked, RecordIsTrue, In, Kind
<1>11. CASE ReconcileActive
  BY <1>1, <1>2, <1>11, FileStep
  DEF ReconcileActive, Reconcile, Moves, In, RecordIsTrue, Retiring, Unlocked
<1>12. CASE ReconcileDisable
  BY <1>1, <1>12, FileStep
  DEF ReconcileDisable, Reconcile, Moves, In, RecordIsTrue, Retiring, Unlocked
<1>13. CASE CountClicks
  BY <1>13, FileStep DEF CountClicks, Unlocked, RecordIsTrue, In
<1>14. CASE ReconcileGo
  <2>1. probe'.state \in {"active_confirmed", "click_confirmed", "click_attempted"}
    BY <1>1, <1>14 DEF ReconcileGo, ProbeType
  <2> QED
    BY <1>14, <2>1, FileStep DEF ReconcileGo, Free, In, RecordIsTrue, Retiring
<1>15. CASE RecordImport
  <2>1. probe'.state = "import_confirmed" /\ In("click_confirmed")
    BY <1>1, <1>15 DEF RecordImport, ProbeType
  <2> QED
    BY <1>15, <2>1, FileStep DEF RecordImport, Unlocked, In, RecordIsTrue, Retiring
<1> QED
  BY <1>3, <1>4, <1>5, <1>6, <1>7, <1>8, <1>9, <1>10, <1>11, <1>12, <1>13, <1>14, <1>15
  DEF Script

\* The plugin moves one request, and its row only forward.
LEMMA PluginStep ==
    ASSUME ProbeInv, ProbeTypeOK', Plugin
    PROVE  ProbeInv'
<1> USE DEF ProbeInv, ProbeTyped, RuntimeStates
<1>1. PICK n \in Requests : \/ Decide(n) \/ CommitInsert(n) \/ CommitUpdate(n)
                            \/ Resolve(n) \/ \E c \in Clicks : Redirect(n, c)
                            \/ TurnAway(n) \/ Refuse(n)
  BY DEF Plugin
<1>2. /\ request'[n].kind = request[n].kind
      /\ \A m \in Requests \ {n} : request'[m] = request[m]
      /\ request[n] # NoRequest
      /\ UNCHANGED <<probe, job, seen>>
  BY <1>1, ProbeTypes
  DEF Decide, CommitInsert, CommitUpdate, Resolve, Redirect, TurnAway, Refuse, Becomes,
      Is, RequestType, NoRequest
<1>3. /\ runtime' = runtime \/ runtime = "none" \/ runtime' = "disabled"
      /\ runtime # "none" => runtime' # "none"
      /\ runtime = "disabled" => runtime' = "disabled"
      /\ runtime' = "disabled" /\ runtime # "disabled" => request[n].kind = "disable"
  BY <1>1 DEF Decide, CommitInsert, CommitUpdate, Resolve, Redirect, TurnAway, Refuse,
              AnswersAreTrue
<1>4. /\ request'[n].wire = "insert" => request[n].kind \in {"active", "disable"}
      /\ request'[n].wire = "update" => request[n].kind = "disable"
      /\ request'[n].wire = "inserted" => runtime' # "none"
      /\ request'[n].wire = "updated" => runtime' = "disabled"
  BY <1>1, ProbeTypes
  DEF Decide, CommitInsert, CommitUpdate, Resolve, Redirect, TurnAway, Refuse,
      Becomes, Is, RequestType, AnswersAreTrue
<1>5. ProbeJobKnows'
  BY <1>2 DEF ProbeJobKnows, In, Kind
<1>6. RequestsFollow'
  BY <1>2 DEF RequestsFollow
<1>7. AnswersAreTrue'
  BY <1>2, <1>3, <1>4 DEF AnswersAreTrue
<1>8. RetiredByRequest'
  BY <1>2, <1>3 DEF RetiredByRequest
<1>9. SeenIsPast'
  BY <1>2, <1>3 DEF SeenIsPast
<1>10. RecordIsTrue'
  <2>1. probe.state \in {"none", "initialized"} => FALSE
    BY <1>2 DEF RequestsFollow
  <2>2. probe.state \in Retiring \/ runtime' # "disabled"
    BY <1>2, <1>3 DEF RequestsFollow, RetiredByRequest
  <2>3. runtime' \in RuntimeStates
    BY ProbeTypes
  <2> QED
    BY <1>2, <1>3, <2>1, <2>2, <2>3 DEF RecordIsTrue, In, Retiring
<1> QED
  BY <1>5, <1>6, <1>7, <1>8, <1>9, <1>10

\* The types and the record of the probe, and what they rest on.
THEOREM ProbeInvariant == Spec => []ProbeInv
<1>1. Init => ProbeInv
  BY ProbeInvInit
<1>2. ProbeInv /\ [Next]_vars => ProbeInv'
  <2> SUFFICES ASSUME ProbeInv, [Next]_vars PROVE ProbeInv'
    OBVIOUS
  <2>1. ProbeTypeOK'
    BY ProbeTypeStep DEF ProbeInv
  <2>2. CASE Script
    BY <2>1, <2>2, ScriptStep
  <2>3. CASE Plugin
    BY <2>1, <2>3, PluginStep
  <2>4. CASE Others \/ UNCHANGED vars
    BY <2>1, <2>4 DEF Others, vars, probeVars, ProbeInv, ProbeJobKnows, RequestsFollow,
       AnswersAreTrue, RetiredByRequest, SeenIsPast, RecordIsTrue, In, Kind
  <2> QED
    BY <2>2, <2>3, <2>4 DEF Next
<1> QED
  BY <1>1, <1>2, PTL DEF Spec

\* Every variable of the probe, of the plugin and of the imports has its type.
THEOREM ProbeTypeCorrect == Spec => []ProbeTypeOK
<1>1. ProbeInv => ProbeTypeOK
  BY DEF ProbeInv
<1> QED
  BY <1>1, ProbeInvariant, PTL

\* What the state file says of the plugin is so, whatever requests are late.
THEOREM RecordIsTrueCorrect == Spec => []RecordIsTrue
<1>1. ProbeInv => RecordIsTrue
  BY DEF ProbeInv
<1> QED
  BY <1>1, ProbeInvariant, PTL

-----------------------------------------------------------------------------
(* The evidence of the probe.                                               *)

\* What is exported and imported was there.
PagesAreStored == \A i \in Imports : import[i].page \subseteq Stored
ReplicatedIsStored == Replicated \subseteq Stored

\* The evidence names a run.
EvidenceHasRun == probe.click # NoClick => probe.run \in Imports

EvidenceInv ==
    /\ ClickInv
    /\ ProbeTypeOK
    /\ PagesAreStored
    /\ ReplicatedIsStored
    /\ EvidenceHasRun
    /\ EvidenceStands

\* Rows of the plugin, of the replica and of succeeded runs never change, and a
\* row that is stored behind the export is late.
LEMMA ClicksAreKept ==
    ASSUME ClickInv, PagesAreStored, ReplicatedIsStored, [ClickNext]_clickVars
    PROVE  /\ \A c \in Stored : c \in Stored' /\ click'[c] = click[c]
           /\ \A c \in Stored' \ Stored : c <= exported => c \in late'
           /\ \A c \in Replicated : replica'[c] = replica[c]
           /\ \A i \in Imports : At(i, "succeeded") => import'[i] = import[i]
           /\ late \subseteq late'
           /\ PagesAreStored' /\ ReplicatedIsStored'
<1> DEFINE Kept == /\ \A c \in Stored : c \in Stored' /\ click'[c] = click[c]
                   /\ \A c \in Stored' \ Stored : c <= exported => c \in late'
                   /\ \A c \in Replicated : replica'[c] = replica[c]
                   /\ \A i \in Imports : At(i, "succeeded") => import'[i] = import[i]
                   /\ late \subseteq late'
                   /\ PagesAreStored' /\ ReplicatedIsStored'
<1> USE DEF PagesAreStored, ReplicatedIsStored
<1>0. /\ click \in [Clicks -> ClickType] /\ import \in [Imports -> ImportType]
      /\ replica \in [Clicks -> Imports \cup {NoImport}]
      /\ exported \in Nat /\ Clicks \subseteq Nat \ {0}
      /\ Replicated \subseteq Stored /\ Stored \subseteq Clicks
  BY ClickNumbers DEF ClickInv, ClickTypeOK, Stored
<1>1. ASSUME NEW c \in Clicks,
             \/ \E t \in Tokens : BeginClick(c, t)
             \/ StoreClick(c)
             \/ LoseClick(c)
      PROVE  Kept
  <2>1. /\ UNCHANGED <<import, replica, exported>> /\ late \subseteq late'
        /\ \A d \in Clicks \ {c} : click'[d] = click[d]
        /\ c \notin Stored
        /\ c \in Stored' => late' = IF c < exported THEN late \cup {c} ELSE late
    BY <1>0, <1>1 DEF BeginClick, StoreClick, LoseClick, importVars, Stored, ClickType
  <2>2. \A d \in Stored : d \in Stored' /\ click'[d] = click[d]
    BY <2>1 DEF Stored
  <2>3. Stored' \ Stored \subseteq {c}
    BY <2>1 DEF Stored
  <2>4. c <= exported /\ c \in Stored' => c \in late'
    <3>1. c # exported
      BY <1>0, <2>1 DEF ClickInv, ExportedIsStored
    <3> QED
      BY <1>0, <2>1, <3>1
  <2>5. UNCHANGED Replicated
    BY <2>1 DEF Replicated
  <2> QED
    BY <2>1, <2>2, <2>3, <2>4, <2>5
<1>2. ASSUME NEW i \in Imports, NEW page \in SUBSET Stored,
             UNCHANGED <<click, late, replica>>,
             ~At(i, "succeeded"), \A j \in Imports \ {i} : import'[j] = import[j],
             import'[i].page \in {import[i].page, page, {}}
      PROVE  Kept
  <2>1. UNCHANGED <<Stored, Replicated>>
    BY <1>2 DEF Stored, Replicated
  <2>2. \A j \in Imports : import'[j].page \subseteq Stored
    BY <1>2
  <2> QED
    BY <1>2, <2>1, <2>2
<1>3. ASSUME NEW i \in Imports, Import(i) PROVE Kept
  <2>1. ASSUME NEW limit \in PageLimits, Preflight(i, limit) PROVE Kept
    <3>1. /\ import'[i].page = import[i].page /\ ~At(i, "succeeded")
          /\ \A j \in Imports \ {i} : import'[j] = import[j]
          /\ UNCHANGED <<click, late, replica>>
      BY <1>0, <2>1 DEF Preflight, At, ImportType
    <3> QED
      BY <1>2, <3>1
  <2>2. CASE StoreImport(i) \/ Load(i) \/ Fail(i)
    <3>1. /\ import'[i].page \in {import[i].page, {}} /\ ~At(i, "succeeded")
          /\ \A j \in Imports \ {i} : import'[j] = import[j]
          /\ UNCHANGED <<click, late, replica>>
      BY <1>0, <2>2 DEF StoreImport, Load, Fail, UnderWay, At, ImportType, Idle
    <3> QED
      BY <1>2, <3>1
  <2>3. CASE Fetch(i)
    <3> DEFINE page == Page(import[i].since, import[i].limit)
    <3>1. page \in SUBSET Stored
      BY PageIsClicks
    <3>2. /\ import'[i].page = page /\ ~At(i, "succeeded")
          /\ \A j \in Imports \ {i} : import'[j] = import[j]
          /\ UNCHANGED <<click, late, replica>>
      BY <1>0, <2>3 DEF Fetch, At, ImportType
    <3> HIDE DEF page
    <3> QED
      BY <1>2, <3>1, <3>2
  <2>4. CASE Insert(i)
    <3>1. /\ UNCHANGED <<click, late>> /\ ~At(i, "succeeded")
          /\ \A j \in Imports \ {i} : import'[j] = import[j]
          /\ import'[i].page = import[i].page
          /\ Missing(i) \cap Replicated = {}
          /\ replica' = [c \in Clicks |-> IF c \in Missing(i) THEN i ELSE replica[c]]
      BY <1>0, <2>4 DEF Insert, At, ImportType
    <3>2. Missing(i) \subseteq Stored
      BY DEF Missing
    <3>3. UNCHANGED Stored /\ Replicated' \subseteq Replicated \cup Missing(i)
      BY <3>1, ClickAssumption DEF Stored, Replicated
    <3>4. \A c \in Replicated : replica'[c] = replica[c]
      BY <1>0, <3>1
    <3> QED
      BY <3>1, <3>2, <3>3, <3>4
  <2> QED
    BY <1>3, <2>1, <2>2, <2>3, <2>4 DEF Import
<1>4. CASE UNCHANGED clickVars
  <2>1. UNCHANGED <<click, import, replica, late, Stored, Replicated>>
    BY <1>4 DEF clickVars, Stored, Replicated
  <2> QED
    BY <2>1
<1>5. CASE ClickNext
  BY <1>1, <1>3, <1>5 DEF ClickNext
<1> QED
  BY <1>4, <1>5

LEMMA EvidenceKept ==
    ASSUME EvidenceInv, [ClickNext]_clickVars, UNCHANGED <<probe.click, probe.run>>
    PROVE  EvidenceStands' /\ EvidenceHasRun'
<1> USE DEF EvidenceInv
<1> DEFINE e == probe.click
           r == probe.run
<1> SUFFICES ASSUME e # NoClick
             PROVE  /\ r \in Imports
                    /\ click'[e] = [status |-> "stored", token |-> Own]
                    /\ replica'[e] = r
                    /\ At(r, "succeeded")'
                    /\ \A c \in OwnClicks(Stored)' \ {e} : c <= import'[r].next => c \in late'
  BY DEF EvidenceStands, EvidenceHasRun
<1>1. /\ r \in Imports /\ e \in Clicks
      /\ click[e] = [status |-> "stored", token |-> Own]
      /\ replica[e] = r /\ At(r, "succeeded")
      /\ \A c \in OwnClicks(Stored) \ {e} : c <= import[r].next => c \in late
  BY ProbeTypes DEF EvidenceStands, EvidenceHasRun, ProbeTyped, ProbeType
<1>2. e \in Stored /\ e \in Replicated
  BY <1>1, ClickAssumption DEF Stored, Replicated
<1>3. click'[e] = click[e] /\ replica'[e] = replica[e] /\ import'[r] = import[r]
  BY <1>1, <1>2, ClicksAreKept
<1>4. ASSUME NEW c \in Stored', click'[c].token = Own, c # e, c <= import[r].next
      PROVE  c \in late'
  <2>1. CASE c \in Stored
    BY <1>1, <1>4, <2>1, ClicksAreKept DEF OwnClicks
  <2>2. CASE c \notin Stored
    <3>1. import[r].next <= exported
      BY <1>1 DEF ClickInv, ImportBounds
    <3>2. c \in Nat /\ import[r].next \in Nat /\ exported \in Nat
      BY <1>1, ClickNumbers, ClickAssumption DEF ClickInv, Stored
    <3> QED
      BY <1>4, <2>2, <3>1, <3>2, ClicksAreKept
  <2> QED
    BY <2>1, <2>2
<1> QED
  BY <1>1, <1>3, <1>4 DEF OwnClicks, At

\* --record-import finds the only click of the probe that its run could see.
LEMMA EvidenceFound ==
    ASSUME EvidenceInv, RecordImport
    PROVE  EvidenceStands' /\ EvidenceHasRun'
<1> USE DEF EvidenceInv
<1>1. PICK c \in Clicks :
          /\ OwnClicks(Replicated) = {c}
          /\ At(replica[c], "succeeded")
          /\ ReplicaCursor = import[replica[c]].next
          /\ probe' = [probe EXCEPT !.state = "import_confirmed",
                                    !.click = c, !.run = replica[c]]
  BY DEF RecordImport
<1>2. /\ c \in Replicated /\ c \in Stored /\ click[c].token = Own
      /\ click[c] = [status |-> "stored", token |-> Own]
      /\ replica[c] \in Imports
  <2>1. c \in Replicated /\ click[c].token = Own
    BY <1>1 DEF OwnClicks
  <2>2. click[c] \in ClickType /\ replica[c] \in Imports \cup {NoImport}
    BY DEF ClickInv, ClickTypeOK
  <2> QED
    BY <2>1, <2>2 DEF ReplicatedIsStored, Stored, Replicated, ClickType
<1>3. /\ probe'.click = c /\ probe'.run = replica[c]
      /\ UNCHANGED <<click, replica, import, late>>
  BY <1>1, ProbeTypes DEF RecordImport, ProbeTyped, ProbeType, clickVars
<1>4. ASSUME NEW d \in OwnClicks(Stored), d # c, d <= ReplicaCursor
      PROVE  d \in late
  <2>1. d \in Stored /\ click[d].token = Own
    BY DEF OwnClicks
  <2>2. d \notin Replicated
    BY <1>1, <1>4, <2>1 DEF OwnClicks
  <2> QED
    BY <1>4, <2>1, <2>2 DEF ClickInv, NothingSkipped
<1>5. OwnClicks(Stored)' = OwnClicks(Stored)
  BY <1>3 DEF OwnClicks, Stored
<1> QED
  BY <1>1, <1>2, <1>3, <1>4, <1>5 DEF EvidenceStands, EvidenceHasRun, At

\* From --record-import on the evidence stands: the click is the probe's own and
\* came in with the run on record, and no other click of the probe was there for
\* that run to see.
THEOREM EvidenceStandsCorrect == Spec => []EvidenceStands
<1>1. Init => EvidenceInv
  <2> SUFFICES ASSUME Init PROVE EvidenceInv
    OBVIOUS
  <2>1. ClickInv /\ ProbeTypeOK
    BY ClickInvInit, ProbeInvInit DEF Init, ProbeInv
  <2> QED
    BY <2>1 DEF Init, ClickInit, Idle, EvidenceInv, PagesAreStored, ReplicatedIsStored,
                Replicated, EvidenceHasRun, EvidenceStands
<1>2. EvidenceInv /\ [Next]_vars => EvidenceInv'
  <2> SUFFICES ASSUME EvidenceInv, [Next]_vars PROVE EvidenceInv'
    OBVIOUS
  <2>1. [ClickNext]_clickVars
    BY ProbeStepIsClickStep
  <2>2. ClickInv' /\ ProbeTypeOK' /\ PagesAreStored' /\ ReplicatedIsStored'
    BY <2>1, ClickInvStep, ProbeTypeStep, ClicksAreKept DEF EvidenceInv
  <2>3. EvidenceStands' /\ EvidenceHasRun'
    <3>1. CASE RecordImport
      BY <3>1, EvidenceFound
    <3>2. CASE ~RecordImport
      <4>1. UNCHANGED <<probe.click, probe.run>>
        <5>1. probe \in ProbeType
          BY ProbeTypes DEF EvidenceInv, ProbeTyped
        <5>2. \A state : Moves(state) => UNCHANGED <<probe.click, probe.run>>
          BY <5>1 DEF Moves, ProbeType
        <5>3. CASE Script
          <6>1. \/ \E state : Moves(state)
                \/ UNCHANGED probe \/ ReconcileGo
            BY <3>2, <5>3
            DEF Script, Initialise, PlanActive, PlanDisable, ExecuteActive, ExecuteGo,
                ExecuteDisable, Step, Execute, Send, ConfirmActive, ConfirmGo, ConfirmDisable,
                Confirm, Abandon, Look, ReconcileActive, ReconcileDisable, Reconcile,
                CountClicks
          <6>2. ReconcileGo => UNCHANGED <<probe.click, probe.run>>
            BY <5>1 DEF ReconcileGo, ProbeType
          <6>3. QED
            BY <5>2, <6>1, <6>2
        <5>4. CASE Plugin
          BY <5>4
          DEF Plugin, Decide, CommitInsert, CommitUpdate, Resolve, Redirect, TurnAway, Refuse
        <5>5. CASE Others \/ UNCHANGED vars
          BY <5>5 DEF Others, probeVars, vars
        <5>6. QED
          BY <5>3, <5>4, <5>5 DEF Next
      <4> QED
        BY <2>1, <4>1, EvidenceKept
    <3> QED
      BY <3>1, <3>2
  <2> QED
    BY <2>2, <2>3 DEF EvidenceInv
<1>3. EvidenceInv => EvidenceStands
  BY DEF EvidenceInv
<1> QED
  BY <1>1, <1>2, <1>3, PTL DEF Spec
=============================================================================
