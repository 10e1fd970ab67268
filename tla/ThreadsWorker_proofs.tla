------------------------- MODULE ThreadsWorker_proofs -------------------------
(***************************************************************************)
(* Proofs about the execution lock and about the worker under it, for any  *)
(* number of clients and lanes, any staleness limit and any clock: the     *)
(* lock is exclusive as long as its owner keeps its heartbeat fresh, and   *)
(* the worker, which only follows the lock's protocol, inherits that.      *)
(***************************************************************************)
EXTENDS ThreadsWorker, TLAPS

USE LockAssumption DEF Time, Never

ClientType ==
    [pc : PCs, token : Tokens \cup {NoToken}, at : Time,
     beat : Time \cup {Never}, since : Time \cup {Never}]

\* Writing the row keeps the types.
LEMMA TakeType ==
    ASSUME TypeOK, NEW w \in Clients, NEW l \in PCs, Take(w, l)
    PROVE  /\ lock' \in [status : {"absent", "free", "held"},
                          token : Tokens \cup {NoToken}, heartbeat : Time]
           /\ client' \in [Clients -> ClientType]
<1>1. client[w] \in ClientType /\ client \in [Clients -> ClientType] /\ now \in Time
  BY DEF TypeOK, ClientType
<1>2. lock' = [status |-> "held", token |-> client[w].token, heartbeat |-> client[w].at]
  BY DEF Take, Taken
<1>3. client' = [client EXCEPT ![w] = [client[w] EXCEPT !.pc = l, !.beat = client[w].at,
                                                       !.since = now]]
  BY <1>1 DEF Take
<1>4. [client[w] EXCEPT !.pc = l, !.beat = client[w].at, !.since = now] \in ClientType
  BY <1>1 DEF ClientType
<1>5. QED
  <2>1. client[w].token \in Tokens \cup {NoToken} /\ client[w].at \in Time
    BY <1>1 DEF ClientType
  <2>2. QED
    BY <1>1, <1>2, <1>3, <1>4, <2>1

\* The variables keep their types (lock.py: the row, and what acquire() and
\* its callers hold in memory).
THEOREM LockTypeCorrect == Spec => []TypeOK
<1>1. Init => TypeOK
  BY DEF Init, TypeOK, NoRow, Out, PCs
<1>2. TypeOK /\ [Next]_lockVars => TypeOK'
  <2> SUFFICES ASSUME TypeOK, [Next]_lockVars PROVE TypeOK'
    OBVIOUS
  <2> USE DEF TypeOK, PCs, At, Out, Leave
  <2>1. CASE UNCHANGED lockVars
    BY <2>1 DEF lockVars
  <2>2. ASSUME NEW w \in Clients, Blocked(w) PROVE TypeOK'
    BY <2>2 DEF Blocked, lockVars
  <2>3. ASSUME NEW w \in Clients, Observe(w) PROVE TypeOK'
    <3>1. PICK t \in Tokens : client' = [client EXCEPT ![w] =
                [Out EXCEPT !.pc = IF lock.status = "absent" THEN "insert" ELSE "swap",
                            !.token = t, !.at = now]]
      BY <2>3 DEF Observe
    <3>2. client'[w] \in ClientType
      BY <3>1 DEF ClientType
    <3>3. QED
      BY <3>1, <3>2, <2>3 DEF Observe, ClientType
  <2>4. ASSUME NEW w \in Clients, Acquire(w) PROVE TypeOK'
    <3>1. CASE Insert(w)
      BY <3>1, TakeType DEF Insert, ClientType
    <3>2. CASE InsertLost(w)
      BY <3>2 DEF InsertLost
    <3>3. CASE Swap(w)
      BY <3>3, TakeType DEF Swap, ClientType
    <3>4. CASE SwapLost(w)
      BY <3>4 DEF SwapLost
    <3>5. CASE Confirm(w)
      <4>1. client' = IF lock.token = client[w].token
                      THEN [client EXCEPT ![w] = [client[w] EXCEPT !.pc = "in"]]
                      ELSE [client EXCEPT ![w] = Out]
        BY <3>5 DEF Confirm
      <4>2. [client[w] EXCEPT !.pc = "in"] \in ClientType /\ Out \in ClientType
        BY DEF ClientType
      <4>3. client' \in [Clients -> ClientType]
        BY <4>1, <4>2 DEF ClientType
      <4>4. QED
        BY <3>5, <4>3 DEF Confirm, ClientType
    <3>6. QED
      BY <2>4, <3>1, <3>2, <3>3, <3>4, <3>5 DEF Acquire
  <2>5. ASSUME NEW w \in Clients, Keep(w) PROVE TypeOK'
    <3>1. CASE ReadClock(w)
      BY <3>1 DEF ReadClock
    <3>2. CASE Heartbeat(w)
      BY <3>2 DEF Heartbeat
    <3>3. CASE HeartbeatLost(w)
      BY <3>3 DEF HeartbeatLost
    <3>4. QED
      BY <2>5, <3>1, <3>2, <3>3 DEF Keep
  <2>6. ASSUME NEW w \in Clients, Release(w) PROVE TypeOK'
    BY <2>6 DEF Release
  <2>7. ASSUME NEW w \in Clients, Die(w) PROVE TypeOK'
    BY <2>7 DEF Die
  <2>8. CASE Tick
    BY <2>8 DEF Tick
  <2>9. QED
    BY <2>1, <2>2, <2>3, <2>4, <2>5, <2>6, <2>7, <2>8 DEF Next
<1>3. QED
  BY <1>1, <1>2, PTL DEF Spec

-----------------------------------------------------------------------------
(* The inductive invariant, one lemma per kind of step.                     *)

\* A client that stops takes its claim to the lock with it.
LEMMA LeaveKeeps ==
    ASSUME TypeOK, LockInv, NEW w \in Clients, Leave(w), now' = now,
           \/ lock' = lock
           \/ lock' = [lock EXCEPT !.status = "free"] /\ Owns(w) /\ At(w, "in")
    PROVE  LockInv'
<1>1. client'[w] = Out /\ \A v \in Clients : v # w => client'[v] = client[v]
  BY DEF TypeOK, Leave
<1>2. lock'.token = lock.token /\ lock'.heartbeat = lock.heartbeat
  BY DEF TypeOK
<1>3. \A v \in Clients : Took(v)' => v # w /\ Took(v)
  BY <1>1 DEF Took, Out
<1>4. lock'.status = lock.status \/ (lock'.status = "free" /\ \A v \in Clients :
        v # w /\ ~At(v, "out") => lock.token # client[v].token)
  BY DEF TypeOK, Owns, At, LockInv, TokensDiffer
<1>5. TokensDiffer'
  BY <1>1, <1>2 DEF LockInv, TokensDiffer, At, Out
<1>6. BeatIsKept'
  <2> SUFFICES ASSUME NEW v \in Clients, Took(v)'
               PROVE  /\ client'[v].beat # Never
                      /\ client'[v].since # Never
                      /\ client'[v].since <= now'
                      /\ lock'.status # "absent"
                      /\ lock'.token = client'[v].token =>
                            lock'.status = "held" /\ lock'.heartbeat = client'[v].beat
                      /\ lock'.token # client'[v].token => now' - client'[v].beat > Stale
    BY DEF BeatIsKept
  <2>1. v # w /\ Took(v) /\ client'[v] = client[v] /\ ~At(v, "out")
    BY <1>1, <1>3 DEF Took, At
  <2>2. QED
    BY <1>2, <1>4, <2>1 DEF LockInv, BeatIsKept
<1>7. StaleBefore' /\ OwnerTookLast' /\ ClocksPast'
  <2>1. StaleBefore'
    BY <1>1, <1>3 DEF LockInv, StaleBefore
  <2>2. OwnerTookLast'
    BY <1>1, <1>2, <1>3 DEF LockInv, OwnerTookLast
  <2>3. ClocksPast'
    BY <1>1 DEF LockInv, ClocksPast, Out, TypeOK
  <2>4. QED
    BY <2>1, <2>2, <2>3
<1>8. QED
  BY <1>5, <1>6, <1>7 DEF LockInv

\* Taking the row: it was absent, free, or stale as the taker saw it.
LEMMA TakeKeeps ==
    ASSUME TypeOK, LockInv, NEW w \in Clients, NEW l \in {"in", "confirm"},
           client[w].pc \in {"insert", "swap"}, Take(w, l), now' = now,
           lock.status \in {"absent", "free"} \/ IsStale(client[w].at)
    PROVE  LockInv'
<1>0. client[w] \in ClientType /\ now \in Time /\ Stale \in Int /\ lock.heartbeat \in Time
  BY DEF TypeOK, ClientType
<1>1. /\ client'[w] = [client[w] EXCEPT !.pc = l, !.beat = client[w].at, !.since = now]
      /\ \A v \in Clients : v # w => client'[v] = client[v]
  BY DEF TypeOK, Take
<1>2. /\ client'[w].pc = l
      /\ client'[w].beat = client[w].at
      /\ client'[w].since = now
      /\ client'[w].token = client[w].token
      /\ client'[w].at = client[w].at
  BY <1>0, <1>1 DEF ClientType
<1>3. lock' = [status |-> "held", token |-> client[w].token, heartbeat |-> client[w].at]
  BY DEF Take, Taken
<1>4. ~Took(w) /\ Took(w)' /\ client[w].token # lock.token /\ ~At(w, "out")
  BY <1>2 DEF Took, LockInv, TokensDiffer, At
<1>5. \A v \in Clients : v # w /\ Took(v) => now - client[v].beat > Stale
  <2> SUFFICES ASSUME NEW v \in Clients, v # w, Took(v) PROVE now - client[v].beat > Stale
    OBVIOUS
  <2>1. client[v] \in ClientType
    BY DEF TypeOK, ClientType
  <2>2. CASE lock.token # client[v].token
    BY <2>2 DEF LockInv, BeatIsKept
  <2>3. CASE lock.token = client[v].token
    <3>1. lock.status = "held" /\ lock.heartbeat = client[v].beat
      BY <2>3 DEF LockInv, BeatIsKept
    <3>2. client[w].at - lock.heartbeat > Stale
      BY <3>1 DEF IsStale
    <3>3. client[w].at <= now
      BY DEF LockInv, ClocksPast
    <3>4. QED
      BY <1>0, <2>1, <3>1, <3>2, <3>3 DEF ClientType
  <2>4. QED
    BY <2>2, <2>3
<1>6. \A v \in Clients : v # w => (Took(v)' <=> Took(v))
  BY <1>1 DEF Took
<1>7. TokensDiffer'
  <2>1. \A v \in Clients : v # w /\ ~At(v, "out") => client[v].token # client[w].token
    BY <1>4 DEF LockInv, TokensDiffer
  <2>2. lock'.token = client[w].token
    BY <1>3
  <2>3. \A v \in Clients : client'[v].token = client[v].token
    BY <1>1, <1>2
  <2>4. \A v \in Clients : (~At(v, "out"))' => ~At(v, "out")
    BY <1>1, <1>4 DEF At
  <2>5. \A v \in Clients : client'[v].pc \in {"insert", "swap"} => v # w /\ ~At(v, "out")
    BY <1>1, <1>2 DEF At
  <2>6. QED
    BY <2>1, <2>2, <2>3, <2>4, <2>5 DEF LockInv, TokensDiffer
<1>8. BeatIsKept'
  <2> SUFFICES ASSUME NEW v \in Clients, Took(v)'
               PROVE  /\ client'[v].beat # Never
                      /\ client'[v].since # Never
                      /\ client'[v].since <= now'
                      /\ lock'.status # "absent"
                      /\ lock'.token = client'[v].token =>
                            lock'.status = "held" /\ lock'.heartbeat = client'[v].beat
                      /\ lock'.token # client'[v].token => now' - client'[v].beat > Stale
    BY DEF BeatIsKept
  <2>1. CASE v = w
    BY <1>0, <1>2, <1>3, <2>1 DEF ClientType
  <2>2. CASE v # w
    <3>1. Took(v) /\ client'[v] = client[v] /\ ~At(v, "out")
      BY <1>1, <1>6, <2>2 DEF Took, At
    <3>2. client[v].token # client[w].token
      BY <1>4, <2>2, <3>1 DEF LockInv, TokensDiffer
    <3>3. QED
      BY <1>3, <1>5, <2>2, <3>1, <3>2 DEF LockInv, BeatIsKept
  <2>3. QED
    BY <2>1, <2>2
<1>9. StaleBefore'
  BY <1>1, <1>2, <1>5, <1>6 DEF LockInv, StaleBefore
<1>10. OwnerTookLast'
  <2> SUFFICES ASSUME NEW u \in Clients, NEW v \in Clients, Took(u)', Took(v)', u # v,
                      lock'.token = client'[u].token
               PROVE  client'[u].since - client'[v].beat > Stale
    BY DEF OwnerTookLast
  <2>1. CASE u = w
    BY <1>1, <1>2, <1>5, <1>6, <2>1
  <2>2. CASE u # w
    BY <1>1, <1>3, <1>4, <1>6, <2>2 DEF LockInv, TokensDiffer, Took, At
  <2>3. QED
    BY <2>1, <2>2
<1>11. ClocksPast'
  BY <1>1, <1>2 DEF LockInv, ClocksPast
<1>12. QED
  BY <1>7, <1>8, <1>9, <1>10, <1>11 DEF LockInv

\* A new token, a clock reading, a look at the row.
LEMMA ObserveKeeps ==
    ASSUME TypeOK, LockInv, NEW w \in Clients, Observe(w)
    PROVE  LockInv'
<1>1. PICK t \in Tokens \ InUse : client' = [client EXCEPT ![w] =
        [Out EXCEPT !.pc = IF lock.status = "absent" THEN "insert" ELSE "swap",
                    !.token = t, !.at = now]]
  BY DEF Observe
<1>2. /\ client'[w].token = t
      /\ client'[w].at = now
      /\ client'[w].pc \in {"insert", "swap"}
      /\ \A v \in Clients : v # w => client'[v] = client[v]
  BY <1>1 DEF TypeOK, Out
<1>3. t # NoToken /\ t # lock.token /\ \A v \in Clients : t # client[v].token
  BY DEF InUse
<1>4. UNCHANGED <<now, lock>>
  BY DEF Observe
<1>5. \A v \in Clients : Took(v)' => v # w /\ Took(v)
  BY <1>2 DEF Took
<1>6. TokensDiffer'
  <2>1. \A v \in Clients : v # w => (At(v, "out")' <=> At(v, "out"))
    BY <1>2 DEF At
  <2>2. QED
    BY <1>2, <1>3, <1>4, <2>1 DEF LockInv, TokensDiffer
<1>7. BeatIsKept'
  BY <1>2, <1>4, <1>5 DEF LockInv, BeatIsKept
<1>8. StaleBefore' /\ OwnerTookLast'
  BY <1>2, <1>4, <1>5 DEF LockInv, StaleBefore, OwnerTookLast
<1>9. ClocksPast'
  BY <1>2, <1>4 DEF LockInv, ClocksPast, TypeOK
<1>10. QED
  BY <1>6, <1>7, <1>8, <1>9 DEF LockInv

\* Confirm, ReadClock: only the pc, only the clock reading changes.
LEMMA KnowsMore ==
    ASSUME TypeOK, LockInv, NEW w \in Clients, UNCHANGED <<now, lock>>, Took(w),
           \/ client' = [client EXCEPT ![w].pc = "in"]
           \/ client' = [client EXCEPT ![w].at = now]
    PROVE  LockInv'
<1>1. \A v \in Clients :
        /\ client'[v].token = client[v].token
        /\ client'[v].beat = client[v].beat
        /\ client'[v].since = client[v].since
        /\ client'[v].at <= now
        /\ Took(v)' <=> Took(v)
        /\ At(v, "out")' <=> At(v, "out")
        /\ client'[v].pc \in {"insert", "swap"} => client[v].pc \in {"insert", "swap"}
  BY DEF TypeOK, LockInv, ClocksPast, Took, At
<1>2. TokensDiffer'
  BY <1>1 DEF LockInv, TokensDiffer
<1>3. BeatIsKept'
  BY <1>1 DEF LockInv, BeatIsKept
<1>4. StaleBefore' /\ OwnerTookLast' /\ ClocksPast'
  BY <1>1 DEF LockInv, StaleBefore, OwnerTookLast, ClocksPast
<1>5. QED
  BY <1>2, <1>3, <1>4 DEF LockInv

\* A heartbeat moves only the owner's own beat.
LEMMA HeartbeatKeeps ==
    ASSUME TypeOK, LockInv, NEW w \in Clients, Heartbeat(w)
    PROVE  LockInv'
<1>1. /\ client'[w].beat = client[w].at
      /\ \A v \in Clients : v # w => client'[v] = client[v]
      /\ \A v \in Clients :
           /\ client'[v].token = client[v].token
           /\ client'[v].since = client[v].since
           /\ client'[v].at = client[v].at
           /\ client'[v].pc = client[v].pc
  BY DEF Heartbeat, TypeOK
<1>2. /\ now' = now
      /\ lock'.token = lock.token
      /\ lock'.status = "held"
      /\ lock'.heartbeat = client[w].at
      /\ lock.token = client[w].token
      /\ Took(w)
      /\ lock.status = "held"
  BY DEF Heartbeat, TypeOK, Owns, Took, At
<1>3. \A v \in Clients : (Took(v)' <=> Took(v)) /\ (At(v, "out")' <=> At(v, "out"))
  BY <1>1 DEF Took, At
<1>4. \A v \in Clients : v # w /\ Took(v) => client[v].token # lock.token
  BY <1>2 DEF LockInv, TokensDiffer, Took, At
<1>5. client[w].at \in Time /\ client[w].at # Never
  BY DEF TypeOK
<1>6. TokensDiffer'
  BY <1>1, <1>2, <1>3 DEF LockInv, TokensDiffer
<1>7. BeatIsKept'
  <2> SUFFICES ASSUME NEW v \in Clients, Took(v)'
               PROVE  /\ client'[v].beat # Never
                      /\ client'[v].since # Never
                      /\ client'[v].since <= now'
                      /\ lock'.status # "absent"
                      /\ lock'.token = client'[v].token =>
                            lock'.status = "held" /\ lock'.heartbeat = client'[v].beat
                      /\ lock'.token # client'[v].token => now' - client'[v].beat > Stale
    BY DEF BeatIsKept
  <2>1. CASE v = w
    BY <1>1, <1>2, <1>5, <2>1 DEF LockInv, BeatIsKept
  <2>2. CASE v # w
    BY <1>1, <1>2, <1>3, <1>4, <2>2 DEF LockInv, BeatIsKept
  <2>3. QED
    BY <2>1, <2>2
<1>8. OwnerTookLast'
  BY <1>1, <1>2, <1>3, <1>4 DEF LockInv, OwnerTookLast
<1>9. StaleBefore'
  <2>1. \A v \in Clients : v # w /\ Took(v) => client[w].since - client[v].beat > Stale
    BY <1>2 DEF LockInv, OwnerTookLast
  <2>2. QED
    BY <1>1, <1>3, <2>1 DEF LockInv, StaleBefore
<1>10. ClocksPast'
  BY <1>1, <1>2 DEF LockInv, ClocksPast
<1>11. QED
  BY <1>6, <1>7, <1>8, <1>9, <1>10 DEF LockInv

\* Every step keeps the invariant.
LEMMA StepKeeps ==
    ASSUME TypeOK, LockInv, [Next]_lockVars
    PROVE  LockInv'
<1>1. CASE UNCHANGED lockVars
  BY <1>1 DEF lockVars, LockInv, TokensDiffer, BeatIsKept, StaleBefore, OwnerTookLast,
              ClocksPast, Took, At
<1>2. ASSUME NEW w \in Clients, Blocked(w) PROVE LockInv'
  BY <1>2, <1>1 DEF Blocked
<1>3. ASSUME NEW w \in Clients, Observe(w) PROVE LockInv'
  BY <1>3, ObserveKeeps
<1>4. ASSUME NEW w \in Clients, Acquire(w) PROVE LockInv'
  <2>1. CASE Insert(w)
    BY <2>1, TakeKeeps DEF Insert, At
  <2>2. CASE InsertLost(w)
    BY <2>2, LeaveKeeps DEF InsertLost
  <2>3. CASE Swap(w)
    BY <2>3, TakeKeeps DEF Swap, At, MayTake
  <2>4. CASE SwapLost(w)
    BY <2>4, LeaveKeeps DEF SwapLost
  <2>5. CASE Confirm(w)
    BY <2>5, LeaveKeeps, KnowsMore DEF Confirm, Took, At
  <2>6. QED
    BY <1>4, <2>1, <2>2, <2>3, <2>4, <2>5 DEF Acquire
<1>5. ASSUME NEW w \in Clients, Keep(w) PROVE LockInv'
  <2>1. CASE ReadClock(w)
    BY <2>1, KnowsMore DEF ReadClock, Took, At
  <2>2. CASE Heartbeat(w)
    BY <2>2, HeartbeatKeeps
  <2>3. CASE HeartbeatLost(w)
    BY <2>3, LeaveKeeps DEF HeartbeatLost
  <2>4. QED
    BY <1>5, <2>1, <2>2, <2>3 DEF Keep
<1>6. ASSUME NEW w \in Clients, Release(w) PROVE LockInv'
  BY <1>6, LeaveKeeps DEF Release
<1>7. ASSUME NEW w \in Clients, Die(w) PROVE LockInv'
  BY <1>7, LeaveKeeps DEF Die
<1>8. CASE Tick
  <2>1. now' = now + 1 /\ now \in Time /\ UNCHANGED <<lock, client>>
    BY <1>8 DEF Tick, TypeOK
  <2>2. \A w \in Clients : client[w] \in ClientType
    BY DEF TypeOK, ClientType
  <2>3. BeatIsKept'
    BY <2>1, <2>2 DEF LockInv, BeatIsKept, Took, ClientType
  <2>4. ClocksPast'
    BY <2>1, <2>2 DEF LockInv, ClocksPast, ClientType
  <2>5. TokensDiffer' /\ StaleBefore' /\ OwnerTookLast'
    BY <2>1 DEF LockInv, TokensDiffer, StaleBefore, OwnerTookLast, Took, At
  <2>6. QED
    BY <2>3, <2>4, <2>5 DEF LockInv
<1>9. QED
  BY <1>1, <1>2, <1>3, <1>4, <1>5, <1>6, <1>7, <1>8 DEF Next

\* The invariant that explains the lock: tokens are never shared, the row
\* holds the owner's last heartbeat, whoever lost the row was stale first.
THEOREM LockInvariant == Spec => []LockInv
<1>1. Init => LockInv
  BY DEF Init, LockInv, TokensDiffer, BeatIsKept, StaleBefore, OwnerTookLast, ClocksPast,
         Took, At, Out, NoRow
<1>2. TypeOK /\ LockInv /\ [Next]_lockVars => LockInv'
  BY StepKeeps
<1>3. QED
  BY <1>1, <1>2, LockTypeCorrect, PTL DEF Spec

\* acquire(), heartbeat() and release() of lock.py: two clients believe they
\* hold the lock only if one let its heartbeat grow stale.
THEOREM LockIsExclusive == Spec => []ExclusiveUnlessStale
<1>1. LockInv => ExclusiveUnlessStale
  BY DEF LockInv, StaleBefore, ExclusiveUnlessStale, Believes, Took, At
<1>2. QED
  BY <1>1, LockInvariant, PTL

\* The compare-and-swap of acquire(): a held row changes hands only when stale.
THEOREM LiveLockStays == Spec => LiveLockIsNotTaken
<1>1. TypeOK /\ LockInv /\ [Next]_lockVars =>
        [lock.status = "held" /\ lock'.token # lock.token => IsStale(now)]_lockVars
  <2> SUFFICES ASSUME TypeOK, LockInv, Next, lock.status = "held", lock'.token # lock.token
               PROVE  IsStale(now)
    OBVIOUS
  <2>1. PICK w \in Clients : Insert(w) \/ Swap(w) \/ Heartbeat(w) \/ Release(w)
    BY DEF Next, Blocked, Observe, Acquire, InsertLost, SwapLost, Confirm, Keep, ReadClock,
           HeartbeatLost, Die, Tick, lockVars
  <2>2. client[w].at <= now /\ client[w].at \in Time /\ now \in Time /\ lock.heartbeat \in Time
    BY DEF LockInv, ClocksPast, TypeOK
  <2>3. ~Heartbeat(w) /\ ~Release(w)
    BY DEF Heartbeat, Release, TypeOK
  <2>4. IsStale(client[w].at)
    BY <2>1, <2>3 DEF Insert, Swap, MayTake
  <2>5. QED
    BY <2>2, <2>4 DEF IsStale
<1>2. QED
  BY <1>1, LockTypeCorrect, LockInvariant, PTL DEF Spec, LiveLockIsNotTaken

\* The owner clause of heartbeat() and release(): nobody else touches the row.
THEOREM OnlyTheOwnerTouches == Spec => OnlyOwnerTouches
<1>1. TypeOK /\ LockInv /\ [Next]_lockVars =>
        [lock'.token = lock.token /\ lock' # lock =>
           \E w \in Clients : Believes(w) /\ client[w].token = lock.token]_lockVars
  <2> SUFFICES ASSUME TypeOK, LockInv, Next, lock'.token = lock.token, lock' # lock
               PROVE  \E w \in Clients : Believes(w) /\ client[w].token = lock.token
    OBVIOUS
  <2>1. PICK w \in Clients : Insert(w) \/ Swap(w) \/ Heartbeat(w) \/ Release(w)
    BY DEF Next, Blocked, Observe, Acquire, InsertLost, SwapLost, Confirm, Keep, ReadClock,
           HeartbeatLost, Die, Tick, lockVars
  <2>2. ~Insert(w) /\ ~Swap(w)
    BY DEF Insert, Swap, Take, Taken, LockInv, TokensDiffer, At
  <2>3. Believes(w) /\ client[w].token = lock.token
    BY <2>1, <2>2 DEF Heartbeat, Release, Owns, Believes
  <2>4. QED
    BY <2>3
<1>2. QED
  BY <1>1, LockTypeCorrect, LockInvariant, PTL DEF Spec, OnlyOwnerTouches

-----------------------------------------------------------------------------
(* The worker.                                                              *)

\* What the worker adds to a step leaves the lock's protocol as it is.
LEMMA LockStep == WorkerNext => [Next]_lockVars
<1> SUFFICES ASSUME WorkerNext PROVE [Next]_lockVars
  OBVIOUS
<1>1. ASSUME NEW w \in Clients, Start(w) PROVE Next
  BY <1>1 DEF Start, Next
<1>2. ASSUME NEW w \in Clients, BeginCycle(w) PROVE Next
  BY <1>2 DEF BeginCycle, Next, Keep
<1>3. ASSUME NEW w \in Clients, EndCycle(w) PROVE Next
  BY <1>3 DEF EndCycle, Next, Keep
<1>4. ASSUME NEW w \in Clients, Stop(w) PROVE Next
  BY <1>4 DEF Stop, Next
<1>5. ASSUME NEW w \in Clients, Crash(w) PROVE Next
  BY <1>5 DEF Crash, Next
<1>6. ASSUME NEW w \in Clients, NEW lane \in Lanes, Post(w, lane) PROVE UNCHANGED lockVars
  BY <1>6 DEF Post
<1>7. CASE Passes
  BY <1>7 DEF Passes, Next
<1>8. QED
  BY <1>1, <1>2, <1>3, <1>4, <1>5, <1>6, <1>7 DEF WorkerNext

\* The worker follows the lock's protocol, so what is proved of it holds.
THEOREM WorkerUsesLock == WorkerSpec => Spec
<1>1. [WorkerNext]_workerVars => [Next]_lockVars
  BY LockStep DEF workerVars, lockVars
<1>2. WorkerInit => Init
  BY DEF WorkerInit
<1>3. QED
  BY <1>1, <1>2, PTL DEF WorkerSpec, Spec

\* The variables keep their types.
THEOREM WorkerTypeCorrect == WorkerSpec => []WorkerTypeOK
<1>1. WorkerInit => WorkerTypeOK
  <2>1. Init => TypeOK
    BY LockAssumption DEF Init, TypeOK, NoRow, Out, PCs, Time, Never
  <2>2. QED
    BY <2>1 DEF WorkerInit, WorkerTypeOK, NoCycle, NoStray
<1>2. TypeOK' /\ WorkerTypeOK /\ [WorkerNext]_workerVars => WorkerTypeOK'
  <2> SUFFICES ASSUME TypeOK', WorkerTypeOK, [WorkerNext]_workerVars PROVE WorkerTypeOK'
    OBVIOUS
  <2> USE DEF WorkerTypeOK, NoCycle, NoStray
  <2>1. CASE UNCHANGED workerVars
    BY <2>1 DEF workerVars
  <2>2. ASSUME NEW w \in Clients, Start(w) PROVE WorkerTypeOK'
    BY <2>2 DEF Start
  <2>3. ASSUME NEW w \in Clients, BeginCycle(w) PROVE WorkerTypeOK'
    BY <2>3 DEF BeginCycle
  <2>4. ASSUME NEW w \in Clients, EndCycle(w) PROVE WorkerTypeOK'
    <3>1. cycle' = [cycle EXCEPT ![w] = NoCycle]
      BY <2>4 DEF EndCycle, Ends
    <3>2. stray' = stray \/ stray' = [stray EXCEPT ![w] = NoStray]
      BY <2>4 DEF EndCycle, Ends
    <3>3. QED
      BY <3>1, <3>2
  <2>5. ASSUME NEW w \in Clients, Stop(w) PROVE WorkerTypeOK'
    BY <2>5 DEF Stop, Ends
  <2>6. ASSUME NEW w \in Clients, Crash(w) PROVE WorkerTypeOK'
    BY <2>6 DEF Crash, Ends
  <2>7. ASSUME NEW w \in Clients, NEW lane \in Lanes, Post(w, lane) PROVE WorkerTypeOK'
    <3>1. stray' \in [Clients -> [Lanes -> Nat]]
      BY <2>7 DEF Post
    <3>2. cycle' \in [Clients -> [on : BOOLEAN, posted : SUBSET Lanes]]
      BY <2>7 DEF Post
    <3>3. QED
      BY <3>1, <3>2
  <2>8. CASE Passes
    BY <2>8 DEF Passes
  <2>9. QED
    BY <2>1, <2>2, <2>3, <2>4, <2>5, <2>6, <2>7, <2>8 DEF WorkerNext
<1>3. QED
  BY <1>1, <1>2, WorkerUsesLock, LockTypeCorrect, PTL DEF WorkerSpec

\* Nobody becomes the owner of the row except by taking it, before a cycle.
LEMMA OwnershipIsTaken ==
    ASSUME TypeOK, LockInv, [Next]_lockVars, NEW w \in Clients, Owns(w)',
           At(w, "in"), At(w, "in")'
    PROVE  Owns(w)
<1>1. CASE UNCHANGED lockVars
  BY <1>1 DEF lockVars, Owns
<1>2. ASSUME NEW v \in Clients, Blocked(v) \/ Observe(v) PROVE Owns(w)
  <2>1. CASE Blocked(v)
    BY <2>1, <1>1 DEF Blocked
  <2>2. CASE Observe(v)
    <3>1. client'[w] = client[w] /\ lock' = lock
      BY <2>2 DEF Observe, At, TypeOK
    <3>2. QED
      BY <3>1 DEF Owns
  <2>3. QED
    BY <1>2, <2>1, <2>2
<1>3. ASSUME NEW v \in Clients, Acquire(v) PROVE Owns(w)
  <2>1. CASE Insert(v) \/ Swap(v)
    <3>1. v # w /\ client'[w] = client[w] /\ lock'.token = client[v].token /\ ~At(v, "out")
      BY <2>1 DEF Insert, Swap, Take, Taken, At, TypeOK
    <3>2. client[v].token # client[w].token
      BY <3>1 DEF LockInv, TokensDiffer, At
    <3>3. QED
      BY <3>1, <3>2 DEF Owns
  <2>2. CASE InsertLost(v) \/ SwapLost(v) \/ Confirm(v)
    <3>1. v # w /\ client'[w] = client[w] /\ lock' = lock
      BY <2>2 DEF InsertLost, SwapLost, Confirm, Leave, At, TypeOK
    <3>2. QED
      BY <3>1 DEF Owns
  <2>3. QED
    BY <1>3, <2>1, <2>2 DEF Acquire
<1>4. ASSUME NEW v \in Clients, Keep(v) PROVE Owns(w)
  <2>1. lock'.token = lock.token /\ lock'.status = lock.status /\ client'[w].token = client[w].token
    <3>1. CASE ReadClock(v)
      BY <3>1 DEF ReadClock, TypeOK
    <3>2. CASE Heartbeat(v)
      BY <3>2 DEF Heartbeat, TypeOK
    <3>3. CASE HeartbeatLost(v)
      BY <3>3 DEF HeartbeatLost, Leave, TypeOK, At, Out
    <3>4. QED
      BY <1>4, <3>1, <3>2, <3>3 DEF Keep
  <2>2. QED
    BY <2>1 DEF Owns
<1>5. ASSUME NEW v \in Clients, Release(v) \/ Die(v) PROVE Owns(w)
  <2>1. client'[v] = Out
    BY <1>5 DEF Release, Die, Leave, TypeOK
  <2>2. v # w
    BY <2>1 DEF At, Out
  <2>3. client'[w] = client[w] /\ lock'.token = lock.token
    BY <1>5, <2>2 DEF Release, Die, Leave, TypeOK
  <2>4. lock'.status = "held" => lock.status = "held"
    BY <1>5 DEF Release, Die, TypeOK
  <2>5. QED
    BY <2>3, <2>4 DEF Owns
<1>6. CASE Tick
  BY <1>6 DEF Tick, Owns
<1>7. QED
  BY <1>1, <1>2, <1>3, <1>4, <1>5, <1>6 DEF Next

\* The invariant behind the next two theorems is kept by every step.
LEMMA StrayStep ==
    ASSUME WorkerTypeOK, LockInv, StrayInv, [WorkerNext]_workerVars
    PROVE  StrayInv'
<1> DEFINE Fine(w) ==
        /\ cycle[w].on => At(w, "in")
        /\ ~cycle[w].on \/ Owns(w) => stray[w] = NoStray
        /\ \A lane \in Lanes :
              stray[w][lane] <= IF lane \in cycle[w].posted THEN 1 ELSE 0
<1> SUFFICES ASSUME NEW u \in Clients PROVE Fine(u)'
  BY DEF StrayInv
<1>0. Fine(u) /\ TypeOK
  BY DEF StrayInv, WorkerTypeOK
<1>a. [Next]_lockVars
  BY LockStep DEF workerVars, lockVars
<1>b. cycle[u].on \in BOOLEAN /\ stray[u] \in [Lanes -> Nat]
  BY DEF WorkerTypeOK
\* Whoever keeps its cycle and its posts, and stays in, is fine.
<1>c. ASSUME cycle'[u] = cycle[u], stray'[u] = stray[u], At(u, "in") => At(u, "in")'
      PROVE  Fine(u)'
  <2>1. cycle[u].on => At(u, "in") /\ At(u, "in")'
    BY <1>0, <1>c
  <2>2. cycle[u].on /\ Owns(u)' => Owns(u)
    BY <1>0, <1>a, <2>1, OwnershipIsTaken
  <2>3. QED
    BY <1>0, <1>c, <2>1, <2>2
\* Whoever stops is fine.
<1>d. ASSUME cycle'[u] = NoCycle, stray'[u] = NoStray PROVE Fine(u)'
  BY <1>d DEF NoCycle, NoStray
<1>1. CASE UNCHANGED workerVars
  BY <1>1, <1>c DEF workerVars, At
<1>2. ASSUME NEW w \in Clients, Start(w) PROVE Fine(u)'
  <2>1. At(u, "in") => At(u, "in")'
    BY <1>2, <1>0 DEF Start, Blocked, lockVars, Observe, Acquire, Insert, InsertLost, Swap, SwapLost,
                Confirm, Take, Leave, At, TypeOK
  <2>2. QED
    BY <1>2, <1>c, <2>1 DEF Start
<1>3. ASSUME NEW w \in Clients, BeginCycle(w) PROVE Fine(u)'
  <2>1. At(u, "in") <=> At(u, "in")'
    BY <1>3, <1>0 DEF BeginCycle, ReadClock, At, TypeOK
  <2>2. CASE u # w
    BY <1>3, <1>c, <2>1, <2>2 DEF BeginCycle, WorkerTypeOK
  <2>3. CASE u = w
    <3>1. cycle'[u] = [on |-> TRUE, posted |-> {}] /\ stray'[u] = NoStray
      BY <1>3, <1>0, <2>3 DEF BeginCycle, WorkerTypeOK
    <3>2. At(u, "in")'
      BY <1>3, <2>1, <2>3 DEF BeginCycle, ReadClock
    <3>3. QED
      BY <3>1, <3>2 DEF NoStray
  <2>4. QED
    BY <2>2, <2>3
<1>4. ASSUME NEW w \in Clients, EndCycle(w) PROVE Fine(u)'
  <2>1. CASE u # w
    <3>1. client'[u] = client[u]
      BY <1>4, <1>0, <2>1 DEF EndCycle, Heartbeat, HeartbeatLost, Leave, TypeOK
    <3>2. cycle'[u] = cycle[u] /\ stray'[u] = stray[u]
      BY <1>4, <2>1 DEF EndCycle, Ends, WorkerTypeOK
    <3>3. QED
      BY <1>c, <3>1, <3>2 DEF At
  <2>2. CASE u = w
    <3>1. cycle'[u] = NoCycle
      BY <1>4, <2>2 DEF EndCycle, Ends, WorkerTypeOK
    <3>2. stray'[u] = NoStray
      BY <1>4, <1>0, <2>2 DEF EndCycle, Ends, Heartbeat, WorkerTypeOK
    <3>3. QED
      BY <1>d, <3>1, <3>2
  <2>3. QED
    BY <2>1, <2>2
<1>5. ASSUME NEW w \in Clients, Stop(w) \/ Crash(w) PROVE Fine(u)'
  <2>1. CASE u # w
    <3>1. client'[u] = client[u]
      BY <1>5, <1>0, <2>1 DEF Stop, Crash, Release, Die, Leave, TypeOK
    <3>2. cycle'[u] = cycle[u] /\ stray'[u] = stray[u]
      BY <1>5, <2>1 DEF Stop, Crash, Ends, WorkerTypeOK
    <3>3. QED
      BY <1>c, <3>1, <3>2 DEF At
  <2>2. CASE u = w
    BY <1>5, <1>d, <2>2 DEF Stop, Crash, Ends, WorkerTypeOK
  <2>3. QED
    BY <2>1, <2>2
<1>6. ASSUME NEW w \in Clients, NEW l \in Lanes, Post(w, l) PROVE Fine(u)'
  <2>0. UNCHANGED lockVars
    BY <1>6 DEF Post
  <2>1. CASE u # w
    BY <1>6, <1>c, <2>0, <2>1 DEF Post, WorkerTypeOK, lockVars, At
  <2>2. CASE u = w
    <3>1. /\ l \notin cycle[u].posted
          /\ cycle'[u].on = cycle[u].on
          /\ cycle'[u].posted = cycle[u].posted \cup {l}
          /\ cycle[u].on
      BY <1>6, <2>2 DEF Post, WorkerTypeOK
    <3>2. Owns(u)' <=> Owns(u)
      BY <2>0 DEF lockVars, Owns
    <3>3. At(u, "in")'
      BY <1>6, <2>0, <2>2 DEF Post, lockVars, At
    <3>4. stray'[u] = IF Owns(u) THEN stray[u] ELSE [stray[u] EXCEPT ![l] = @ + 1]
      BY <1>6, <2>2, <1>b DEF Post, WorkerTypeOK
    <3>5. \A lane \in Lanes : stray'[u][lane] <= IF lane \in cycle'[u].posted THEN 1 ELSE 0
      <4> SUFFICES ASSUME NEW lane \in Lanes
                   PROVE  stray'[u][lane] <= IF lane \in cycle'[u].posted THEN 1 ELSE 0
        OBVIOUS
      <4>1. stray[u][lane] <= IF lane \in cycle[u].posted THEN 1 ELSE 0
        BY <1>0
      <4>2. stray'[u][lane] = stray[u][lane] \/ (lane = l /\ stray'[u][lane] = stray[u][lane] + 1)
        BY <1>b, <3>4
      <4>3. stray[u][lane] \in Nat
        BY <1>b
      <4>4. QED
        BY <3>1, <4>1, <4>2, <4>3
    <3>6. ~cycle'[u].on \/ Owns(u)' => stray'[u] = NoStray
      BY <1>0, <3>1, <3>2, <3>4
    <3>7. QED
      BY <3>3, <3>5, <3>6
  <2>3. QED
    BY <2>1, <2>2
<1>7. CASE Passes
  BY <1>7, <1>c DEF Passes, Tick, At
<1>8. QED
  BY <1>1, <1>2, <1>3, <1>4, <1>5, <1>6, <1>7 DEF WorkerNext

\* run_cycle(): a worker that lost its lock makes at most one post per lane
\* before the heartbeat at the end of a cycle stops it.
THEOREM StrayPostsAreFew == WorkerSpec => []StrayPostsBounded
<1>1. WorkerInit => StrayInv
  <2> SUFFICES ASSUME WorkerInit PROVE StrayInv
    OBVIOUS
  <2>1. \A w \in Clients : ~cycle[w].on /\ stray[w] = NoStray
    BY DEF WorkerInit, NoCycle
  <2>2. \A lane \in Lanes : NoStray[lane] = 0
    BY DEF NoStray
  <2>3. ASSUME NEW w \in Clients, NEW lane \in Lanes
        PROVE  stray[w][lane] <= IF lane \in cycle[w].posted THEN 1 ELSE 0
    BY <2>1, <2>2
  <2>4. QED
    BY <2>1, <2>3 DEF StrayInv
<1>2. WorkerTypeOK /\ LockInv /\ StrayInv /\ [WorkerNext]_workerVars => StrayInv'
  BY StrayStep
<1>3. WorkerTypeOK /\ StrayInv => StrayPostsBounded
  <2> SUFFICES ASSUME WorkerTypeOK, StrayInv, NEW w \in Clients, NEW lane \in Lanes
               PROVE  stray[w][lane] <= 1
    BY DEF StrayPostsBounded
  <2>1. stray[w][lane] \in Nat
    BY DEF WorkerTypeOK
  <2>2. QED
    BY <2>1 DEF StrayInv
<1>4. QED
  BY <1>1, <1>2, <1>3, WorkerUsesLock, WorkerTypeCorrect, LockInvariant, PTL DEF WorkerSpec

\* The lock gate: a post without the lock needs a heartbeat older than Stale.
THEOREM StrayNeedsStaleness == WorkerSpec => StrayOnlyWhenStale
<1>1. WorkerTypeOK /\ LockInv /\ [WorkerNext]_workerVars =>
        [\A w \in Clients : \A lane \in Lanes :
            stray'[w][lane] > stray[w][lane] => now - client[w].beat > Stale]_workerVars
  <2> SUFFICES ASSUME WorkerTypeOK, LockInv, WorkerNext, NEW w \in Clients, NEW lane \in Lanes,
                      stray'[w][lane] > stray[w][lane]
               PROVE  now - client[w].beat > Stale
    OBVIOUS
  <2>0. stray \in [Clients -> [Lanes -> Nat]] /\ TypeOK
    BY DEF WorkerTypeOK
  <2>1. ASSUME NEW v \in Clients, stray' = [stray EXCEPT ![v] = NoStray] PROVE FALSE
    <3>1. stray'[w] = stray[w] \/ stray'[w] = NoStray
      BY <2>0, <2>1
    <3>2. stray[w][lane] \in Nat /\ NoStray[lane] = 0
      BY <2>0 DEF NoStray
    <3>3. QED
      BY <3>1, <3>2
  <2>2. stray' # stray
    BY <2>0
  <2>3. PICK v \in Clients, l \in Lanes : Post(v, l)
    BY <2>1, <2>2 DEF WorkerNext, Start, BeginCycle, EndCycle, Stop, Crash, Ends, Passes
  <2>4. stray' = [stray EXCEPT ![v][l] = IF Owns(v) THEN @ ELSE @ + 1]
    BY <2>3 DEF Post
  <2>5. v = w /\ ~Owns(w)
    <3>1. v = w
      BY <2>0, <2>4
    <3>2. Owns(w) => stray' = stray
      BY <2>0, <2>4, <3>1
    <3>3. QED
      BY <2>2, <3>1, <3>2
  <2>6. Took(w)
    BY <2>3, <2>5 DEF Post, Took, At
  <2>7. QED
    BY <2>5, <2>6 DEF LockInv, BeatIsKept, Owns
<1>2. QED
  BY <1>1, WorkerTypeCorrect, WorkerUsesLock, LockInvariant, PTL DEF WorkerSpec, StrayOnlyWhenStale
=============================================================================
