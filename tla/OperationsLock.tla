---------------------------- MODULE OperationsLock ----------------------------
(***************************************************************************)
(* The execution lock of app/operations/lock.py: one row of operations_    *)
(* locks, taken by inserting it or by one conditional UPDATE, kept alive   *)
(* by heartbeats, taken over from an owner whose heartbeat is too old.     *)
(* A client is a run of a process that uses the lock: it reads the clock   *)
(* and the row, pauses for as long as it likes, writes, and reads the row  *)
(* once more.  Heartbeats carry a time the client read earlier (the start  *)
(* of its cycle), not the time of the write.                               *)
(*                                                                         *)
(* A random owner token is any token that is not in use; a run id (the     *)
(* other proof of ownership) is as unique as a token, so one token stands  *)
(* for both.  Labels are left out.                                         *)
(***************************************************************************)
EXTENDS Integers

CONSTANTS
    Clients,     \* processes that want the lock
    Stale,       \* stale_after_minutes, in ticks
    Tokens,      \* owner tokens
    NoToken,     \* NULL
    MaxTime      \* bound: the clock stops here

ASSUME LockAssumption ==
    /\ Stale \in Nat
    /\ MaxTime \in Nat
    /\ NoToken \notin Tokens

VARIABLES
    now,      \* the clock
    lock,     \* the row of operations_locks
    client    \* what each client is doing and remembers

lockVars == <<now, lock, client>>

-----------------------------------------------------------------------------
Never == -1
Time  == 0 .. MaxTime

\* A lock name nobody has used has no row.
NoRow == [status |-> "absent", token |-> NoToken, heartbeat |-> 0]

\* at: the clock value it works with; beat, since: its last heartbeat and the
\* real time at which it took the row, which the properties need and the code
\* does not keep.
Out == [pc |-> "out", token |-> NoToken, at |-> 0, beat |-> Never, since |-> Never]

Init ==
    /\ now = 0
    /\ lock = NoRow
    /\ client = [w \in Clients |-> Out]

-----------------------------------------------------------------------------
At(w, l) == client[w].pc = l

\* held, and older than stale_after_minutes as seen by a clock that shows t.
IsStale(t) == t - lock.heartbeat > Stale

InUse == {lock.token} \cup {client[w].token : w \in Clients}

Leave(w) == client' = [client EXCEPT ![w] = Out]

\* acquire() sees a row that is held and fresh: blocked, and nothing changes.
Blocked(w) ==
    /\ At(w, "out")
    /\ lock.status = "held" /\ ~IsStale(now)
    /\ UNCHANGED lockVars

\* The start of acquire() otherwise: the clock, a new token, the row.
Observe(w) ==
    /\ At(w, "out")
    /\ lock.status = "held" => IsStale(now)
    /\ \E t \in Tokens \ InUse :
          client' = [client EXCEPT ![w] =
                       [Out EXCEPT !.pc = IF lock.status = "absent" THEN "insert" ELSE "swap",
                                   !.token = t, !.at = now]]
    /\ UNCHANGED <<now, lock>>

\* The row as it is written by whoever takes it.
Taken(w) == [status |-> "held", token |-> client[w].token, heartbeat |-> client[w].at]

Take(w, l) ==
    /\ lock' = Taken(w)
    /\ client' = [client EXCEPT ![w].pc = l, ![w].beat = client[w].at, ![w].since = now]

\* The first acquisition: INSERT.  The unique lock_name decides a race.
Insert(w) ==
    /\ At(w, "insert")
    /\ lock.status = "absent"
    /\ Take(w, "in")
    /\ UNCHANGED now

\* IntegrityError: lost_race.
InsertLost(w) ==
    /\ At(w, "insert")
    /\ lock.status # "absent"
    /\ Leave(w)
    /\ UNCHANGED <<now, lock>>

\* Mutant: nobody's lock is ever taken over.
MayTakeFree(w) == lock.status = "free"

\* The WHERE clause of the compare-and-swap.
MayTake(w) == lock.status = "free" \/ IsStale(client[w].at)

\* Mutant: read, then write (as before T4.2).
SwapUnconditional(w) ==
    /\ At(w, "swap")
    /\ Take(w, "confirm")
    /\ UNCHANGED now

\* The UPDATE found its row.
Swap(w) ==
    /\ At(w, "swap")
    /\ MayTake(w)
    /\ Take(w, "confirm")
    /\ UNCHANGED now

\* The UPDATE found no row: lost_race.
SwapLost(w) ==
    /\ At(w, "swap")
    /\ ~MayTake(w)
    /\ Leave(w)
    /\ UNCHANGED <<now, lock>>

\* Is the row still mine?  If not: lost_race.
Confirm(w) ==
    /\ At(w, "confirm")
    /\ IF lock.token = client[w].token
       THEN client' = [client EXCEPT ![w].pc = "in"]
       ELSE Leave(w)
    /\ UNCHANGED <<now, lock>>

\* The start of a cycle: the time the next heartbeat will carry.
ReadClock(w) ==
    /\ At(w, "in")
    /\ client' = [client EXCEPT ![w].at = now]
    /\ UNCHANGED <<now, lock>>

\* The WHERE clause of heartbeat() and release().
Owns(w) == lock.status = "held" /\ lock.token = client[w].token

\* heartbeat() by the owner.
Heartbeat(w) ==
    /\ At(w, "in")
    /\ Owns(w)
    /\ lock' = [lock EXCEPT !.heartbeat = client[w].at]
    /\ client' = [client EXCEPT ![w].beat = client[w].at]
    /\ UNCHANGED now

\* heartbeat() returned False: the token is forgotten and the client stops.
HeartbeatLost(w) ==
    /\ At(w, "in")
    /\ ~Owns(w)
    /\ Leave(w)
    /\ UNCHANGED <<now, lock>>

\* release(): the row of somebody else is left alone.
Release(w) ==
    /\ At(w, "in")
    /\ lock' = IF Owns(w) THEN [lock EXCEPT !.status = "free"] ELSE lock
    /\ Leave(w)
    /\ UNCHANGED now

\* The process dies; the row stays as it is.
Die(w) ==
    /\ ~At(w, "out")
    /\ Leave(w)
    /\ UNCHANGED <<now, lock>>

Tick ==
    /\ now < MaxTime
    /\ now' = now + 1
    /\ UNCHANGED <<lock, client>>

Acquire(w) ==
    \/ Insert(w) \/ InsertLost(w) \/ Swap(w) \/ SwapLost(w) \/ Confirm(w)

Keep(w) == ReadClock(w) \/ Heartbeat(w) \/ HeartbeatLost(w)

Next ==
    \/ \E w \in Clients :
          Blocked(w) \/ Observe(w) \/ Acquire(w) \/ Keep(w) \/ Release(w) \/ Die(w)
    \/ Tick

Spec == Init /\ [][Next]_lockVars

-----------------------------------------------------------------------------
(* Properties.                                                              *)

PCs == {"out", "insert", "swap", "confirm", "in"}

\* Every variable has its type.
TypeOK ==
    /\ now \in Time
    /\ lock \in [status : {"absent", "free", "held"}, token : Tokens \cup {NoToken}, heartbeat : Time]
    /\ client \in [Clients -> [pc : PCs, token : Tokens \cup {NoToken}, at : Time,
                               beat : Time \cup {Never}, since : Time \cup {Never}]]

Believes(w) == At(w, "in")

\* Two clients believe they hold the lock only if one of them let more than
\* Stale pass between its last heartbeat and the moment the other took over:
\* acquire() hands a lock that is kept alive to nobody, whatever the order of
\* reads, pauses and writes of its callers.
ExclusiveUnlessStale ==
    \A v, w \in Clients :
        Believes(v) /\ Believes(w) /\ v # w =>
            \/ client[w].since - client[v].beat > Stale
            \/ client[v].since - client[w].beat > Stale

\* A held row changes hands only when its heartbeat is really stale.
LiveLockIsNotTaken ==
    [][lock.status = "held" /\ lock'.token # lock.token => IsStale(now)]_lockVars

\* A row is extended or released only by the client that holds its token.
OnlyOwnerTouches ==
    [][lock'.token = lock.token /\ lock' # lock =>
         \E w \in Clients : Believes(w) /\ client[w].token = lock.token]_lockVars

-----------------------------------------------------------------------------
(* Why: the inductive invariant.                                            *)

\* Tokens are never shared.
TokensDiffer ==
    /\ \A w \in Clients :
          /\ ~At(w, "out") => client[w].token # NoToken
          /\ client[w].pc \in {"insert", "swap"} => client[w].token # lock.token
    /\ \A v, w \in Clients :
          v # w /\ ~At(v, "out") /\ ~At(w, "out") => client[v].token # client[w].token

\* The row holds what its owner last wrote, and a client that took the row and
\* lost it did not lose it before it was stale.
Took(w) == client[w].pc \in {"confirm", "in"}

BeatIsKept ==
    \A w \in Clients : Took(w) =>
        /\ client[w].beat # Never
        /\ client[w].since # Never
        /\ client[w].since <= now
        /\ lock.status # "absent"
        /\ lock.token = client[w].token =>
              lock.status = "held" /\ lock.heartbeat = client[w].beat
        /\ lock.token # client[w].token => now - client[w].beat > Stale

\* Of two clients that took the row, the one that no longer has it was stale
\* when the other took it.
StaleBefore ==
    \A v, w \in Clients :
        Took(v) /\ Took(w) /\ v # w =>
            \/ client[w].since - client[v].beat > Stale
            \/ client[v].since - client[w].beat > Stale

\* Whoever has the row took it after everybody else that once had it was stale.
OwnerTookLast ==
    \A v, w \in Clients :
        Took(v) /\ Took(w) /\ v # w /\ lock.token = client[v].token =>
            client[v].since - client[w].beat > Stale

\* The clock values in memory are not in the future.
ClocksPast == \A w \in Clients : client[w].at <= now

LockInv == TokensDiffer /\ BeatIsKept /\ StaleBefore /\ OwnerTookLast /\ ClocksPast
=============================================================================
