----------------------------- MODULE ThreadsWorker -----------------------------
(***************************************************************************)
(* The Threads worker under its lock: app/social/threads/worker.py with    *)
(* ThreadsWorkerLock (app/services/threads_worker_service.py).  A worker   *)
(* acquires the lock, then runs cycles: it reads the clock, runs the       *)
(* subsystems that are due, among them the publication evaluation, which   *)
(* posts at most once per lane and cycle, and only then sends a heartbeat  *)
(* with the time the cycle began.  What it posts is modelled by            *)
(* ThreadsPublication; the other subsystems do not depend on the lock.     *)
(* The task scheduler starts a new worker whenever one has stopped.        *)
(***************************************************************************)
EXTENDS OperationsLock

CONSTANTS Lanes    \* "article" and "growth": one post of each per cycle

VARIABLES
    cycle,    \* the cycle under way: whether there is one, and what it posted
    stray     \* for the properties: posts made after the lock was lost

workerVars == <<now, lock, client, cycle, stray>>

-----------------------------------------------------------------------------
NoCycle == [on |-> FALSE, posted |-> {}]
NoStray == [lane \in Lanes |-> 0]

WorkerInit ==
    /\ Init
    /\ cycle = [w \in Clients |-> NoCycle]
    /\ stray = [w \in Clients |-> NoStray]

\* A process that ends takes its cycle with it.
Ends(w) ==
    /\ cycle' = [cycle EXCEPT ![w] = NoCycle]
    /\ stray' = [stray EXCEPT ![w] = NoStray]

\* run(): acquire, or exit with "already running".
Start(w) ==
    /\ Blocked(w) \/ Observe(w) \/ Acquire(w)
    /\ UNCHANGED <<cycle, stray>>

\* run_cycle(): now = clock().
BeginCycle(w) ==
    /\ ~cycle[w].on
    /\ ReadClock(w)
    /\ cycle' = [cycle EXCEPT ![w] = [on |-> TRUE, posted |-> {}]]
    /\ UNCHANGED stray

\* A gated publication inside the cycle.  The lock gate asks only whether the
\* worker still remembers a token, which it does until a heartbeat fails.
Post(w, lane) ==
    /\ At(w, "in")
    /\ cycle[w].on
    /\ lane \notin cycle[w].posted
    /\ cycle' = [cycle EXCEPT ![w].posted = @ \cup {lane}]
    /\ stray' = [stray EXCEPT ![w][lane] = IF Owns(w) THEN @ ELSE @ + 1]
    /\ UNCHANGED lockVars

\* Mutant: the answer of the heartbeat is ignored.
EndCycleUnchecked(w) ==
    /\ cycle[w].on
    /\ Heartbeat(w) \/ (At(w, "in") /\ ~Owns(w) /\ UNCHANGED lockVars)
    /\ cycle' = [cycle EXCEPT ![w] = NoCycle]
    /\ UNCHANGED stray

\* The heartbeat at the end of the cycle; a worker that lost the lock stops
\* (exit code 5).
EndCycle(w) ==
    /\ cycle[w].on
    /\ \/ /\ Heartbeat(w)
          /\ cycle' = [cycle EXCEPT ![w] = NoCycle]
          /\ UNCHANGED stray
       \/ /\ HeartbeatLost(w)
          /\ Ends(w)

\* The last cycle of a bounded run, Ctrl-C or an exception that leaves the
\* loop: the lock is released on the way out.
Stop(w) == Release(w) /\ Ends(w)

Crash(w) == Die(w) /\ Ends(w)

Passes == Tick /\ UNCHANGED <<cycle, stray>>

WorkerNext ==
    \/ \E w \in Clients :
          \/ Start(w) \/ BeginCycle(w) \/ EndCycle(w) \/ Stop(w) \/ Crash(w)
          \/ \E lane \in Lanes : Post(w, lane)
    \/ Passes

WorkerSpec == WorkerInit /\ [][WorkerNext]_workerVars

\* The scheduler keeps starting workers, and not every start of a worker is
\* cut short between two of its steps; a cycle ends; time passes.
WorkerFairness ==
    /\ \A w \in Clients :
          /\ SF_workerVars(Observe(w) /\ UNCHANGED <<cycle, stray>>)
          /\ SF_workerVars(Acquire(w) /\ UNCHANGED <<cycle, stray>>)
          /\ WF_workerVars(BeginCycle(w))
          /\ WF_workerVars(EndCycle(w))
    /\ WF_workerVars(Passes)

FairWorkerSpec == WorkerSpec /\ WorkerFairness

-----------------------------------------------------------------------------
(* Properties.                                                              *)

\* Every variable has its type.
WorkerTypeOK ==
    /\ TypeOK
    /\ cycle \in [Clients -> [on : BOOLEAN, posted : SUBSET Lanes]]
    /\ stray \in [Clients -> [Lanes -> Nat]]

\* A worker that lost its lock without noticing makes at most one more post
\* in each lane: it finds out at the end of the cycle that is under way or of
\* the next one, never later.
StrayPostsBounded ==
    \A w \in Clients, lane \in Lanes : stray[w][lane] <= 1

\* A post without the lock happens only if more than Stale passed since the
\* worker's last heartbeat: cycles shorter than that never overlap.
StrayOnlyWhenStale ==
    [][\A w \in Clients : \A lane \in Lanes :
         stray'[w][lane] > stray[w][lane] => now - client[w].beat > Stale]_workerVars

\* A worker that is alive and has the row.
HeldAlive == \E w \in Clients : Took(w) /\ Owns(w)

\* A lock whose owner died is taken over, if the clock runs long enough for
\* it to become stale.
DeadOwnerIsReplaced ==
    (/\ lock.status = "held"
     /\ ~HeldAlive
     /\ lock.heartbeat + Stale < MaxTime) ~> HeldAlive

\* Why the stray posts are few: only a cycle under way has any, at most one for
\* each post of that cycle, and none while the worker still has the row.
StrayInv ==
    \A w \in Clients :
        /\ cycle[w].on => At(w, "in")
        /\ ~cycle[w].on \/ Owns(w) => stray[w] = NoStray
        /\ \A lane \in Lanes :
              stray[w][lane] <= IF lane \in cycle[w].posted THEN 1 ELSE 0
=============================================================================
