------------------------------ MODULE TurnLock ------------------------------
(***************************************************************************)
(* The in-process, per-session turn lock: greentic-runner-host             *)
(* src/engine/turn_lock.rs.  A DashMap from session key to an Arc'd async  *)
(* mutex (a slot).  A task clones the slot's Arc under the map's shard     *)
(* lock, queues on the mutex, runs its turn while holding it and, on the   *)
(* way out, releases the mutex, drops its Arc and sweeps the map entry if  *)
(* the map owns the only Arc left.  Every one of those is a step of its    *)
(* own, because other threads run in between.                              *)
(*                                                                         *)
(* The keys a task holds are carried in a task-local, so a nested run of   *)
(* the same session on the same task runs its body without locking.        *)
(* `depth` counts those nested runs.  Every nesting in the code (the       *)
(* resumer, the retry loop, the adapter) derives one key from one          *)
(* envelope, so a task locks one key at a time.                            *)
(***************************************************************************)
EXTENDS Naturals, FiniteSets, Sequences

CONSTANTS Tasks,     \* tokio tasks that run turns
          Keys,      \* session keys (env:tenant:user)
          Slots,     \* identities of the mutexes the map allocates
          None,      \* no key, no slot, no owner
          MaxDepth   \* bound on nested runs of one turn

ASSUME NoneAssumption == None \notin Tasks \cup Keys \cup Slots
ASSUME TasksAssumption == IsFiniteSet(Tasks)
ASSUME DepthAssumption == MaxDepth \in Nat

VARIABLES slots,   \* the DashMap: key -> slot, or None where it has no entry
          owner,   \* mutex of each slot: the task granted the permit, or None
          queue,   \* FIFO of the tasks waiting for each mutex
          pc,      \* where each task is in TurnLocks::run
          key,     \* the key its outermost run was called with
          arc,     \* the slot whose Arc the task holds, or None
          depth    \* nested runs on the held key

vars == <<slots, owner, queue, pc, key, arc, depth>>

(* idle: outside run; cloned: holds an Arc, has not polled the mutex yet;  *)
(* waiting: queued on the mutex; running: inside the turn; released: the   *)
(* guard gave the mutex back and still has its Arc; sweeping: about to     *)
(* call remove_if.                                                         *)
Stages == {"idle", "cloned", "waiting", "running", "released", "sweeping"}

TypeOK ==
    /\ slots \in [Keys -> Slots \cup {None}]
    /\ owner \in [Slots -> Tasks \cup {None}]
    /\ queue \in [Slots -> Seq(Tasks)]
    /\ pc \in [Tasks -> Stages]
    /\ key \in [Tasks -> Keys \cup {None}]
    /\ arc \in [Tasks -> Slots \cup {None}]
    /\ depth \in [Tasks -> 0..MaxDepth]

Init ==
    /\ slots = [k \in Keys |-> None]
    /\ owner = [s \in Slots |-> None]
    /\ queue = [s \in Slots |-> <<>>]
    /\ pc = [t \in Tasks |-> "idle"]
    /\ key = [t \in Tasks |-> None]
    /\ arc = [t \in Tasks |-> None]
    /\ depth = [t \in Tasks |-> 0]

\* A mutex that neither the map nor a task refers to: a fresh allocation.
Unallocated(s) ==
    /\ \A k \in Keys : slots[k] # s
    /\ \A t \in Tasks : arc[t] # s

\* HELD.contains(key): the task-local lists the keys this task runs under.
Holds(t, k) == pc[t] = "running" /\ key[t] = k

\* entry(key).or_insert_with(..) and Arc::clone, under the shard lock.
CloneSlot(t, k) ==
    /\ pc[t] = "idle"
    /\ \E s \in Slots :
         /\ IF slots[k] = None THEN Unallocated(s) ELSE s = slots[k]
         /\ slots' = [slots EXCEPT ![k] = s]
         /\ arc' = [arc EXCEPT ![t] = s]
    /\ pc' = [pc EXCEPT ![t] = "cloned"]
    /\ key' = [key EXCEPT ![t] = k]
    /\ UNCHANGED <<owner, queue, depth>>

\* The first poll of slot.lock_owned(): the permit if it is free, else the
\* tail of the mutex's FIFO.
Poll(t) ==
    /\ pc[t] = "cloned"
    /\ \/ /\ owner[arc[t]] = None
          /\ owner' = [owner EXCEPT ![arc[t]] = t]
          /\ pc' = [pc EXCEPT ![t] = "running"]
          /\ UNCHANGED queue
       \/ /\ owner[arc[t]] # None
          /\ queue' = [queue EXCEPT ![arc[t]] = Append(@, t)]
          /\ pc' = [pc EXCEPT ![t] = "waiting"]
          /\ UNCHANGED owner
    /\ UNCHANGED <<slots, key, arc, depth>>

\* A queued task is polled again after the mutex handed it the permit.
Acquire(t) ==
    /\ pc[t] = "waiting"
    /\ owner[arc[t]] = t
    /\ pc' = [pc EXCEPT ![t] = "running"]
    /\ UNCHANGED <<slots, owner, queue, key, arc, depth>>

\* A nested run for a key the task holds: the body runs, no lock is taken.
NestedRun(t, k) ==
    /\ Holds(t, k)
    /\ depth[t] < MaxDepth
    /\ depth' = [depth EXCEPT ![t] = @ + 1]
    /\ UNCHANGED <<slots, owner, queue, pc, key, arc>>

\* The nested run returns to the run that holds the lock.
NestedReturn(t) ==
    /\ pc[t] = "running"
    /\ depth[t] > 0
    /\ depth' = [depth EXCEPT ![t] = @ - 1]
    /\ UNCHANGED <<slots, owner, queue, pc, key, arc>>

\* Giving a mutex back hands its permit to the head of the FIFO.
HandOver(s) ==
    IF queue[s] = <<>>
    THEN /\ owner' = [owner EXCEPT ![s] = None]
         /\ UNCHANGED queue
    ELSE /\ owner' = [owner EXCEPT ![s] = Head(queue[s])]
         /\ queue' = [queue EXCEPT ![s] = Tail(@)]

\* The turn ended (or its future was dropped, or it panicked, at any depth):
\* Guard::drop takes the mutex guard out and releases the mutex.
Release(t) ==
    /\ pc[t] = "running"
    /\ HandOver(arc[t])
    /\ pc' = [pc EXCEPT ![t] = "released"]
    /\ depth' = [depth EXCEPT ![t] = 0]
    /\ UNCHANGED <<slots, key, arc>>

\* A FIFO without one of its waiters; a task waits in it at most once.
Without(q, t) ==
    LET i == CHOOSE i \in DOMAIN q : q[i] = t
    IN  [j \in 1..(Len(q) - 1) |-> IF j < i THEN q[j] ELSE q[j + 1]]

\* Mutated: the guard is built after the await, so a dropped wait never sweeps.
CancelWaitWithoutGuard(t) ==
    /\ pc[t] = "waiting"
    /\ IF owner[arc[t]] = t
       THEN HandOver(arc[t])
       ELSE /\ queue' = [queue EXCEPT ![arc[t]] = Without(@, t)]
            /\ UNCHANGED owner
    /\ pc' = [pc EXCEPT ![t] = "idle"]
    /\ key' = [key EXCEPT ![t] = None]
    /\ arc' = [arc EXCEPT ![t] = None]
    /\ UNCHANGED <<slots, depth>>

\* Mutated: a dropped wait forgets the permit it had already been handed.
CancelWaitKeepsPermit(t) ==
    /\ pc[t] = "waiting"
    /\ queue' = IF owner[arc[t]] = t THEN queue ELSE [queue EXCEPT ![arc[t]] = Without(@, t)]
    /\ pc' = [pc EXCEPT ![t] = "released"]
    /\ UNCHANGED <<slots, owner, key, arc, depth>>

\* The future is dropped while it waits (the clone and the first poll are one
\* poll, so it cannot be dropped between them): the pending lock_owned()
\* leaves the FIFO, or passes on a permit it was handed and never saw.
CancelWait(t) ==
    /\ pc[t] = "waiting"
    /\ IF owner[arc[t]] = t
       THEN HandOver(arc[t])
       ELSE /\ queue' = [queue EXCEPT ![arc[t]] = Without(@, t)]
            /\ UNCHANGED owner
    /\ pc' = [pc EXCEPT ![t] = "released"]
    /\ UNCHANGED <<slots, key, arc, depth>>

\* ... and the Arc inside the mutex guard (or the dropped lock future) goes.
DropArc(t) ==
    /\ pc[t] = "released"
    /\ arc' = [arc EXCEPT ![t] = None]
    /\ pc' = [pc EXCEPT ![t] = "sweeping"]
    /\ UNCHANGED <<slots, owner, queue, key, depth>>

\* Arc::strong_count of the slot the map holds for k: the map and the tasks.
StrongCount(k) == 1 + Cardinality({t \in Tasks : arc[t] = slots[k]})

\* Mutated: the entry is removed without looking at the count.
SweepAlways(t) ==
    /\ pc[t] = "sweeping"
    /\ slots' = [slots EXCEPT ![key[t]] = None]
    /\ pc' = [pc EXCEPT ![t] = "idle"]
    /\ key' = [key EXCEPT ![t] = None]
    /\ UNCHANGED <<owner, queue, arc, depth>>

\* Mutated: the entry is removed if its mutex is free, whoever has an Arc to it.
SweepIfFree(t) ==
    /\ pc[t] = "sweeping"
    /\ slots' = IF slots[key[t]] # None /\ owner[slots[key[t]]] = None
                THEN [slots EXCEPT ![key[t]] = None]
                ELSE slots
    /\ pc' = [pc EXCEPT ![t] = "idle"]
    /\ key' = [key EXCEPT ![t] = None]
    /\ UNCHANGED <<owner, queue, arc, depth>>

\* remove_if(key, strong_count == 1), under the shard lock.
Sweep(t) ==
    /\ pc[t] = "sweeping"
    /\ slots' = IF slots[key[t]] # None /\ StrongCount(key[t]) = 1
                THEN [slots EXCEPT ![key[t]] = None]
                ELSE slots
    /\ pc' = [pc EXCEPT ![t] = "idle"]
    /\ key' = [key EXCEPT ![t] = None]
    /\ UNCHANGED <<owner, queue, arc, depth>>

Next ==
    \E t \in Tasks :
        \/ \E k \in Keys : CloneSlot(t, k) \/ NestedRun(t, k)
        \/ Poll(t)
        \/ Acquire(t)
        \/ NestedReturn(t)
        \/ Release(t)
        \/ CancelWait(t)
        \/ DropArc(t)
        \/ Sweep(t)

(* A task that has a step of run left to take is polled by the scheduler,  *)
(* and a turn ends: its body is bounded by the retry policy and timeouts.  *)
(* Nothing obliges a task to start a run or to be cancelled.               *)
Fairness ==
    \A t \in Tasks : /\ WF_vars(Poll(t))
                     /\ WF_vars(Acquire(t))
                     /\ WF_vars(Release(t))
                     /\ WF_vars(DropArc(t))
                     /\ WF_vars(Sweep(t))

Spec == Init /\ [][Next]_vars /\ Fairness

-----------------------------------------------------------------------------
(* "Two inbound messages for one parked session" never run their turns at  *)
(* the same time, whatever slot identities the map went through between    *)
(* their lookups: turn_lock.rs, TurnLocks::run.                            *)
TurnExclusion ==
    \A t, u \in Tasks :
        (t # u /\ pc[t] = "running" /\ pc[u] = "running") => key[t] # key[u]

(* "No leak: a map entry is removed when nobody holds or awaits it": an    *)
(* entry is there only while some task still owes the sweep of its key.    *)
NoLeak ==
    \A k \in Keys :
        slots[k] # None => \E t \in Tasks : pc[t] # "idle" /\ key[t] = k

(* Keyed and fair: a task queued for a session runs its turn, or its       *)
(* future is dropped, however many turns of other tasks come and go.       *)
WaiterServed ==
    \A t \in Tasks : (pc[t] = "waiting") ~> (pc[t] # "waiting")

\* The line of a key: the task that has the permit, then the mutex's FIFO.
Line(k) ==
    LET s == slots[k]
    IN  IF s = None THEN <<>>
        ELSE IF owner[s] = None THEN queue[s] ELSE <<owner[s]>> \o queue[s]

Lines == [k \in Keys |-> Line(k)]
Running == {t \in Tasks : pc[t] = "running"}

Lock == INSTANCE KeyedLock WITH line <- Lines, inside <- Running

(* TurnLocks::run is a first-come-first-served lock per session, although  *)
(* the mutex behind a session is removed from the map and allocated again  *)
(* while tasks come, go and are cancelled.                                 *)
ImplementsKeyedLock == Lock!Spec
=============================================================================
