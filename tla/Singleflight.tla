---------------------------- MODULE Singleflight ----------------------------
(***************************************************************************)
(* The component cache's single-flight lock: greentic-runner-host          *)
(* src/cache/singleflight.rs.  Like the turn lock, a DashMap from key to   *)
(* an Arc'd async mutex; unlike it, the guard keeps an Arc of its own      *)
(* (`_lock`) until after remove_if has run, and counts it ("<= 2").        *)
(***************************************************************************)
EXTENDS Naturals, FiniteSets

CONSTANTS Tasks, Keys, Slots, None

ASSUME NoneAssumption == None \notin Tasks \cup Keys \cup Slots
ASSUME TasksAssumption == IsFiniteSet(Tasks)

VARIABLES locks,   \* the DashMap: key -> slot, or None
          owner,   \* the task that holds each slot's mutex, or None
          pc, key, slot

flightVars == <<locks, owner, pc, key, slot>>

(* The tasks that keep a mutex alive, and with how many Arcs: two while    *)
(* acquire waits for it or its guard has it (`_lock`, and the lock         *)
(* future's or the mutex guard's), one from Drop's `guard = None` until    *)
(* the guard's fields are dropped.                                         *)
TwoArcs(s) == {t \in Tasks : slot[t] = s /\ pc[t] \in {"cloned", "waiting", "holding"}}
OneArc(s) == {t \in Tasks : slot[t] = s /\ pc[t] \in {"unlocked", "swept"}}

FlightTypeOK ==
    /\ locks \in [Keys -> Slots \cup {None}]
    /\ owner \in [Slots -> Tasks \cup {None}]
    /\ pc \in [Tasks -> {"idle", "cloned", "waiting", "holding", "unlocked", "swept"}]
    /\ key \in [Tasks -> Keys \cup {None}]
    /\ slot \in [Tasks -> Slots \cup {None}]

FlightInit ==
    /\ locks = [k \in Keys |-> None]
    /\ owner = [s \in Slots |-> None]
    /\ pc = [t \in Tasks |-> "idle"]
    /\ key = [t \in Tasks |-> None]
    /\ slot = [t \in Tasks |-> None]

Unallocated(s) == (\A k \in Keys : locks[k] # s) /\ (\A t \in Tasks : slot[t] # s)

\* locks.entry(key).or_insert_with(..).clone(), then the guard's own clone.
CloneLock(t, k) ==
    /\ pc[t] = "idle"
    /\ \E s \in Slots :
         /\ IF locks[k] = None THEN Unallocated(s) ELSE s = locks[k]
         /\ locks' = [locks EXCEPT ![k] = s]
         /\ slot' = [slot EXCEPT ![t] = s]
    /\ pc' = [pc EXCEPT ![t] = "cloned"]
    /\ key' = [key EXCEPT ![t] = k]
    /\ UNCHANGED owner

\* lock.lock_owned().await: first poll, and every later one.
Acquire(t) ==
    /\ pc[t] \in {"cloned", "waiting"}
    /\ owner[slot[t]] = None
    /\ owner' = [owner EXCEPT ![slot[t]] = t]
    /\ pc' = [pc EXCEPT ![t] = "holding"]
    /\ UNCHANGED <<locks, key, slot>>

Enqueue(t) ==
    /\ pc[t] = "cloned"
    /\ owner[slot[t]] # None
    /\ pc' = [pc EXCEPT ![t] = "waiting"]
    /\ UNCHANGED <<locks, owner, key, slot>>

\* Drop: self.guard = None, for a guard that was granted the mutex ...
Release(t) ==
    /\ pc[t] = "holding"
    /\ owner' = [owner EXCEPT ![slot[t]] = None]
    /\ pc' = [pc EXCEPT ![t] = "unlocked"]
    /\ UNCHANGED <<locks, key, slot>>

\* ... or for one whose acquire() was cancelled before.
CancelWait(t) ==
    /\ pc[t] = "waiting"
    /\ pc' = [pc EXCEPT ![t] = "unlocked"]
    /\ UNCHANGED <<locks, owner, key, slot>>

StrongCount(s) == 1 + 2 * Cardinality(TwoArcs(s)) + Cardinality(OneArc(s))

\* Mutated: the entry is removed whoever else has an Arc to it.
SweepAlways(t) ==
    /\ pc[t] = "unlocked"
    /\ locks' = [locks EXCEPT ![key[t]] = None]
    /\ pc' = [pc EXCEPT ![t] = "swept"]
    /\ UNCHANGED <<owner, key, slot>>

\* remove_if(key, strong_count <= 2), under the shard lock.
Sweep(t) ==
    /\ pc[t] = "unlocked"
    /\ locks' = IF locks[key[t]] # None /\ StrongCount(locks[key[t]]) <= 2
                THEN [locks EXCEPT ![key[t]] = None]
                ELSE locks
    /\ pc' = [pc EXCEPT ![t] = "swept"]
    /\ UNCHANGED <<owner, key, slot>>

\* The fields of the dropped guard go, `_lock` among them.
DropGuard(t) ==
    /\ pc[t] = "swept"
    /\ pc' = [pc EXCEPT ![t] = "idle"]
    /\ key' = [key EXCEPT ![t] = None]
    /\ slot' = [slot EXCEPT ![t] = None]
    /\ UNCHANGED <<locks, owner>>

FlightNext ==
    \E t \in Tasks :
        \/ \E k \in Keys : CloneLock(t, k)
        \/ Enqueue(t)
        \/ Acquire(t)
        \/ Release(t)
        \/ CancelWait(t)
        \/ Sweep(t)
        \/ DropGuard(t)

FlightSpec == FlightInit /\ [][FlightNext]_flightVars

-----------------------------------------------------------------------------
(* Two tasks never hold the flight of one artifact, although the map may   *)
(* drop and re-create its entry between their lookups: CacheManager        *)
(* compiles each key in one task at a time.                                *)
FlightExclusion ==
    \A t, u \in Tasks :
        (t # u /\ pc[t] = "holding" /\ pc[u] = "holding") => key[t] # key[u]

(* "cancelled waiter leaked its entry" (the assertion of the module's own  *)
(* test) never happens: once every guard is gone, so is every entry.       *)
NoTrackedKeyLeft == (\A t \in Tasks : pc[t] = "idle") => \A k \in Keys : locks[k] = None
=============================================================================
