------------------------ MODULE SingleflightProofs --------------------------
(***************************************************************************)
(* One compile per artifact at a time, for every set of tasks, keys and    *)
(* slots.  The map may forget a mutex while a guard that no longer locks   *)
(* it still counts it, and may keep one that nobody counts; what matters   *)
(* is that it never forgets one that some task waits for or holds, which   *)
(* two Arcs of that task and the map's own make three.                     *)
(***************************************************************************)
EXTENDS Singleflight, FiniteSetTheorems, TLAPS

\* The stages in which a task waits for its mutex or holds it.
Queued == {"cloned", "waiting", "holding"}

\* A task that waits for a mutex or holds it has the one the map knows.
SlotIsCurrent ==
    \A t \in Tasks :
        /\ pc[t] # "idle" => key[t] \in Keys /\ slot[t] \in Slots
        /\ pc[t] \in Queued => locks[key[t]] = slot[t]

\* No mutex is in the map under two keys.
LocksDistinct ==
    \A k, l \in Keys : (locks[k] = locks[l] /\ locks[k] # None) => k = l

HolderOwns == \A t \in Tasks : pc[t] = "holding" => owner[slot[t]] = t

FInv == FlightTypeOK /\ SlotIsCurrent /\ LocksDistinct /\ HolderOwns

(* The invariant holds of the empty map.                                   *)
LEMMA InitFInv == FlightInit => FInv
  BY DEF FlightInit, FInv, FlightTypeOK, SlotIsCurrent, LocksDistinct, HolderOwns, Queued

(* remove_if's count of two excludes every task that waits or holds.       *)
LEMMA SweepSeesNoneQueued ==
    ASSUME NEW s, StrongCount(s) <= 2
    PROVE  \A t \in Tasks : slot[t] = s => pc[t] \notin Queued
  <1>1. IsFiniteSet(TwoArcs(s)) /\ IsFiniteSet(OneArc(s))
    BY TasksAssumption, FS_Subset DEF TwoArcs, OneArc
  <1>2. Cardinality(TwoArcs(s)) \in Nat /\ Cardinality(OneArc(s)) \in Nat
    BY <1>1, FS_CardinalityType
  <1>3. Cardinality(TwoArcs(s)) = 0
    BY <1>2 DEF StrongCount
  <1>4. TwoArcs(s) = {}
    BY <1>1, <1>3, FS_EmptySet
  <1> QED
    BY <1>4 DEF TwoArcs, Queued

(* Every step of every task preserves the invariant.                       *)
LEMMA NextFInv == FInv /\ [FlightNext]_flightVars => FInv'
  <1> SUFFICES ASSUME FInv, [FlightNext]_flightVars PROVE FInv'
    OBVIOUS
  <1> USE NoneAssumption
  <1>t. FlightTypeOK /\ SlotIsCurrent /\ LocksDistinct /\ HolderOwns
    BY DEF FInv
  <1>1. ASSUME NEW t \in Tasks, NEW k \in Keys, CloneLock(t, k) PROVE FInv'
    <2>1. PICK s \in Slots :
             /\ IF locks[k] = None THEN Unallocated(s) ELSE s = locks[k]
             /\ locks' = [locks EXCEPT ![k] = s]
             /\ slot' = [slot EXCEPT ![t] = s]
      BY <1>1, Zenon DEF CloneLock
    <2>2. FlightTypeOK'
      BY <1>1, <1>t, <2>1 DEF CloneLock, FlightTypeOK
    <2>3. SlotIsCurrent'
      BY <1>1, <1>t, <2>1 DEF CloneLock, FlightTypeOK, SlotIsCurrent, Unallocated, Queued
    <2>4. LocksDistinct'
      BY <1>t, <2>1 DEF FlightTypeOK, LocksDistinct, Unallocated
    <2>5. HolderOwns'
      BY <1>1, <1>t, <2>1 DEF CloneLock, FlightTypeOK, HolderOwns
    <2> QED
      BY <2>2, <2>3, <2>4, <2>5 DEF FInv
  <1>2. ASSUME NEW t \in Tasks, Acquire(t) PROVE FInv'
    <2>1. slot[t] \in Slots /\ owner[slot[t]] = None
      BY <1>2, <1>t DEF Acquire, SlotIsCurrent
    <2>2. FlightTypeOK'
      BY <1>2, <1>t, Zenon DEF Acquire, FlightTypeOK
    <2>3. SlotIsCurrent' /\ LocksDistinct'
      BY <1>2, <1>t DEF Acquire, FlightTypeOK, SlotIsCurrent, LocksDistinct, Queued
    <2>4. HolderOwns'
      BY <1>2, <1>t, <2>1 DEF Acquire, FlightTypeOK, HolderOwns
    <2> QED
      BY <2>2, <2>3, <2>4 DEF FInv
  <1>3. ASSUME NEW t \in Tasks, Enqueue(t) PROVE FInv'
    BY <1>3, <1>t DEF Enqueue, FInv, FlightTypeOK, SlotIsCurrent, LocksDistinct, HolderOwns, Queued
  <1>4. ASSUME NEW t \in Tasks, Release(t) PROVE FInv'
    <2>1. slot[t] \in Slots /\ owner[slot[t]] = t
      BY <1>4, <1>t DEF Release, SlotIsCurrent, HolderOwns
    <2>2. FlightTypeOK'
      BY <1>4, <1>t, Zenon DEF Release, FlightTypeOK
    <2>3. SlotIsCurrent' /\ LocksDistinct'
      BY <1>4, <1>t DEF Release, FlightTypeOK, SlotIsCurrent, LocksDistinct, Queued
    <2>4. HolderOwns'
      BY <1>4, <1>t, <2>1 DEF Release, FlightTypeOK, HolderOwns
    <2> QED
      BY <2>2, <2>3, <2>4 DEF FInv
  <1>5. ASSUME NEW t \in Tasks, CancelWait(t) PROVE FInv'
    BY <1>5, <1>t DEF CancelWait, FInv, FlightTypeOK, SlotIsCurrent, LocksDistinct, HolderOwns, Queued
  <1>6. ASSUME NEW t \in Tasks, Sweep(t) PROVE FInv'
    <2>1. pc[t] = "unlocked" /\ key[t] \in Keys
      BY <1>6, <1>t DEF Sweep, SlotIsCurrent
    <2>2. FlightTypeOK' /\ HolderOwns' /\ LocksDistinct'
      BY <1>6, <1>t, <2>1 DEF Sweep, FlightTypeOK, HolderOwns, LocksDistinct
    <2>3. SlotIsCurrent'
      <3>1. CASE locks' = locks
        BY <1>6, <1>t, <2>1, <3>1 DEF Sweep, FlightTypeOK, SlotIsCurrent, Queued
      <3>2. CASE locks' # locks
        <4>1. StrongCount(locks[key[t]]) <= 2 /\ locks' = [locks EXCEPT ![key[t]] = None]
          BY <1>6, <3>2 DEF Sweep
        <4>2. \A u \in Tasks : slot[u] = locks[key[t]] => pc[u] \notin Queued
          BY <4>1, SweepSeesNoneQueued
        <4>3. \A u \in Tasks : pc[u] \in Queued => key[u] # key[t]
          BY <1>t, <4>2 DEF SlotIsCurrent
        <4> QED
          BY <1>6, <1>t, <2>1, <4>1, <4>3 DEF Sweep, FlightTypeOK, SlotIsCurrent, Queued
      <3> QED
        BY <3>1, <3>2
    <2> QED
      BY <2>2, <2>3 DEF FInv
  <1>7. ASSUME NEW t \in Tasks, DropGuard(t) PROVE FInv'
    BY <1>7, <1>t DEF DropGuard, FInv, FlightTypeOK, SlotIsCurrent, LocksDistinct, HolderOwns, Queued
  <1>8. CASE UNCHANGED flightVars
    BY <1>8, <1>t DEF flightVars, FInv, FlightTypeOK, SlotIsCurrent, LocksDistinct, HolderOwns, Queued
  <1> QED
    BY <1>1, <1>2, <1>3, <1>4, <1>5, <1>6, <1>7, <1>8 DEF FlightNext

(* The invariant excludes two holders of one key.                          *)
LEMMA FInvExcludes == FInv => FlightExclusion
  BY DEF FInv, FlightExclusion, SlotIsCurrent, HolderOwns, Queued

(* Singleflight: at most one task at a time holds the flight of a key, for *)
(* any number of tasks, keys and mutexes and whatever is cancelled.        *)
THEOREM FlightExclusionHolds == FlightSpec => []FlightExclusion
  BY InitFInv, NextFInv, FInvExcludes, PTL DEF FlightSpec
=============================================================================
