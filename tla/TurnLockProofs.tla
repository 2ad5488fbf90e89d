--------------------------- MODULE TurnLockProofs ---------------------------
(***************************************************************************)
(* The turn lock excludes and does not leak, for every set of tasks and    *)
(* keys.  The argument is about the Arcs: the map forgets a slot only when *)
(* no task has an Arc to it, so every Arc a task has is to the slot the    *)
(* map holds for that task's key, and two tasks running under one key      *)
(* would have to own one mutex.                                            *)
(***************************************************************************)
EXTENDS TurnLock, FiniteSetTheorems, SequenceTheorems, TLAPS

\* The stages in which a task has an Arc to a slot.
HasArc == {"cloned", "waiting", "running", "released"}

(* Which stages have a key, and that the Arc a task has is the one the map *)
(* holds for its key.                                                      *)
ArcIsCurrent ==
    \A t \in Tasks :
        /\ pc[t] # "idle" => key[t] \in Keys
        /\ pc[t] \in HasArc => arc[t] \in Slots /\ slots[key[t]] = arc[t]
        /\ pc[t] \notin HasArc => arc[t] = None

\* No slot is in the map under two keys.
SlotsDistinct ==
    \A k, l \in Keys : (slots[k] = slots[l] /\ slots[k] # None) => k = l

\* A task that runs a turn owns the mutex it has an Arc to.
RunnerOwns == \A t \in Tasks : pc[t] = "running" => owner[arc[t]] = t

IInv == TypeOK /\ ArcIsCurrent /\ SlotsDistinct /\ RunnerOwns /\ NoLeak

(* The invariant holds of the empty map.                                   *)
LEMMA InitIInv == Init => IInv
  <1> SUFFICES ASSUME Init PROVE IInv
    OBVIOUS
  <1>1. TypeOK
    BY DepthAssumption DEF Init, TypeOK, Stages
  <1>2. ArcIsCurrent /\ SlotsDistinct /\ RunnerOwns /\ NoLeak
    BY DEF Init, ArcIsCurrent, SlotsDistinct, RunnerOwns, NoLeak, HasArc
  <1> QED
    BY <1>1, <1>2 DEF IInv

(* Giving a mutex back keeps the types of its owner and its FIFO.          *)
LEMMA HandOverType ==
    ASSUME TypeOK, NEW s \in Slots, HandOver(s)
    PROVE  /\ owner' \in [Slots -> Tasks \cup {None}]
           /\ queue' \in [Slots -> Seq(Tasks)]
           /\ \A r \in Slots : r # s => owner'[r] = owner[r]
  <1>1. queue[s] \in Seq(Tasks)
    BY DEF TypeOK
  <1>2. CASE queue[s] = <<>>
    BY <1>2, Zenon DEF HandOver, TypeOK
  <1>3. CASE queue[s] # <<>>
    <2>1. Head(queue[s]) \in Tasks /\ Tail(queue[s]) \in Seq(Tasks)
      BY <1>1, <1>3
    <2> QED
      BY <1>3, <2>1, Zenon DEF HandOver, TypeOK
  <1> QED
    BY <1>2, <1>3

(* A sweep that removes an entry found no task with an Arc to its slot.    *)
LEMMA SweepSeesNoArc ==
    ASSUME TypeOK, NEW k \in Keys, StrongCount(k) = 1
    PROVE  \A t \in Tasks : arc[t] # slots[k]
  <1> DEFINE H == {t \in Tasks : arc[t] = slots[k]}
  <1>1. IsFiniteSet(H)
    BY TasksAssumption, FS_Subset
  <1>2. Cardinality(H) \in Nat
    BY <1>1, FS_CardinalityType
  <1>3. Cardinality(H) = 0
    BY <1>2 DEF StrongCount
  <1>4. H = {}
    BY <1>1, <1>3, FS_EmptySet
  <1> QED
    BY <1>4

(* Dropping a waiter keeps the FIFO's type.                                *)
LEMMA WithoutType ==
    ASSUME NEW q \in Seq(Tasks), NEW t
    PROVE  Without(q, t) \in Seq(Tasks)
  <1> DEFINE i == CHOOSE i \in DOMAIN q : q[i] = t
  <1> HIDE DEF i
  <1> DEFINE n == IF Len(q) = 0 THEN 0 ELSE Len(q) - 1
  <1>1. n \in Nat /\ 1..n = 1..(Len(q) - 1)
    OBVIOUS
  <1>2. \A j \in 1..n : q[j] \in Tasks /\ q[j + 1] \in Tasks
    OBVIOUS
  <1>3. [j \in 1..n |-> IF j < i THEN q[j] ELSE q[j + 1]] \in [1..n -> Tasks]
    BY <1>2
  <1>4. Without(q, t) = [j \in 1..n |-> IF j < i THEN q[j] ELSE q[j + 1]]
    BY <1>1 DEF Without, i
  <1> QED
    BY <1>1, <1>3, <1>4

(* Every step of every task preserves the invariant.                       *)
LEMMA NextIInv == IInv /\ [Next]_vars => IInv'
  <1> SUFFICES ASSUME IInv, [Next]_vars PROVE IInv'
    OBVIOUS
  <1> USE NoneAssumption, DepthAssumption
  <1>t. TypeOK /\ ArcIsCurrent /\ SlotsDistinct /\ RunnerOwns /\ NoLeak
    BY DEF IInv
  <1>1. ASSUME NEW t \in Tasks, NEW k \in Keys, CloneSlot(t, k) PROVE IInv'
    <2>1. PICK s \in Slots :
             /\ IF slots[k] = None THEN Unallocated(s) ELSE s = slots[k]
             /\ slots' = [slots EXCEPT ![k] = s]
             /\ arc' = [arc EXCEPT ![t] = s]
      BY <1>1, Zenon DEF CloneSlot
    <2>2. TypeOK'
      BY <1>1, <1>t, <2>1 DEF CloneSlot, TypeOK, Stages
    <2>3. ArcIsCurrent'
      BY <1>1, <1>t, <2>1 DEF CloneSlot, TypeOK, ArcIsCurrent, Unallocated, HasArc
    <2>4. SlotsDistinct'
      BY <1>1, <1>t, <2>1 DEF TypeOK, SlotsDistinct, Unallocated
    <2>5. RunnerOwns'
      BY <1>1, <1>t, <2>1 DEF CloneSlot, TypeOK, RunnerOwns
    <2>6. NoLeak'
      BY <1>1, <1>t, <2>1 DEF CloneSlot, TypeOK, NoLeak
    <2> QED
      BY <2>2, <2>3, <2>4, <2>5, <2>6 DEF IInv
  <1>2. ASSUME NEW t \in Tasks, Poll(t) PROVE IInv'
    <2>1. arc[t] \in Slots
      BY <1>2, <1>t DEF Poll, ArcIsCurrent, HasArc
    <2>2. TypeOK'
      <3>1. Append(queue[arc[t]], t) \in Seq(Tasks)
        BY <1>t, <2>1 DEF TypeOK
      <3>2. owner' \in [Slots -> Tasks \cup {None}] /\ queue' \in [Slots -> Seq(Tasks)]
        <4>1. CASE owner[arc[t]] = None
          <5>1. owner' = [owner EXCEPT ![arc[t]] = t] /\ queue' = queue
            BY <1>2, <4>1 DEF Poll
          <5> QED
            BY <1>t, <5>1, Zenon DEF TypeOK
        <4>2. CASE owner[arc[t]] # None
          <5>1. owner' = owner /\ queue' = [queue EXCEPT ![arc[t]] = Append(@, t)]
            BY <1>2, <4>2 DEF Poll
          <5> QED
            BY <1>t, <3>1, <5>1, Zenon DEF TypeOK
        <4> QED
          BY <4>1, <4>2
      <3>3. pc' \in [Tasks -> Stages]
        BY <1>2, <1>t, SMTT(30) DEF Poll, TypeOK, Stages
      <3> QED
        BY <1>2, <1>t, <3>2, <3>3 DEF Poll, TypeOK
    <2>3. ArcIsCurrent' /\ SlotsDistinct' /\ NoLeak'
      BY <1>2, <1>t DEF Poll, TypeOK, ArcIsCurrent, SlotsDistinct, NoLeak, HasArc
    <2>4. RunnerOwns'
      BY <1>2, <1>t, <2>1 DEF Poll, TypeOK, RunnerOwns, ArcIsCurrent, HasArc
    <2> QED
      BY <2>2, <2>3, <2>4 DEF IInv
  <1>3. ASSUME NEW t \in Tasks, Acquire(t) PROVE IInv'
    BY <1>3, <1>t DEF Acquire, IInv, TypeOK, Stages, ArcIsCurrent, SlotsDistinct,
                      RunnerOwns, NoLeak, HasArc
  <1>4. ASSUME NEW t \in Tasks, NEW k \in Keys, NestedRun(t, k) PROVE IInv'
    BY <1>4, <1>t DEF NestedRun, IInv, TypeOK, ArcIsCurrent, SlotsDistinct,
                      RunnerOwns, NoLeak
  <1>5. ASSUME NEW t \in Tasks, NestedReturn(t) PROVE IInv'
    BY <1>5, <1>t DEF NestedReturn, IInv, TypeOK, ArcIsCurrent, SlotsDistinct,
                      RunnerOwns, NoLeak
  <1>6. ASSUME NEW t \in Tasks, Release(t) PROVE IInv'
    <2>1. arc[t] \in Slots /\ owner[arc[t]] = t
      BY <1>6, <1>t DEF Release, ArcIsCurrent, RunnerOwns, HasArc
    <2>2. /\ owner' \in [Slots -> Tasks \cup {None}]
          /\ queue' \in [Slots -> Seq(Tasks)]
          /\ \A r \in Slots : r # arc[t] => owner'[r] = owner[r]
      BY <1>6, <1>t, <2>1, HandOverType DEF Release
    <2>3. TypeOK'
      BY <1>6, <1>t, <2>2 DEF Release, TypeOK, Stages
    <2>4. ArcIsCurrent' /\ SlotsDistinct' /\ NoLeak'
      BY <1>6, <1>t DEF Release, TypeOK, ArcIsCurrent, SlotsDistinct, NoLeak, HasArc
    <2>5. RunnerOwns'
      BY <1>6, <1>t, <2>1, <2>2 DEF Release, TypeOK, RunnerOwns, ArcIsCurrent, HasArc
    <2> QED
      BY <2>3, <2>4, <2>5 DEF IInv
  <1>7. ASSUME NEW t \in Tasks, CancelWait(t) PROVE IInv'
    <2>1. arc[t] \in Slots
      BY <1>7, <1>t DEF CancelWait, ArcIsCurrent, HasArc
    <2>2. /\ owner' \in [Slots -> Tasks \cup {None}]
          /\ queue' \in [Slots -> Seq(Tasks)]
          /\ \A r \in Slots : owner'[r] # owner[r] => owner[r] = t
      <3>1. CASE owner[arc[t]] = t
        BY <1>7, <1>t, <2>1, <3>1, HandOverType DEF CancelWait
      <3>2. CASE owner[arc[t]] # t
        <4>1. queue[arc[t]] \in Seq(Tasks)
          BY <1>t, <2>1 DEF TypeOK
        <4>2. Without(queue[arc[t]], t) \in Seq(Tasks)
          BY <4>1, WithoutType
        <4>3. /\ UNCHANGED owner
              /\ queue' = [queue EXCEPT ![arc[t]] = Without(@, t)]
          BY <1>7, <3>2 DEF CancelWait
        <4>4. queue' \in [Slots -> Seq(Tasks)]
          BY <1>t, <4>2, <4>3, Zenon DEF TypeOK
        <4> QED
          BY <1>t, <4>3, <4>4 DEF TypeOK
      <3> QED
        BY <3>1, <3>2
    <2>3. TypeOK'
      BY <1>7, <1>t, <2>2 DEF CancelWait, TypeOK, Stages
    <2>4. ArcIsCurrent' /\ SlotsDistinct' /\ NoLeak'
      BY <1>7, <1>t DEF CancelWait, TypeOK, ArcIsCurrent, SlotsDistinct, NoLeak, HasArc
    <2>5. RunnerOwns'
      BY <1>7, <1>t, <2>2 DEF CancelWait, TypeOK, RunnerOwns, ArcIsCurrent, HasArc
    <2> QED
      BY <2>3, <2>4, <2>5 DEF IInv
  <1>8. ASSUME NEW t \in Tasks, DropArc(t) PROVE IInv'
    BY <1>8, <1>t DEF DropArc, IInv, TypeOK, Stages, ArcIsCurrent, SlotsDistinct,
                      RunnerOwns, NoLeak, HasArc
  <1>9. ASSUME NEW t \in Tasks, Sweep(t) PROVE IInv'
    <2>1. key[t] \in Keys /\ pc[t] = "sweeping"
      BY <1>9, <1>t DEF Sweep, ArcIsCurrent
    <2>2. TypeOK'
      BY <1>9, <1>t, <2>1 DEF Sweep, TypeOK, Stages
    <2>3. CASE slots[key[t]] # None /\ StrongCount(key[t]) = 1
      <3>1. \A u \in Tasks : arc[u] # slots[key[t]]
        BY <1>t, <2>1, <2>3, SweepSeesNoArc
      <3>2. slots' = [slots EXCEPT ![key[t]] = None]
        BY <1>9, <2>3 DEF Sweep
      <3>3. ArcIsCurrent'
        BY <1>9, <1>t, <2>1, <3>1, <3>2 DEF Sweep, TypeOK, ArcIsCurrent, HasArc
      <3>4. SlotsDistinct' /\ RunnerOwns' /\ NoLeak'
        BY <1>9, <1>t, <2>1, <3>2, SMTT(30) DEF Sweep, TypeOK, SlotsDistinct, RunnerOwns, NoLeak
      <3> QED
        BY <2>2, <3>3, <3>4 DEF IInv
    <2>4. CASE slots[key[t]] = None
      BY <1>9, <1>t, <2>1, <2>2, <2>4 DEF Sweep, IInv, TypeOK, ArcIsCurrent,
         SlotsDistinct, RunnerOwns, NoLeak, HasArc
    <2>5. CASE slots[key[t]] # None /\ StrongCount(key[t]) # 1
      <3>1. PICK u \in Tasks : arc[u] = slots[key[t]]
        <4> DEFINE H == {u \in Tasks : arc[u] = slots[key[t]]}
        <4>1. Cardinality(H) # 0
          BY <2>5 DEF StrongCount
        <4>2. H # {}
          BY <4>1, FS_EmptySet
        <4> QED
          BY <4>2
      <3>2. slots' = slots
        BY <1>9, <2>5 DEF Sweep
      <3>3. pc[u] \in HasArc /\ slots[key[u]] = slots[key[t]] /\ key[u] \in Keys
        BY <1>t, <2>5, <3>1 DEF ArcIsCurrent, HasArc
      <3>4. key[u] = key[t] /\ u # t
        BY <1>t, <2>1, <2>5, <3>3 DEF SlotsDistinct, HasArc
      <3>5. NoLeak'
        BY <1>9, <1>t, <3>2, <3>3, <3>4 DEF Sweep, TypeOK, NoLeak, HasArc
      <3>6. ArcIsCurrent' /\ SlotsDistinct' /\ RunnerOwns'
        BY <1>9, <1>t, <3>2 DEF Sweep, TypeOK, ArcIsCurrent, SlotsDistinct,
           RunnerOwns, HasArc
      <3> QED
        BY <2>2, <3>5, <3>6 DEF IInv
    <2> QED
      BY <2>3, <2>4, <2>5
  <1>10. CASE UNCHANGED vars
    BY <1>10, <1>t DEF vars, IInv, TypeOK, ArcIsCurrent, SlotsDistinct, RunnerOwns,
                       NoLeak, HasArc
  <1> QED
    BY <1>1, <1>2, <1>3, <1>4, <1>5, <1>6, <1>7, <1>8, <1>9, <1>10 DEF Next

(* The invariant excludes two turns of one key.                            *)
LEMMA IInvExcludes == IInv => TurnExclusion
  <1> SUFFICES ASSUME IInv, NEW t \in Tasks, NEW u \in Tasks, t # u,
                      pc[t] = "running", pc[u] = "running", key[t] = key[u]
               PROVE  FALSE
    BY DEF TurnExclusion
  <1>1. slots[key[t]] = arc[t] /\ slots[key[u]] = arc[u]
    BY DEF IInv, ArcIsCurrent, HasArc
  <1>2. owner[arc[t]] = t /\ owner[arc[u]] = u
    BY DEF IInv, RunnerOwns
  <1> QED
    BY <1>1, <1>2

(* The inductive invariant holds in every state the lock reaches.          *)
THEOREM IInvAlways == Spec => []IInv
  BY InitIInv, NextIInv, PTL DEF Spec

(* Types: TurnLocks::run keeps every piece of its state well formed.       *)
THEOREM TypeCorrect == Spec => []TypeOK
  <1>1. IInv => TypeOK
    BY DEF IInv
  <1> QED
    BY <1>1, IInvAlways, PTL

(* For any number of tasks, keys and map entries, two tasks never run the  *)
(* turns of one session at once.                                           *)
THEOREM ExclusionHolds == Spec => []TurnExclusion
  BY IInvExcludes, IInvAlways, PTL

(* For any number of tasks and keys, an entry stays in the map only while  *)
(* some task still owes the sweep of its key.                              *)
THEOREM NoLeakHolds == Spec => []NoLeak
  <1>1. IInv => NoLeak
    BY DEF IInv
  <1> QED
    BY <1>1, IInvAlways, PTL
=============================================================================
