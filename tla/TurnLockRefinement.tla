------------------------- MODULE TurnLockRefinement -------------------------
(***************************************************************************)
(* The turn lock implements the keyed lock of KeyedLock, for every set of  *)
(* tasks, keys and slots.  On top of the invariant of TurnLockProofs the   *)
(* argument needs to know who is in a mutex's line: only tasks with an Arc *)
(* to it, each in one place; so a slot no task has an Arc to has an empty  *)
(* line, and neither its removal from the map nor its allocation changes   *)
(* the line of a session.                                                  *)
(***************************************************************************)
EXTENDS TurnLockProofs

(* The permit is with a task that waits for it or runs, and while it is    *)
(* free nobody queues.                                                     *)
OwnerInLine ==
    \A s \in Slots :
        /\ owner[s] # None => arc[owner[s]] = s /\ pc[owner[s]] \in {"waiting", "running"}
        /\ owner[s] = None => queue[s] = <<>>

\* Who queues waits, has an Arc to the slot, and is there once.
QueueWaits ==
    \A s \in Slots : \A i \in 1..Len(queue[s]) :
        /\ arc[queue[s][i]] = s /\ pc[queue[s][i]] = "waiting" /\ queue[s][i] # owner[s]
        /\ \A j \in 1..Len(queue[s]) : queue[s][i] = queue[s][j] => i = j

\* A task that waits was handed the permit or is in the queue.
WaiterQueued ==
    \A t \in Tasks : pc[t] = "waiting" =>
        owner[arc[t]] = t \/ \E i \in 1..Len(queue[arc[t]]) : queue[arc[t]][i] = t

QInv == OwnerInLine /\ QueueWaits /\ WaiterQueued

-----------------------------------------------------------------------------
(* Sequences: a task in front of a FIFO.                                   *)
LEMMA ConsFacts ==
    ASSUME NEW q \in Seq(Tasks), NEW o \in Tasks
    PROVE  /\ <<o>> \o q \in Seq(Tasks)
           /\ Len(<<o>> \o q) = Len(q) + 1
           /\ (<<o>> \o q)[1] = o
           /\ \A i \in 1..Len(q) : (<<o>> \o q)[i + 1] = q[i]
           /\ <<o>> \o q # <<>> /\ Head(<<o>> \o q) = o
  OBVIOUS

(* Behind the task in front is the FIFO.                                   *)
LEMMA ConsTail ==
    ASSUME NEW q \in Seq(Tasks), NEW o \in Tasks
    PROVE  Tail(<<o>> \o q) = q
  OBVIOUS

(* Joining the FIFO is joining the line.                                   *)
LEMMA ConsAppend ==
    ASSUME NEW q \in Seq(Tasks), NEW o \in Tasks, NEW t \in Tasks
    PROVE  Append(<<o>> \o q, t) = <<o>> \o Append(q, t)
  OBVIOUS

(* A FIFO that is not empty is its first task in front of the others.      *)
LEMMA HeadTail ==
    ASSUME NEW q \in Seq(Tasks), q # <<>>
    PROVE  <<Head(q)>> \o Tail(q) = q
  OBVIOUS

(* Sequences: one place removed.                                           *)
LEMMA RemovedFacts ==
    ASSUME NEW q \in Seq(Tasks), NEW i \in 1..Len(q)
    PROVE  /\ Lock!Removed(q, i) \in Seq(Tasks)
           /\ Len(Lock!Removed(q, i)) = Len(q) - 1
           /\ \A j \in 1..(Len(q) - 1) :
                 Lock!Removed(q, i)[j] = IF j < i THEN q[j] ELSE q[j + 1]
  <1>1. Len(q) - 1 \in Nat /\ \A j \in 1..(Len(q) - 1) : q[j] \in Tasks /\ q[j + 1] \in Tasks
    OBVIOUS
  <1>2. Lock!Removed(q, i) \in [1..(Len(q) - 1) -> Tasks]
    BY <1>1 DEF Lock!Removed
  <1> QED
    BY <1>1, <1>2 DEF Lock!Removed

(* The head of a line leaves it, or a task further back does.              *)
LEMMA ConsRemovedHead ==
    ASSUME NEW q \in Seq(Tasks), NEW o \in Tasks
    PROVE  Lock!Removed(<<o>> \o q, 1) = q
  <1> DEFINE l == <<o>> \o q
  <1>1. l \in Seq(Tasks) /\ Len(l) = Len(q) + 1 /\ \A j \in 1..Len(q) : l[j + 1] = q[j]
    BY ConsFacts
  <1> HIDE DEF l
  <1>2. Lock!Removed(l, 1) = [j \in 1..Len(q) |-> q[j]]
    BY <1>1 DEF Lock!Removed
  <1>3. q = [j \in 1..Len(q) |-> q[j]]
    OBVIOUS
  <1> QED
    BY <1>2, <1>3 DEF l

(* A task of the FIFO leaves it, and the line behind the one in front.     *)
LEMMA ConsRemoved ==
    ASSUME NEW q \in Seq(Tasks), NEW o \in Tasks, NEW i \in 1..Len(q)
    PROVE  Lock!Removed(<<o>> \o q, i + 1) = <<o>> \o Lock!Removed(q, i)
  <1> DEFINE l == <<o>> \o q
             r == Lock!Removed(q, i)
             m == <<o>> \o r
  <1>1. /\ l \in Seq(Tasks) /\ Len(l) = Len(q) + 1 /\ l[1] = o
        /\ \A j \in 1..Len(q) : l[j + 1] = q[j]
    BY ConsFacts
  <1>2. /\ r \in Seq(Tasks) /\ Len(r) = Len(q) - 1
        /\ \A j \in 1..(Len(q) - 1) : r[j] = IF j < i THEN q[j] ELSE q[j + 1]
    BY RemovedFacts
  <1> HIDE DEF l, r
  <1>3. /\ m \in Seq(Tasks) /\ Len(m) = Len(q) /\ m[1] = o
        /\ \A j \in 1..Len(r) : m[j + 1] = r[j]
    BY <1>2, ConsFacts
  <1> HIDE DEF m
  <1>4. /\ Lock!Removed(l, i + 1) \in Seq(Tasks) /\ Len(Lock!Removed(l, i + 1)) = Len(q)
        /\ \A j \in 1..Len(q) : Lock!Removed(l, i + 1)[j] = IF j < i + 1 THEN l[j] ELSE l[j + 1]
    <2>1. i + 1 \in 1..Len(l) /\ Len(l) - 1 = Len(q)
      BY <1>1
    <2>2. /\ Lock!Removed(l, i + 1) \in Seq(Tasks)
          /\ Len(Lock!Removed(l, i + 1)) = Len(l) - 1
          /\ \A j \in 1..(Len(l) - 1) :
                Lock!Removed(l, i + 1)[j] = IF j < i + 1 THEN l[j] ELSE l[j + 1]
      BY <1>1, <2>1, RemovedFacts, Zenon
    <2> QED
      BY <2>1, <2>2, SMTT(30)
  <1>5. ASSUME NEW j \in 1..Len(q) PROVE Lock!Removed(l, i + 1)[j] = m[j]
    <2>1. CASE j = 1
      BY <1>1, <1>3, <1>4, <2>1
    <2>2. CASE j # 1
      <3>1. j - 1 \in 1..Len(q) /\ j - 1 \in 1..Len(r) /\ j = (j - 1) + 1
        BY <1>2, <2>2
      <3>2. m[j] = IF j - 1 < i THEN q[j - 1] ELSE q[j]
        BY <1>2, <1>3, <3>1, Zenon
      <3>3. l[j] = q[j - 1] /\ l[j + 1] = q[j]
        BY <1>1, <3>1, Zenon
      <3> QED
        BY <1>4, <3>2, <3>3
    <2> QED
      BY <2>1, <2>2
  <1>6. Lock!Removed(l, i + 1) = m
    BY <1>3, <1>4, <1>5, SeqEqual, Zenon
  <1> QED
    BY <1>6 DEF l, m, r

(* Dropping a waiter removes one place of the FIFO, the waiter's.          *)
LEMMA WithoutRemoves ==
    ASSUME NEW q \in Seq(Tasks), NEW t, \E i \in 1..Len(q) : q[i] = t
    PROVE  \E i \in 1..Len(q) : q[i] = t /\ Without(q, t) = Lock!Removed(q, i)
  <1> DEFINE i == CHOOSE i \in DOMAIN q : q[i] = t
  <1>1. i \in 1..Len(q) /\ q[i] = t
    OBVIOUS
  <1>2. Without(q, t) = Lock!Removed(q, i)
    BY DEF Without, Lock!Removed
  <1> QED
    BY <1>1, <1>2, Zenon

-----------------------------------------------------------------------------
(* The lines of the empty map.                                             *)
LEMMA InitQInv == Init => QInv
  <1> SUFFICES ASSUME Init PROVE QInv
    OBVIOUS
  <1>1. OwnerInLine /\ QueueWaits
    BY DEF Init, OwnerInLine, QueueWaits
  <1>2. WaiterQueued
    BY DEF Init, WaiterQueued
  <1> QED
    BY <1>1, <1>2 DEF QInv

(* What a mutex given back does to its owner and its FIFO.                 *)
LEMMA HandOverFacts ==
    ASSUME TypeOK, NEW s \in Slots, HandOver(s)
    PROVE  /\ \A r \in Slots : r # s => owner'[r] = owner[r] /\ queue'[r] = queue[r]
           /\ queue[s] = <<>> => owner'[s] = None /\ queue'[s] = <<>>
           /\ queue[s] # <<>> =>
                 /\ owner'[s] = queue[s][1]
                 /\ queue'[s] = Tail(queue[s])
                 /\ Len(queue[s]) >= 1 /\ Len(queue'[s]) = Len(queue[s]) - 1
                 /\ \A i \in 1..Len(queue'[s]) : queue'[s][i] = queue[s][i + 1]
  <1>1. queue[s] \in Seq(Tasks)
    BY DEF TypeOK
  <1>2. CASE queue[s] = <<>>
    BY <1>2 DEF HandOver, TypeOK
  <1>3. CASE queue[s] # <<>>
    <2>1. owner' = [owner EXCEPT ![s] = Head(queue[s])] /\ queue' = [queue EXCEPT ![s] = Tail(@)]
      BY <1>3 DEF HandOver
    <2>2. owner'[s] = Head(queue[s]) /\ queue'[s] = Tail(queue[s])
      BY <2>1 DEF TypeOK
    <2>3. /\ Head(queue[s]) = queue[s][1] /\ Len(queue[s]) >= 1
          /\ Len(Tail(queue[s])) = Len(queue[s]) - 1
          /\ \A i \in 1..Len(Tail(queue[s])) : Tail(queue[s])[i] = queue[s][i + 1]
      BY <1>1, <1>3
    <2>4. \A r \in Slots : r # s => owner'[r] = owner[r] /\ queue'[r] = queue[r]
      BY <2>1 DEF TypeOK
    <2> QED
      BY <1>3, <2>2, <2>3, <2>4
  <1> QED
    BY <1>2, <1>3

(* A slot given back has a sound line again: its head, if any, is the      *)
(* owner now, and `t`, which had the permit, is in it no more.             *)
LEMMA HandOverQInv ==
    ASSUME IInv, QInv, NEW t \in Tasks, arc[t] \in Slots, owner[arc[t]] = t, HandOver(arc[t]),
           pc' = [pc EXCEPT ![t] = "released"], arc' = arc
    PROVE  QInv'
  <1> DEFINE s == arc[t]
  <1> USE NoneAssumption
  <1>t. TypeOK /\ OwnerInLine /\ QueueWaits /\ WaiterQueued /\ s \in Slots /\ t # None
    BY DEF IInv, QInv
  <1>h. /\ \A r \in Slots : r # s => owner'[r] = owner[r] /\ queue'[r] = queue[r]
        /\ queue[s] = <<>> => owner'[s] = None /\ queue'[s] = <<>>
        /\ queue[s] # <<>> =>
              /\ owner'[s] = queue[s][1]
              /\ queue'[s] = Tail(queue[s])
              /\ Len(queue[s]) >= 1 /\ Len(queue'[s]) = Len(queue[s]) - 1
              /\ \A i \in 1..Len(queue'[s]) : queue'[s][i] = queue[s][i + 1]
    BY <1>t, HandOverFacts
  <1>q. \A r \in Slots : /\ queue[r] \in Seq(Tasks) /\ Len(queue[r]) \in Nat
                         /\ \A i \in 1..Len(queue[r]) : queue[r][i] \in Tasks
    BY <1>t DEF TypeOK
  <1>p. \A u \in Tasks : arc'[u] = arc[u] /\ (u # t => pc'[u] = pc[u]) /\ pc'[t] = "released"
    BY <1>t DEF TypeOK
  <1>n. \A r \in Slots : \A i \in 1..Len(queue[r]) : queue[r][i] # t
    BY <1>t DEF QueueWaits
  <1>1. OwnerInLine'
    <2>1. ASSUME NEW r \in Slots, r # s
          PROVE  /\ owner'[r] # None => arc'[owner'[r]] = r /\ pc'[owner'[r]] \in {"waiting", "running"}
                 /\ owner'[r] = None => queue'[r] = <<>>
      BY <1>t, <1>h, <1>p, <2>1 DEF OwnerInLine, TypeOK
    <2>2. /\ owner'[s] # None => arc'[owner'[s]] = s /\ pc'[owner'[s]] \in {"waiting", "running"}
          /\ owner'[s] = None => queue'[s] = <<>>
      <3>1. CASE queue[s] = <<>>
        BY <1>h, <3>1
      <3>2. CASE queue[s] # <<>>
        <4>1. 1 \in 1..Len(queue[s]) /\ queue[s][1] \in Tasks /\ queue[s][1] # t
          BY <1>t, <1>h, <1>q, <1>n, <3>2
        <4>2. arc[queue[s][1]] = s /\ pc[queue[s][1]] = "waiting"
          BY <1>t, <4>1 DEF QueueWaits
        <4> QED
          BY <1>h, <1>p, <3>2, <4>1, <4>2
      <3> QED
        BY <3>1, <3>2
    <2> QED
      BY <2>1, <2>2 DEF OwnerInLine
  <1>2. QueueWaits'
    <2>1. ASSUME NEW r \in Slots, NEW i \in 1..Len(queue'[r])
          PROVE  /\ arc'[queue'[r][i]] = r /\ pc'[queue'[r][i]] = "waiting"
                 /\ queue'[r][i] # owner'[r]
                 /\ \A j \in 1..Len(queue'[r]) : queue'[r][i] = queue'[r][j] => i = j
      <3>1. CASE r # s
        BY <1>t, <1>h, <1>p, <1>n, <1>q, <2>1, <3>1, SMTT(30) DEF QueueWaits
      <3>2. CASE r = s
        <4>1. queue[s] # <<>>
          BY <1>h, <2>1, <3>2
        <4>2. i + 1 \in 1..Len(queue[s]) /\ 1 \in 1..Len(queue[s]) /\ queue'[s][i] = queue[s][i + 1]
          BY <1>h, <1>t, <1>q, <2>1, <3>2, <4>1
        <4>3. /\ arc[queue[s][i + 1]] = s /\ pc[queue[s][i + 1]] = "waiting"
              /\ \A j \in 1..Len(queue[s]) : queue[s][i + 1] = queue[s][j] => i + 1 = j
          BY <1>t, <4>2 DEF QueueWaits
        <4>4. queue[s][i + 1] # queue[s][1]
          BY <4>2, <4>3
        <4>5. ASSUME NEW j \in 1..Len(queue'[s]), queue'[s][i] = queue'[s][j] PROVE i = j
          <5>0. /\ Len(queue[s]) \in Nat /\ Len(queue'[s]) = Len(queue[s]) - 1
                /\ \A m \in 1..Len(queue'[s]) : queue'[s][m] = queue[s][m + 1]
            BY <1>h, <1>t, <1>q, <4>1, Zenon
          <5>1. j + 1 \in 1..Len(queue[s]) /\ queue'[s][j] = queue[s][j + 1]
            BY <4>5, <5>0
          <5> QED
            BY <4>2, <4>3, <4>5, <5>1
        <4> QED
          BY <1>h, <1>p, <1>q, <1>n, <1>t, <3>2, <4>1, <4>2, <4>3, <4>4, <4>5, SMTT(30)
      <3> QED
        BY <3>1, <3>2
    <2> QED
      BY <2>1 DEF QueueWaits
  <1>3. WaiterQueued'
    <2> SUFFICES ASSUME NEW u \in Tasks, pc'[u] = "waiting"
                 PROVE  owner'[arc'[u]] = u \/ \E i \in 1..Len(queue'[arc'[u]]) : queue'[arc'[u]][i] = u
      BY DEF WaiterQueued
    <2>1. u # t /\ pc[u] = "waiting" /\ arc'[u] = arc[u] /\ arc[u] \in Slots
      BY <1>p DEF IInv, ArcIsCurrent, HasArc
    <2>2. owner[arc[u]] = u \/ \E i \in 1..Len(queue[arc[u]]) : queue[arc[u]][i] = u
      BY <1>t, <2>1 DEF WaiterQueued
    <2>3. CASE arc[u] # s
      BY <1>h, <2>1, <2>2, <2>3
    <2>4. CASE arc[u] = s
      <3>1. PICK i \in 1..Len(queue[s]) : queue[s][i] = u
        BY <2>1, <2>2, <2>4
      <3>2. queue[s] # <<>>
        BY <1>q, <1>t, <3>1
      <3>3. CASE i = 1
        BY <1>h, <2>1, <2>4, <3>1, <3>2, <3>3
      <3>4. CASE i # 1
        <4>0. /\ Len(queue[s]) \in Nat /\ Len(queue'[s]) = Len(queue[s]) - 1
              /\ \A m \in 1..Len(queue'[s]) : queue'[s][m] = queue[s][m + 1]
          BY <1>h, <1>t, <1>q, <3>2
        <4> HIDE DEF s
        <4>a. i - 1 \in 1..Len(queue'[s])
          BY <3>1, <3>4, <4>0
        <4>1. i - 1 \in 1..Len(queue'[s]) /\ queue'[s][i - 1] = queue[s][(i - 1) + 1]
          BY <4>a, <4>0
        <4>2. (i - 1) + 1 = i
          BY <1>q, <1>t, <3>1
        <4> QED
          BY <2>1, <2>4, <3>1, <4>1, <4>2
      <3> QED
        BY <3>3, <3>4
    <2> QED
      BY <2>3, <2>4
  <1> QED
    BY <1>1, <1>2, <1>3 DEF QInv

(* A waiter that leaves the FIFO leaves a sound line behind.               *)
LEMMA DequeueQInv ==
    ASSUME IInv, QInv, NEW t \in Tasks, pc[t] = "waiting", arc[t] \in Slots, owner[arc[t]] # t,
           queue' = [queue EXCEPT ![arc[t]] = Without(@, t)], owner' = owner,
           pc' = [pc EXCEPT ![t] = "released"], arc' = arc
    PROVE  QInv'
  <1> DEFINE s == arc[t]
  <1>t. TypeOK /\ OwnerInLine /\ QueueWaits /\ WaiterQueued /\ s \in Slots
    BY DEF IInv, QInv
  <1>q. \A r \in Slots : queue[r] \in Seq(Tasks) /\ Len(queue[r]) \in Nat
    BY <1>t DEF TypeOK
  <1>1. \E i \in 1..Len(queue[s]) : queue[s][i] = t
    BY <1>t DEF WaiterQueued
  <1>2. PICK n \in 1..Len(queue[s]) : queue[s][n] = t /\ Without(queue[s], t) = Lock!Removed(queue[s], n)
    BY <1>1, <1>q, <1>t, WithoutRemoves
  <1>h. /\ \A r \in Slots : r # s => queue'[r] = queue[r]
        /\ queue'[s] = Lock!Removed(queue[s], n)
    BY <1>2, <1>t DEF TypeOK
  <1>l. /\ Len(queue'[s]) = Len(queue[s]) - 1
        /\ \A j \in 1..(Len(queue[s]) - 1) :
              queue'[s][j] = IF j < n THEN queue[s][j] ELSE queue[s][j + 1]
    <2>1. queue[s] \in Seq(Tasks)
      BY <1>q, <1>t
    <2>2. /\ Len(Lock!Removed(queue[s], n)) = Len(queue[s]) - 1
          /\ \A j \in 1..(Len(queue[s]) - 1) :
                Lock!Removed(queue[s], n)[j] = IF j < n THEN queue[s][j] ELSE queue[s][j + 1]
      BY <2>1, RemovedFacts, SMTT(30)
    <2> QED
      BY <1>h, <2>2, Zenon
  <1>p. \A u \in Tasks : arc'[u] = arc[u] /\ (u # t => pc'[u] = pc[u]) /\ pc'[t] = "released"
    BY <1>t DEF TypeOK
  <1>m. \A r \in Slots : \A i \in 1..Len(queue[r]) : queue[r][i] \in Tasks
    BY <1>q
  <1>n. ASSUME NEW j \in 1..Len(queue'[s])
        PROVE  \E m \in 1..Len(queue[s]) :
                  m # n /\ queue'[s][j] = queue[s][m] /\ m = IF j < n THEN j ELSE j + 1
    <2> HIDE DEF s
    <2>1. Len(queue[s]) \in Nat /\ j \in 1..(Len(queue[s]) - 1)
      BY <1>l, <1>q, <1>t
    <2>2. CASE j < n
      BY <1>l, <2>1, <2>2
    <2>3. CASE ~(j < n)
      <3>1. j + 1 \in 1..Len(queue[s]) /\ j + 1 # n
        BY <2>1, <2>3
      <3> QED
        BY <1>l, <2>1, <2>3, <3>1
    <2> QED
      BY <2>2, <2>3
  <1>3. OwnerInLine'
    <2>1. ASSUME NEW r \in Slots
          PROVE  /\ owner[r] # None => arc'[owner[r]] = r /\ pc'[owner[r]] \in {"waiting", "running"}
                 /\ owner[r] = None => queue'[r] = <<>>
      <3>1. owner[r] # t
        BY <1>t, <2>1, NoneAssumption DEF OwnerInLine
      <3>2. owner[r] # None => owner[r] \in Tasks
        BY <1>t DEF TypeOK
      <3>3. owner[r] = None => r # s
        BY <1>t, <1>1, <1>q DEF OwnerInLine
      <3> QED
        BY <1>t, <1>h, <1>p, <3>1, <3>2, <3>3 DEF OwnerInLine
    <2> QED
      BY <2>1 DEF OwnerInLine
  <1>4. QueueWaits'
    <2>1. ASSUME NEW r \in Slots, NEW i \in 1..Len(queue'[r])
          PROVE  /\ arc'[queue'[r][i]] = r /\ pc'[queue'[r][i]] = "waiting"
                 /\ queue'[r][i] # owner'[r]
                 /\ \A j \in 1..Len(queue'[r]) : queue'[r][i] = queue'[r][j] => i = j
      <3>1. CASE r # s
        <4>1. queue'[r] = queue[r] /\ i \in 1..Len(queue[r])
          BY <1>h, <3>1
        <4>2. queue[r][i] \in Tasks /\ queue[r][i] # t
          BY <1>t, <1>m, <3>1, <4>1, SMTT(30) DEF QueueWaits
        <4> QED
          BY <1>t, <1>p, <4>1, <4>2 DEF QueueWaits
      <3>2. CASE r = s
        <4>1. PICK m \in 1..Len(queue[s]) :
                 m # n /\ queue'[s][i] = queue[s][m] /\ m = IF i < n THEN i ELSE i + 1
          BY <1>n, <3>2, Zenon
        <4>2. /\ queue[s][m] \in Tasks /\ queue[s][m] # t
              /\ arc[queue[s][m]] = s /\ pc[queue[s][m]] = "waiting" /\ queue[s][m] # owner[s]
          BY <1>t, <1>m, <1>2, <4>1 DEF QueueWaits
        <4>3. ASSUME NEW j \in 1..Len(queue'[s]), queue'[s][i] = queue'[s][j] PROVE i = j
          <5>1. PICK w \in 1..Len(queue[s]) :
                   w # n /\ queue'[s][j] = queue[s][w] /\ w = IF j < n THEN j ELSE j + 1
            BY <1>n, Zenon
          <5>2. w = m
            BY <1>t, <4>1, <4>3, <5>1 DEF QueueWaits
          <5>3. i \in Int /\ j \in Int /\ n \in Int
            BY <3>2, <2>1
          <5> HIDE DEF s
          <5> QED
            BY <4>1, <5>1, <5>2, <5>3
        <4> QED
          BY <1>p, <3>2, <4>1, <4>2, <4>3
      <3> QED
        BY <3>1, <3>2
    <2> QED
      BY <2>1 DEF QueueWaits
  <1>5. WaiterQueued'
    <2> SUFFICES ASSUME NEW u \in Tasks, pc'[u] = "waiting"
                 PROVE  owner'[arc'[u]] = u \/ \E i \in 1..Len(queue'[arc'[u]]) : queue'[arc'[u]][i] = u
      BY DEF WaiterQueued
    <2>1. u # t /\ pc[u] = "waiting" /\ arc'[u] = arc[u] /\ arc[u] \in Slots
      BY <1>p, <1>t DEF IInv, ArcIsCurrent, HasArc, TypeOK
    <2>2. owner[arc[u]] = u \/ \E i \in 1..Len(queue[arc[u]]) : queue[arc[u]][i] = u
      BY <1>t, <2>1 DEF WaiterQueued
    <2>3. CASE arc[u] # s \/ owner[arc[u]] = u
      BY <1>h, <2>1, <2>2, <2>3
    <2>4. CASE arc[u] = s /\ owner[arc[u]] # u
      <3>1. PICK i \in 1..Len(queue[s]) : queue[s][i] = u
        BY <2>2, <2>4
      <3>2. i # n /\ Len(queue[s]) \in Nat
        BY <1>2, <2>1, <3>1, <1>q, <1>t
      <3> DEFINE j == IF i < n THEN i ELSE i - 1
      <3>3. j \in 1..Len(queue'[s]) /\ queue'[s][j] = queue[s][i]
        <4> HIDE DEF s
        <4>1. j \in 1..(Len(queue[s]) - 1) /\ (IF j < n THEN j ELSE j + 1) = i
          BY <3>2
        <4> HIDE DEF j
        <4> QED
          BY <1>l, <4>1
      <3> QED
        BY <2>1, <2>4, <3>1, <3>3
    <2> QED
      BY <2>3, <2>4
  <1> QED
    BY <1>3, <1>4, <1>5 DEF QInv

(* Every step of every task keeps the lines sound.                         *)
LEMMA NextQInv == IInv /\ QInv /\ [Next]_vars => QInv'
  <1> SUFFICES ASSUME IInv, QInv, [Next]_vars PROVE QInv'
    OBVIOUS
  <1> USE NoneAssumption
  <1>t. /\ TypeOK /\ ArcIsCurrent /\ RunnerOwns
        /\ OwnerInLine /\ QueueWaits /\ WaiterQueued
    BY DEF IInv, QInv
  <1>q. \A r \in Slots : /\ queue[r] \in Seq(Tasks) /\ Len(queue[r]) \in Nat
                         /\ \A i \in 1..Len(queue[r]) : queue[r][i] \in Tasks
    BY <1>t DEF TypeOK
  <1>o. \A r \in Slots : owner[r] # None => owner[r] \in Tasks
    BY <1>t DEF TypeOK
  <1>1. ASSUME NEW t \in Tasks, NEW k \in Keys, CloneSlot(t, k) PROVE QInv'
    <2>1. /\ pc[t] = "idle" /\ queue' = queue /\ owner' = owner
          /\ \A u \in Tasks : u # t => arc'[u] = arc[u] /\ pc'[u] = pc[u]
          /\ pc'[t] = "cloned"
      BY <1>1, <1>t DEF CloneSlot, TypeOK
    <2>2. /\ \A r \in Slots : owner[r] # t
          /\ \A r \in Slots : \A i \in 1..Len(queue[r]) : queue[r][i] # t
      BY <1>t, <2>1 DEF OwnerInLine, QueueWaits
    <2>3. OwnerInLine'
      BY <1>t, <1>o, <2>1, <2>2 DEF OwnerInLine
    <2>4. QueueWaits'
      BY <1>t, <1>q, <2>1, <2>2 DEF QueueWaits
    <2>5. WaiterQueued'
      BY <1>t, <2>1 DEF WaiterQueued
    <2> QED
      BY <2>3, <2>4, <2>5 DEF QInv
  <1>2. ASSUME NEW t \in Tasks, Poll(t) PROVE QInv'
    <2>1. pc[t] = "cloned" /\ arc[t] \in Slots /\ arc' = arc
      BY <1>2, <1>t DEF Poll, ArcIsCurrent, HasArc
    <2>2. /\ \A r \in Slots : owner[r] # t
          /\ \A r \in Slots : \A i \in 1..Len(queue[r]) : queue[r][i] # t
      BY <1>t, <2>1 DEF OwnerInLine, QueueWaits
    <2>3. CASE owner[arc[t]] = None
      <3>1. /\ owner'[arc[t]] = t /\ queue' = queue /\ pc'[t] = "running"
            /\ \A r \in Slots : r # arc[t] => owner'[r] = owner[r]
            /\ \A u \in Tasks : u # t => pc'[u] = pc[u]
        BY <1>2, <1>t, <2>1, <2>3 DEF Poll, TypeOK
      <3>2. queue[arc[t]] = <<>>
        BY <1>t, <2>1, <2>3 DEF OwnerInLine
      <3>3. OwnerInLine'
        BY <1>t, <1>o, <2>1, <2>2, <3>1 DEF OwnerInLine
      <3>4. QueueWaits'
        BY <1>t, <1>q, <2>1, <2>2, <3>1, <3>2 DEF QueueWaits
      <3>5. WaiterQueued'
        <4> SUFFICES ASSUME NEW u \in Tasks, pc'[u] = "waiting"
                     PROVE  owner'[arc[u]] = u \/ \E i \in 1..Len(queue[arc[u]]) : queue[arc[u]][i] = u
          BY <2>1, <3>1 DEF WaiterQueued
        <4>1. u # t /\ pc[u] = "waiting" /\ arc[u] \in Slots
          BY <1>t, <3>1 DEF ArcIsCurrent, HasArc
        <4>2. owner[arc[u]] = u \/ \E i \in 1..Len(queue[arc[u]]) : queue[arc[u]][i] = u
          BY <1>t, <4>1 DEF WaiterQueued
        <4> QED
          BY <2>3, <3>1, <3>2, <4>1, <4>2
      <3> QED
        BY <3>3, <3>4, <3>5 DEF QInv
    <2>4. CASE owner[arc[t]] # None
      <3> DEFINE s == arc[t]
      <3>1. /\ owner' = owner /\ queue'[s] = Append(queue[s], t) /\ pc'[t] = "waiting"
            /\ \A r \in Slots : r # s => queue'[r] = queue[r]
            /\ \A u \in Tasks : u # t => pc'[u] = pc[u]
        BY <1>2, <1>t, <2>1, <2>4 DEF Poll, TypeOK
      <3>2. /\ Len(queue'[s]) = Len(queue[s]) + 1 /\ queue'[s][Len(queue[s]) + 1] = t
            /\ \A i \in 1..Len(queue[s]) : queue'[s][i] = queue[s][i]
        BY <1>q, <2>1, <3>1
      <3>3. OwnerInLine'
        BY <1>t, <1>o, <2>1, <2>2, <2>4, <3>1 DEF OwnerInLine
      <3>4. QueueWaits'
        <4>1. ASSUME NEW r \in Slots, NEW i \in 1..Len(queue'[r])
              PROVE  /\ arc'[queue'[r][i]] = r /\ pc'[queue'[r][i]] = "waiting"
                     /\ queue'[r][i] # owner'[r]
                     /\ \A j \in 1..Len(queue'[r]) : queue'[r][i] = queue'[r][j] => i = j
          <5>1. CASE r # s
            BY <1>t, <1>q, <2>1, <2>2, <3>1, <4>1, <5>1, SMTT(30) DEF QueueWaits
          <5>2. CASE r = s
            <6>1. Len(queue[s]) \in Nat
              BY <1>q, <2>1
            <6>2. ASSUME NEW j \in 1..Len(queue'[s])
                  PROVE  j = Len(queue[s]) + 1 \/ j \in 1..Len(queue[s])
              BY <3>2, <6>1, SMTT(30)
            <6>3. CASE i = Len(queue[s]) + 1
              <7>1. \A j \in 1..Len(queue[s]) : queue'[s][j] # t
                BY <2>1, <2>2, <3>2
              <7> QED
                BY <2>1, <2>2, <3>1, <3>2, <5>2, <6>2, <6>3, <7>1, SMTT(30)
            <6>4. CASE i \in 1..Len(queue[s])
              <7>1. /\ arc[queue[s][i]] = s /\ pc[queue[s][i]] = "waiting"
                    /\ queue[s][i] # owner[s] /\ queue[s][i] # t /\ queue[s][i] \in Tasks
                    /\ \A j \in 1..Len(queue[s]) : queue[s][i] = queue[s][j] => i = j
                BY <1>t, <1>q, <2>1, <2>2, <6>4 DEF QueueWaits
              <7> QED
                BY <2>1, <3>1, <3>2, <5>2, <6>2, <6>4, <7>1, ZenonT(30)
            <6> QED
              BY <5>2, <6>2, <6>3, <6>4
          <5> QED
            BY <5>1, <5>2
        <4> QED
          BY <4>1 DEF QueueWaits
      <3>5. WaiterQueued'
        <4> SUFFICES ASSUME NEW u \in Tasks, pc'[u] = "waiting"
                     PROVE  owner'[arc[u]] = u \/ \E i \in 1..Len(queue'[arc[u]]) : queue'[arc[u]][i] = u
          BY <2>1, <3>1 DEF WaiterQueued
        <4>1. CASE u = t
          <5>1. Len(queue[s]) + 1 \in 1..Len(queue'[s])
            BY <1>q, <2>1, <3>2
          <5> QED
            BY <3>2, <4>1, <5>1
        <4>2. CASE u # t
          <5>1. pc[u] = "waiting" /\ arc[u] \in Slots
            BY <1>t, <3>1, <4>2 DEF ArcIsCurrent, HasArc
          <5>2. owner[arc[u]] = u \/ \E i \in 1..Len(queue[arc[u]]) : queue[arc[u]][i] = u
            BY <1>t, <5>1 DEF WaiterQueued
          <5>3. \A i \in 1..Len(queue[s]) : i \in 1..Len(queue'[s])
            BY <1>q, <2>1, <3>2
          <5> QED
            BY <3>1, <3>2, <5>1, <5>2, <5>3, Zenon
        <4> QED
          BY <4>1, <4>2
      <3> QED
        BY <3>3, <3>4, <3>5 DEF QInv
    <2> QED
      BY <2>3, <2>4
  <1>3. ASSUME NEW t \in Tasks, Acquire(t) PROVE QInv'
    <2>1. /\ owner' = owner /\ queue' = queue /\ arc' = arc /\ pc'[t] = "running"
          /\ \A u \in Tasks : u # t => pc'[u] = pc[u]
          /\ owner[arc[t]] = t /\ pc[t] = "waiting"
      BY <1>3, <1>t DEF Acquire, TypeOK
    <2>2. \A r \in Slots : \A i \in 1..Len(queue[r]) : queue[r][i] # t
      BY <1>t, <2>1 DEF QueueWaits
    <2>3. OwnerInLine' /\ WaiterQueued'
      BY <1>t, <1>o, <2>1 DEF OwnerInLine, WaiterQueued
    <2>4. QueueWaits'
      BY <1>t, <1>q, <2>1, <2>2 DEF QueueWaits
    <2> QED
      BY <2>3, <2>4 DEF QInv
  <1>4. ASSUME NEW t \in Tasks, \/ NestedReturn(t)
                                \/ \E k \in Keys : NestedRun(t, k)
        PROVE  QInv'
    BY <1>4, <1>t DEF NestedReturn, NestedRun, QInv, OwnerInLine, QueueWaits, WaiterQueued
  <1>5. ASSUME NEW t \in Tasks, Release(t) PROVE QInv'
    <2>1. arc[t] \in Slots /\ owner[arc[t]] = t
      BY <1>5, <1>t DEF Release, ArcIsCurrent, RunnerOwns, HasArc
    <2> QED
      BY <1>5, <2>1, HandOverQInv, Zenon DEF Release
  <1>6. ASSUME NEW t \in Tasks, CancelWait(t) PROVE QInv'
    <2>1. pc[t] = "waiting" /\ arc[t] \in Slots
      BY <1>6, <1>t DEF CancelWait, ArcIsCurrent, HasArc
    <2>2. CASE owner[arc[t]] = t
      BY <1>6, <2>1, <2>2, HandOverQInv, Zenon DEF CancelWait
    <2>3. CASE owner[arc[t]] # t
      BY <1>6, <2>1, <2>3, DequeueQInv, Zenon DEF CancelWait
    <2> QED
      BY <2>2, <2>3
  <1>7. ASSUME NEW t \in Tasks, DropArc(t) \/ Sweep(t) PROVE QInv'
    <2>1. /\ owner' = owner /\ queue' = queue /\ pc[t] \in {"released", "sweeping"}
          /\ \A u \in Tasks : u # t => pc'[u] = pc[u] /\ arc'[u] = arc[u]
          /\ pc'[t] \in {"idle", "sweeping"}
      BY <1>7, <1>t DEF DropArc, Sweep, TypeOK
    <2>2. /\ \A r \in Slots : owner[r] # t
          /\ \A r \in Slots : \A i \in 1..Len(queue[r]) : queue[r][i] # t
      BY <1>t, <2>1 DEF OwnerInLine, QueueWaits
    <2>3. OwnerInLine'
      BY <1>t, <1>o, <2>1, <2>2 DEF OwnerInLine
    <2>4. QueueWaits'
      BY <1>t, <1>q, <2>1, <2>2 DEF QueueWaits
    <2>5. WaiterQueued'
      BY <1>t, <2>1 DEF WaiterQueued
    <2> QED
      BY <2>3, <2>4, <2>5 DEF QInv
  <1>8. CASE UNCHANGED vars
    BY <1>8, <1>t DEF vars, QInv, OwnerInLine, QueueWaits, WaiterQueued
  <1> QED
    BY <1>1, <1>2, <1>3, <1>4, <1>5, <1>6, <1>7, <1>8 DEF Next

-----------------------------------------------------------------------------
(* A session's line under its slot; a slot without an owner has no line.   *)
LEMMA LineOfSlot ==
    ASSUME IInv, QInv, NEW k \in Keys, slots[k] # None
    PROVE  /\ slots[k] \in Slots /\ queue[slots[k]] \in Seq(Tasks)
           /\ owner[slots[k]] = None => Line(k) = <<>>
           /\ owner[slots[k]] # None =>
                 owner[slots[k]] \in Tasks /\ Line(k) = <<owner[slots[k]]>> \o queue[slots[k]]
  <1>1. slots[k] \in Slots
    BY DEF IInv, TypeOK
  <1>2. queue[slots[k]] \in Seq(Tasks) /\ (owner[slots[k]] # None => owner[slots[k]] \in Tasks)
    BY <1>1 DEF IInv, TypeOK
  <1>3. owner[slots[k]] = None => queue[slots[k]] = <<>>
    BY <1>1 DEF QInv, OwnerInLine
  <1> QED
    BY <1>1, <1>2, <1>3 DEF Line

(* Whoever is in a session's line waits for it or runs under it.           *)
LEMMA LineMembers ==
    ASSUME IInv, QInv, NEW k \in Keys, NEW i \in 1..Len(Line(k))
    PROVE  pc[Line(k)[i]] \in {"waiting", "running"}
  <1> DEFINE s == slots[k]
  <1>1. s # None /\ owner[s] # None
    <2>1. Line(k) # <<>>
      OBVIOUS
    <2>2. s # None
      BY <2>1 DEF Line
    <2> QED
      BY <2>1, <2>2, LineOfSlot, Zenon
  <1>2. /\ s \in Slots /\ queue[s] \in Seq(Tasks) /\ owner[s] \in Tasks
        /\ Line(k) = <<owner[s]>> \o queue[s]
    BY <1>1, LineOfSlot
  <1> HIDE DEF s
  <1>3. /\ Len(Line(k)) = Len(queue[s]) + 1 /\ Line(k)[1] = owner[s]
        /\ \A j \in 1..Len(queue[s]) : Line(k)[j + 1] = queue[s][j]
    BY <1>2, ConsFacts
  <1>4. CASE i = 1
    BY <1>1, <1>2, <1>3, <1>4, SMTT(30) DEF QInv, OwnerInLine
  <1>5. CASE i # 1
    <2>1. Len(queue[s]) \in Nat
      BY <1>2
    <2>2. i - 1 \in 1..Len(queue[s]) /\ (i - 1) + 1 = i
      BY <1>3, <1>5, <2>1
    <2>3. Line(k)[i] = queue[s][i - 1]
      BY <1>3, <2>2
    <2>4. pc[queue[s][i - 1]] = "waiting"
      BY <1>2, <2>2 DEF QInv, QueueWaits
    <2> QED
      BY <2>3, <2>4
  <1> QED
    BY <1>4, <1>5

(* A step that changes the mutex of one session leaves the lines of the    *)
(* others alone.                                                           *)
LEMMA OtherLines ==
    ASSUME IInv, NEW k \in Keys, slots[k] # None, slots' = slots,
           \A r \in Slots : r # slots[k] => owner'[r] = owner[r] /\ queue'[r] = queue[r]
    PROVE  \A l \in Keys : l # k => Line(l)' = Line(l)
  <1> SUFFICES ASSUME NEW l \in Keys, l # k PROVE Line(l)' = Line(l)
    OBVIOUS
  <1>1. slots[l] # None => slots[l] \in Slots /\ slots[l] # slots[k]
    BY DEF IInv, TypeOK, SlotsDistinct
  <1> QED
    BY <1>1 DEF Line

(* Releasing a mutex serves the next in line.                              *)
LEMMA HandOverLine ==
    ASSUME IInv, QInv, NEW k \in Keys, slots[k] # None, owner[slots[k]] # None,
           HandOver(slots[k]), slots' = slots
    PROVE  Line(k)' = Tail(Line(k)) /\ Line(k)' = queue[slots[k]]
  <1> DEFINE s == slots[k]
  <1>1. /\ s \in Slots /\ queue[s] \in Seq(Tasks) /\ owner[s] \in Tasks
        /\ Line(k) = <<owner[s]>> \o queue[s]
    BY LineOfSlot
  <1>2. Tail(Line(k)) = queue[s]
    BY <1>1, ConsTail
  <1>3. Line(k)' = queue[s]
    <2>1. CASE queue[s] = <<>>
      <3>1. owner'[s] = None /\ queue'[s] = <<>>
        BY <1>1, <2>1, HandOverFacts, SMTT(30) DEF IInv
      <3> QED
        BY <2>1, <3>1 DEF Line
    <2>2. CASE queue[s] # <<>>
      <3>1. owner'[s] = queue[s][1] /\ queue'[s] = Tail(queue[s])
        BY <1>1, <2>2, HandOverFacts DEF IInv
      <3>2. queue[s][1] = Head(queue[s]) /\ queue[s][1] \in Tasks
        BY <1>1, <2>2
      <3>3. queue[s][1] # None
        BY <3>2, NoneAssumption
      <3>4. Line(k)' = <<queue[s][1]>> \o Tail(queue[s])
        BY <3>1, <3>3 DEF Line
      <3> QED
        BY <1>1, <2>2, <3>2, <3>4, HeadTail
    <2> QED
      BY <2>1, <2>2
  <1> QED
    BY <1>2, <1>3

(* Every step of the turn lock is a step of the keyed lock, or none.       *)
LEMMA NextImplements ==
    IInv /\ QInv /\ [Next]_vars => [Lock!Next]_<<Lines, Running>>
  <1> SUFFICES ASSUME IInv, QInv, [Next]_vars PROVE [Lock!Next]_<<Lines, Running>>
    OBVIOUS
  <1> USE NoneAssumption
  <1>t. TypeOK /\ ArcIsCurrent /\ SlotsDistinct /\ RunnerOwns /\ OwnerInLine /\ QueueWaits
    BY DEF IInv, QInv
  <1>1. ASSUME NEW t \in Tasks, NEW k \in Keys, CloneSlot(t, k) PROVE UNCHANGED <<Lines, Running>>
    <2>1. PICK s \in Slots :
             /\ IF slots[k] = None THEN Unallocated(s) ELSE s = slots[k]
             /\ slots' = [slots EXCEPT ![k] = s]
      BY <1>1, Zenon DEF CloneSlot
    <2>2. owner' = owner /\ queue' = queue /\ Running' = Running
      BY <1>1, <1>t DEF CloneSlot, TypeOK, Running
    <2>3. ASSUME NEW l \in Keys PROVE Line(l)' = Line(l)
      <3>1. CASE slots'[l] = slots[l]
        BY <2>2, <3>1 DEF Line
      <3>2. CASE slots'[l] # slots[l]
        <4>1. l = k /\ slots[k] = None /\ slots'[k] = s /\ Unallocated(s) /\ s # None
          BY <1>t, <2>1, <3>2 DEF TypeOK
        <4>2. owner[s] = None
          BY <1>t, <4>1 DEF OwnerInLine, Unallocated, TypeOK
        <4>3. queue[s] = <<>>
          BY <1>t, <4>2 DEF OwnerInLine
        <4> QED
          BY <2>2, <4>1, <4>2, <4>3 DEF Line
      <3> QED
        BY <3>1, <3>2
    <2>4. Lines' = Lines
      BY <2>3 DEF Lines
    <2> QED
      BY <2>2, <2>4
  <1>2. ASSUME NEW t \in Tasks, Poll(t) PROVE \E k \in Keys : Lock!Join(t, k)
    <2>k. PICK k \in Keys : k = key[t]
      BY <1>2, <1>t DEF ArcIsCurrent, Poll
    <2>s. PICK s \in Slots : s = arc[t]
      BY <1>2, <1>t DEF ArcIsCurrent, HasArc, Poll
    <2>1. k \in Keys /\ s \in Slots /\ slots[k] = s /\ s # None /\ pc[t] = "cloned" /\ slots' = slots
      BY <2>k, <2>s, <1>2, <1>t DEF Poll, ArcIsCurrent, HasArc
    <2>2. \A l \in Keys : \A i \in 1..Len(Line(l)) : Line(l)[i] # t
      BY <2>1, LineMembers
    <2>3. \A r \in Slots : r # s => owner'[r] = owner[r] /\ queue'[r] = queue[r]
      BY <2>k, <2>s, <1>2, <1>t DEF Poll, TypeOK
    <2>4. \A l \in Keys : l # k => Line(l)' = Line(l)
      BY <2>1, <2>3, OtherLines
    <2>5. CASE owner[s] = None
      <3>1. Line(k) = <<>> /\ queue[s] = <<>>
        BY <1>t, <2>1, <2>5, LineOfSlot, ZenonT(30) DEF OwnerInLine
      <3>2. owner'[s] = t /\ queue'[s] = <<>> /\ t # None
        BY <2>k, <2>s, <1>2, <1>t, <2>1, <2>5, <3>1 DEF Poll, TypeOK
      <3>3. Line(k)' = <<t>> \o <<>>
        BY <2>1, <3>2, Zenon DEF Line
      <3>4. Line(k)' = Append(Line(k), t)
        BY <3>1, <3>3
      <3>5. Running' = Running \cup {t}
        BY <2>k, <2>s, <1>2, <1>t, <2>1, <2>5 DEF Poll, TypeOK, Running
      <3>6. Lines' = [Lines EXCEPT ![k] = Append(@, t)] /\ Lines[k] = <<>>
        BY <2>1, <2>4, <3>1, <3>4, Zenon DEF Lines
      <3>7. \A l \in Keys : \A i \in 1..Len(Lines[l]) : Lines[l][i] # t
        BY <2>2 DEF Lines
      <3> QED
        BY <3>5, <3>6, <3>7, Zenon DEF Lock!Join
    <2>6. CASE owner[s] # None
      <3>1. /\ queue[s] \in Seq(Tasks) /\ owner[s] \in Tasks
            /\ Line(k) = <<owner[s]>> \o queue[s]
        BY <2>1, <2>6, LineOfSlot
      <3>2. owner' = owner /\ queue'[s] = Append(queue[s], t)
        BY <2>k, <2>s, <1>2, <1>t, <2>1, <2>6 DEF Poll, TypeOK
      <3>3. Line(k)' = <<owner[s]>> \o Append(queue[s], t)
        BY <2>1, <2>6, <3>2, Zenon DEF Line
      <3>4. Line(k)' = Append(Line(k), t) /\ Line(k) # <<>>
        BY <3>1, <3>3, ConsAppend, ConsFacts
      <3>5. Running' = Running
        BY <2>k, <2>s, <1>2, <1>t, <2>1, <2>6 DEF Poll, TypeOK, Running
      <3>6. Lines' = [Lines EXCEPT ![k] = Append(@, t)] /\ Lines[k] # <<>>
        BY <2>1, <2>4, <3>4, Zenon DEF Lines
      <3>7. \A l \in Keys : \A i \in 1..Len(Lines[l]) : Lines[l][i] # t
        BY <2>2 DEF Lines
      <3> QED
        BY <3>5, <3>6, <3>7, Zenon DEF Lock!Join
    <2> QED
      BY <2>5, <2>6
  <1>3. ASSUME NEW t \in Tasks, Acquire(t) PROVE \E k \in Keys : Lock!Enter(t, k)
    <2>k. PICK k \in Keys : k = key[t]
      BY <1>3, <1>t DEF ArcIsCurrent, Acquire
    <2>s. PICK s \in Slots : s = arc[t]
      BY <1>3, <1>t DEF ArcIsCurrent, HasArc, Acquire
    <2>1. /\ k \in Keys /\ slots[k] = s /\ s \in Slots /\ s # None
          /\ owner[s] = t /\ t # None /\ pc[t] = "waiting"
      BY <2>k, <2>s, <1>3, <1>t DEF Acquire, ArcIsCurrent, HasArc
    <2>2. Line(k) # <<>> /\ Head(Line(k)) = t
      <3>1. queue[s] \in Seq(Tasks) /\ Line(k) = <<t>> \o queue[s]
        BY <2>1, LineOfSlot, Zenon
      <3> QED
        BY <3>1, ConsFacts
    <2>3. Running' = Running \cup {t} /\ t \notin Running
      BY <2>k, <2>s, <1>3, <1>t, <2>1 DEF Acquire, TypeOK, Running
    <2>4. Lines' = Lines
      BY <2>k, <2>s, <1>3 DEF Acquire, Lines, Line
    <2> QED
      BY <2>1, <2>2, <2>3, <2>4 DEF Lock!Enter, Lines
  <1>4. ASSUME NEW t \in Tasks, \/ NestedReturn(t)
                                \/ \E k \in Keys : NestedRun(t, k)
        PROVE  UNCHANGED <<Lines, Running>>
    BY <1>4 DEF NestedReturn, NestedRun, Lines, Line, Running
  <1>5. ASSUME NEW t \in Tasks, Release(t) PROVE \E k \in Keys : Lock!Leave(t, k)
    <2>k. PICK k \in Keys : k = key[t]
      BY <1>5, <1>t DEF ArcIsCurrent, Release
    <2>s. PICK s \in Slots : s = arc[t]
      BY <1>5, <1>t DEF ArcIsCurrent, HasArc, Release
    <2>1. /\ k \in Keys /\ slots[k] = s /\ s \in Slots /\ s # None
          /\ owner[s] = t /\ t # None /\ pc[t] = "running" /\ slots' = slots
      BY <2>k, <2>s, <1>5, <1>t, SMTT(30) DEF Release, ArcIsCurrent, RunnerOwns, HasArc
    <2>2. Line(k) # <<>> /\ Head(Line(k)) = t
      <3>1. queue[s] \in Seq(Tasks) /\ Line(k) = <<t>> \o queue[s]
        BY <2>1, LineOfSlot
      <3> QED
        BY <3>1, ConsFacts
    <2>3. Line(k)' = Tail(Line(k))
      BY <2>k, <2>s, <1>5, <2>1, HandOverLine, SMTT(30) DEF Release
    <2>4. \A l \in Keys : l # k => Line(l)' = Line(l)
      <3>1. \A r \in Slots : r # slots[k] => owner'[r] = owner[r] /\ queue'[r] = queue[r]
        BY <2>k, <2>s, <1>5, <1>t, <2>1, HandOverFacts, SMTT(30) DEF Release
      <3> QED
        BY <2>1, <3>1, OtherLines, SMTT(30)
    <2>5. Running' = Running \ {t} /\ t \in Running
      BY <2>k, <2>s, <1>5, <1>t, <2>1 DEF Release, TypeOK, Running
    <2>6. Lines' = [Lines EXCEPT ![k] = Tail(@)]
      BY <2>1, <2>3, <2>4, Zenon DEF Lines
    <2> QED
      BY <2>1, <2>2, <2>5, <2>6, ZenonT(30) DEF Lock!Leave, Lines
  <1>6. ASSUME NEW t \in Tasks, CancelWait(t) PROVE \E k \in Keys : Lock!GiveUp(t, k)
    <2>k. PICK k \in Keys : k = key[t]
      BY <1>6, <1>t DEF ArcIsCurrent, CancelWait
    <2>s. PICK s \in Slots : s = arc[t]
      BY <1>6, <1>t DEF ArcIsCurrent, HasArc, CancelWait
    <2>1. /\ k \in Keys /\ slots[k] = s /\ s \in Slots /\ s # None
          /\ t # None /\ pc[t] = "waiting" /\ slots' = slots
      BY <2>k, <2>s, <1>6, <1>t DEF CancelWait, ArcIsCurrent, HasArc
    <2>2. Running' = Running /\ t \notin Running
      BY <2>k, <2>s, <1>6, <1>t, <2>1, SMTT(30) DEF CancelWait, TypeOK, Running
    <2>o. owner[s] # None
      <3>1. owner[s] = t \/ \E i \in 1..Len(queue[s]) : queue[s][i] = t
        BY <2>s, <2>1 DEF QInv, WaiterQueued
      <3> QED
        BY <1>t, <2>1, <3>1 DEF OwnerInLine
    <2>l. /\ queue[s] \in Seq(Tasks) /\ owner[s] \in Tasks /\ Line(k) = <<owner[s]>> \o queue[s]
      BY <2>1, <2>o, LineOfSlot, ZenonT(30)
    <2>3. \E i \in 1..Len(Line(k)) : Line(k)[i] = t /\ Line(k)' = Lock!Removed(Line(k), i)
      <3>1. CASE owner[s] = t
        <4>1. Line(k)' = queue[s]
          BY <2>k, <2>s, <1>6, <2>1, <2>o, <3>1, HandOverLine, SMTT(30) DEF CancelWait
        <4>2. Lock!Removed(Line(k), 1) = queue[s]
          BY <2>l, ConsRemovedHead
        <4>3. 1 \in 1..Len(Line(k)) /\ Line(k)[1] = t
          BY <2>l, <3>1, ConsFacts
        <4> QED
          BY <4>1, <4>2, <4>3
      <3>2. CASE owner[s] # t
        <4>1. \E i \in 1..Len(queue[s]) : queue[s][i] = t
          BY <2>s, <2>1, <3>2 DEF QInv, WaiterQueued
        <4>2. PICK i \in 1..Len(queue[s]) :
                 queue[s][i] = t /\ Without(queue[s], t) = Lock!Removed(queue[s], i)
          BY <2>l, <4>1, WithoutRemoves
        <4>3. owner' = owner /\ queue'[s] = Lock!Removed(queue[s], i)
          BY <2>k, <2>s, <1>6, <1>t, <2>1, <3>2, <4>2, SMTT(30) DEF CancelWait, TypeOK
        <4>4. Line(k)' = <<owner[s]>> \o Lock!Removed(queue[s], i)
          BY <2>1, <2>o, <4>3 DEF Line
        <4>5. Line(k)' = Lock!Removed(Line(k), i + 1)
          BY <2>l, <4>4, ConsRemoved, Zenon
        <4>6. Len(Line(k)) = Len(queue[s]) + 1 /\ Line(k)[i + 1] = queue[s][i]
          BY <2>l, ConsFacts
        <4>7. i + 1 \in 1..Len(Line(k))
          BY <2>l, <4>6
        <4> QED
          BY <4>2, <4>5, <4>6, <4>7
      <3> QED
        BY <3>1, <3>2
    <2>4. \A l \in Keys : l # k => Line(l)' = Line(l)
      <3>1. \A r \in Slots : r # slots[k] => owner'[r] = owner[r] /\ queue'[r] = queue[r]
        <4>1. CASE owner[s] = t
          BY <2>k, <2>s, <1>6, <1>t, <2>1, <4>1, HandOverFacts, SMTT(30) DEF CancelWait
        <4>2. CASE owner[s] # t
          BY <2>k, <2>s, <1>6, <1>t, <2>1, <4>2, SMTT(30) DEF CancelWait, TypeOK
        <4> QED
          BY <4>1, <4>2
      <3> QED
        BY <2>1, <3>1, OtherLines
    <2>5. PICK i \in 1..Len(Line(k)) : Line(k)[i] = t /\ Line(k)' = Lock!Removed(Line(k), i)
      BY <2>3
    <2>6. Lines' = [Lines EXCEPT ![k] = Lock!Removed(@, i)] /\ Lines[k] = Line(k)
      BY <2>1, <2>4, <2>5, Zenon DEF Lines
    <2> QED
      BY <2>1, <2>2, <2>5, <2>6, Zenon DEF Lock!GiveUp
  <1>7. ASSUME NEW t \in Tasks, DropArc(t) PROVE UNCHANGED <<Lines, Running>>
    BY <1>7, <1>t DEF DropArc, TypeOK, Lines, Line, Running
  <1>8. ASSUME NEW t \in Tasks, Sweep(t) PROVE UNCHANGED <<Lines, Running>>
    <2>1. /\ key[t] \in Keys /\ owner' = owner /\ queue' = queue /\ Running' = Running
      BY <1>8, <1>t DEF Sweep, ArcIsCurrent, TypeOK, Running
    <2>2. ASSUME NEW l \in Keys PROVE Line(l)' = Line(l)
      <3>1. CASE slots'[l] = slots[l]
        BY <2>1, <3>1 DEF Line
      <3>2. CASE slots'[l] # slots[l]
        <4>1. l = key[t] /\ slots[l] # None /\ StrongCount(l) = 1 /\ slots'[l] = None
          BY <1>8, <1>t, <2>1, <3>2 DEF Sweep, TypeOK
        <4>2. \A u \in Tasks : arc[u] # slots[l]
          BY <1>t, <4>1, SweepSeesNoArc
        <4>3. slots[l] \in Slots
          BY <1>t, <4>1 DEF TypeOK
        <4>4. owner[slots[l]] = None
          BY <1>t, <4>2, <4>3 DEF OwnerInLine, TypeOK
        <4>5. Line(l) = <<>>
          BY <4>1, <4>4, LineOfSlot, Zenon
        <4> QED
          BY <4>1, <4>5 DEF Line
      <3> QED
        BY <3>1, <3>2
    <2>3. Lines' = Lines
      BY <2>2 DEF Lines
    <2> QED
      BY <2>1, <2>3
  <1>9. CASE UNCHANGED vars
    BY <1>9 DEF vars, Lines, Line, Running
  <1>10. ASSUME NEW t \in Tasks, Poll(t) \/ Acquire(t) \/ Release(t) \/ CancelWait(t) PROVE Lock!Next
    BY <1>2, <1>3, <1>5, <1>6, <1>10 DEF Lock!Next
  <1> QED
    BY <1>1, <1>4, <1>7, <1>8, <1>9, <1>10 DEF Next

(* TurnLocks::run implements the keyed lock, for any number of tasks, keys *)
(* and slots and any depth of nested runs.                                 *)
THEOREM Implements == Spec => ImplementsKeyedLock
  <1>1. Init => Lock!Init
    BY DEF Init, Lock!Init, Lines, Line, Running
  <1>2. Spec => []QInv
    BY InitQInv, NextQInv, IInvAlways, PTL DEF Spec
  <1>3. Lock!vars = <<Lines, Running>>
    BY DEF Lock!vars
  <1>4. Spec => [][Lock!Next]_<<Lines, Running>>
    BY <1>2, IInvAlways, NextImplements, PTL DEF Spec
  <1> QED
    BY <1>1, <1>4, PTL DEF Spec, ImplementsKeyedLock, Lock!Spec, Lock!vars
=============================================================================
