----------------------------- MODULE KeyedLock ------------------------------
(***************************************************************************)
(* What a per-session lock promises its callers, without map, slots or     *)
(* reference counts: one line of tasks per key, first come, first served;  *)
(* the head of a line is the only task that may be inside, and a task that *)
(* is not inside may leave the line from any place in it.                  *)
(***************************************************************************)
EXTENDS Naturals, Sequences

CONSTANTS Tasks, Keys

VARIABLES line,     \* per key: the tasks in line, the one served first
          inside    \* the tasks that run under their key's lock

vars == <<line, inside>>

Init == line = [k \in Keys |-> <<>>] /\ inside = {}

\* q without its i-th element.
Removed(q, i) == [j \in 1..(Len(q) - 1) |-> IF j < i THEN q[j] ELSE q[j + 1]]

\* A task that is in no line joins one, and is inside at once if it is alone.
Join(t, k) ==
    /\ \A l \in Keys : \A i \in 1..Len(line[l]) : line[l][i] # t
    /\ line' = [line EXCEPT ![k] = Append(@, t)]
    /\ inside' = IF line[k] = <<>> THEN inside \cup {t} ELSE inside

Enter(t, k) ==
    /\ line[k] # <<>> /\ Head(line[k]) = t /\ t \notin inside
    /\ inside' = inside \cup {t}
    /\ UNCHANGED line

Leave(t, k) ==
    /\ line[k] # <<>> /\ Head(line[k]) = t /\ t \in inside
    /\ line' = [line EXCEPT ![k] = Tail(@)]
    /\ inside' = inside \ {t}

GiveUp(t, k) ==
    /\ t \notin inside
    /\ \E i \in 1..Len(line[k]) : line[k][i] = t /\ line' = [line EXCEPT ![k] = Removed(@, i)]
    /\ UNCHANGED inside

Next == \E t \in Tasks, k \in Keys : Join(t, k) \/ Enter(t, k) \/ Leave(t, k) \/ GiveUp(t, k)

Spec == Init /\ [][Next]_vars
=============================================================================
