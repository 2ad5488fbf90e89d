------------------------------ MODULE GraphNode ------------------------------
(***************************************************************************)
(* The graph node: greentic-runner-host src/runner/graph_node.rs.  A call  *)
(* takes the session's lock, picks the run id of the session and graph     *)
(* that is still open or the next free one, and starts or resumes it with  *)
(* the executor of GraphExecutor.  The lock is a store key with a 90 s     *)
(* TTL that this node never refreshes, so a long drive loses it and a      *)
(* second call may drive the same run beside it.                           *)
(***************************************************************************)
EXTENDS GraphExecutor

CONSTANTS MaxMishaps,  \* bound: failures, crashes and lapses, together
          SlowGraphs   \* bound: the graphs whose drives may outlive the lock

VARIABLES lock,    \* the call that owns the session lock, or None
          faults,  \* history: failed effects or store calls, and crashes
          lapses   \* history: locks that lapsed under a live call

vars == <<execVars, lock, faults, lapses>>

Mishap == faults + lapses < MaxMishaps
Live(c) == call[c].pc \notin {"idle", "done", "dead"}

Init ==
    /\ cfg \in {g \in Graphs : FromJson(g)}
    /\ rec = [r \in Runs |-> None] /\ ledger = <<>> /\ ran = EmptyBag
    /\ call = [c \in Calls |-> Idle]
    /\ lock = None /\ faults = 0 /\ lapses = 0

Acquire(c) ==
    /\ call[c].pc = "idle" /\ lock = None
    /\ lock' = c
    /\ Set(c, [Idle EXCEPT !.pc = "derive"])
    /\ UNCHANGED <<cfg, rec, ledger, ran, faults, lapses>>

\* The wait for the lock is bounded (5 s): an error envelope.
LockTimeout(c) ==
    /\ call[c].pc = "idle" /\ lock # None
    /\ Set(c, Returned(Idle, "error", FreshState))
    /\ UNCHANGED <<cfg, rec, ledger, ran, lock, faults, lapses>>

\* Mutant: a parked run counts as finished.
UsableRunning(r) == rec[r] = None \/ rec[r].status = "running"

\* The first run id that is absent or still open.
Usable(r) == rec[r] = None \/ rec[r].status \in {"running", "awaiting"}
DeriveRunId(c) ==
    LET usable == {r \in Runs : Usable(r)} IN
    /\ call[c].pc = "derive"
    /\ Set(c, IF usable = {} THEN Returned(call[c], "exhausted", FreshState)
              ELSE [call[c] EXCEPT !.pc = "load", !.run = Min(usable),
                                   !.resume = rec[Min(usable)] # None])
    /\ UNCHANGED <<cfg, rec, ledger, ran>>

\* The guard of a call that returns releases the lock if it still owns it.
Released(c) == lock' = IF lock = c /\ call'[c].pc = "done" THEN None ELSE lock

Step(c) == (DeriveRunId(c) \/ DriveStep(c)) /\ Released(c) /\ UNCHANGED <<faults, lapses>>

\* A failing store call or effect, of the lock and the choice of a run id too.
Failure(c) ==
    /\ Mishap /\ faults' = faults + 1
    /\ \/ Fail(c)
       \/ /\ call[c].pc \in {"idle", "derive"}
          /\ Set(c, Returned(call[c], "error", FreshState))
          /\ UNCHANGED <<cfg, rec, ledger, ran>>
    /\ Released(c) /\ UNCHANGED lapses

\* The process dies: locals are lost, the lock stays until its TTL.
Crash(c) ==
    /\ Live(c) /\ Mishap /\ faults' = faults + 1
    /\ Set(c, [Idle EXCEPT !.pc = "dead"])
    /\ Lost(Unrecorded(call[c]))
    /\ UNCHANGED <<cfg, rec, ledger, lock, lapses>>

Lapse ==
    /\ lock # None
    /\ \/ Live(lock) /\ cfg \in SlowGraphs /\ Mishap /\ lapses' = lapses + 1
       \/ ~Live(lock) /\ lapses' = lapses
    /\ lock' = None
    /\ UNCHANGED <<execVars, faults>>

Next == Lapse \/ \E c \in Calls :
            Acquire(c) \/ LockTimeout(c) \/ Step(c) \/ Failure(c) \/ Crash(c)

Spec == Init /\ [][Next]_vars /\ WF_vars(\E c \in Calls : Step(c))

-----------------------------------------------------------------------------

\* The messages of a log are the recorded results of exactly the visits its
\* counts name, each once.
LogOk(r, state, visits) ==
    /\ Len(state.messages) =
          FoldFunction(+, 0, [n \in {m \in Nodes : NodeKind(m) \in Effects} |-> visits[n]])
    /\ \A n \in Nodes : NodeKind(n) \in Effects => \A k \in 1..visits[n] :
          /\ <<r, n, k>> \in DOMAIN ledger
          /\ [node |-> n, attempt |-> k, val |-> ledger[<<r, n, k>>]] \in Range(state.messages)

\* Whatever crashed, failed, lapsed or looped, every saved record holds each
\* recorded result its visit counts name exactly once, in the trunk as in
\* every branch slot: no result is lost in a merge, replayed under a
\* renumbered attempt, or counted without its message (save, drive_frontier).
LogMatchesLedger ==
    \A r \in Runs : rec[r] # None =>
        /\ LogOk(r, rec[r].state, rec[r].visits)
        /\ \A b \in DOMAIN rec[r].front : LogOk(r, rec[r].front[b].state, BranchVisits(rec[r], b))

\* Two calls that drove the same run to its respond node return the same
\* conversation, even when they drove it side by side after the lock lapsed:
\* the first recorded result of a visit is the one both continue from
\* (record_node_visit, resolve_decision).
OutcomesAgree ==
    \A c, d \in Calls :
        call[c].out = "succeeded" /\ call[d].out = "succeeded" /\ call[c].run = call[d].run
            => call[c].state = call[d].state

\* An effect is run a second time only if the first result was lost before
\* it was recorded, or a lapsed lock let a second call in (visit_effect).
EffectsOnce == \A v \in DOMAIN ran : ran[v] <= 1 + lapses

\* What Graph::validate lets through and no drive can pass: an approval inside
\* a branch, or one without an edge for a decision it may get.
UnsupportedApproval ==
    \E n \in Nodes : NodeKind(n) = "approval" /\
        \/ \E d \in Decisions : EdgeOn(cfg, n, d) = None
        \/ \E p \in Nodes : NodeKind(p) = "parallel" /\ \E e \in Out(cfg, p) : n \in Walk(cfg, e.to)

\* A validated graph drives the executor into GraphError::Invalid through an
\* unsupported approval only.  The other defensive errors are out of reach: the
\* cursors of the trunk and of every branch are nodes, so no edge was missing,
\* and a branch stops at nothing else on its way from the parallel node to the
\* join (Graph::validate against drive and drive_branch).
ValidatedGraphRuns ==
    \A c \in Calls :
        /\ call[c].out = "invalid" => UnsupportedApproval
        /\ Live(c) /\ call[c].pc \notin {"derive", "load", "init"} => call[c].cursor \in Nodes
        /\ \A b \in DOMAIN call[c].front :
              /\ call[c].front[b].cursor \in Nodes
              /\ call[c].bpc[b].at = "invalid" => NodeKind(call[c].front[b].cursor) = "approval"

\* As long as no lock lapsed under a live call, the session has at most one
\* open run of the graph: a parked or failed-over run is resumed, not forked
\* (derive_run_id).
OneOpenRun == lapses = 0 => \A r, s \in Runs : Open(r) /\ Open(s) => r = s

\* Without a lapsed lock no saved frontier takes back what a branch had
\* saved, whichever branches write in turn and whether the call fanned out
\* itself or resumed the region after a failure (save_slot's mutex).
NoLostSlot ==
    [][\A r \in Runs :
          /\ rec[r] # None /\ rec'[r] # None /\ lapses' = 0
          /\ rec[r].front # <<>> /\ rec'[r].front # <<>>
          => \A b \in DOMAIN rec[r].front :
                /\ Total(rec'[r].front[b].visits) >= Total(rec[r].front[b].visits)
                /\ rec[r].front[b].parked => rec'[r].front[b] = rec[r].front[b]]_vars

\* Without a lapsed lock a terminal record is final: a cap breached by one
\* branch is not overwritten by the slots of the others, and a finished run
\* is not driven again (drive_frontier, start, resume).
TerminalSticks ==
    [][\A r \in Runs :
          rec[r] # None /\ rec[r].status \in Terminal /\ lapses' = 0 => rec'[r] = rec[r]]_vars

\* Every call returns, however its graph loops: the visit cap bounds the
\* trunk and the branches, and every branch settles.
CallEnds == (\E c \in Calls : Live(c)) ~> (\A c \in Calls : ~Live(c))
=============================================================================
