--------------------------- MODULE GraphExecutor ---------------------------
(***************************************************************************)
(* The durable graph executor: greentic-aw-runtime src/graph/executor.rs   *)
(* over a checkpoint store (checkpoint.rs and its Redis and key-value      *)
(* forms).  A call drives a run: it visits one node after the other,       *)
(* records the result of every effect in the visit ledger and then saves   *)
(* the run record; a parallel node fans out into branches that are driven  *)
(* concurrently and merged at their join.  Every await is a step of its    *)
(* own, so calls, and the branches of one call, interleave.                *)
(***************************************************************************)
EXTENDS GraphModel, Functions, FiniteSetsExt, BagsExt

CONSTANTS Calls,          \* invocations of the graph node
          Runs,           \* run ids 1..MAX_RUN_ID_SUFFIX of the session and graph
          Graphs,         \* graph documents
          Labels,         \* the branch labels of parallel nodes, in string order
          Decisions,      \* labels an approval may be decided with
          MaxNodeVisits   \* MAX_NODE_VISITS (64)

ASSUME ExecutorAssumption == MaxNodeVisits \in Nat \ {0} /\ None \notin Calls

VARIABLES cfg,      \* the graph all runs of this session were created from
          rec,      \* run id -> GraphRunRecord, or None
          ledger,   \* recorded node visits <<run, node, attempt>> -> result
          call,     \* the locals of every call
          ran       \* history: bag of the effects <<run, node, attempt>> that were run,
                    \* less those whose result was lost with its call

execVars == <<cfg, rec, ledger, call, ran>>

Nodes == DOMAIN cfg.nodes
NodeKind(n) == Kind(cfg, n)
NoVisits == [n \in Nodes |-> 0]
FreshState == [messages |-> <<>>, resolved |-> FALSE, iterations |-> 0]
Idle == [pc |-> "idle", run |-> None, resume |-> FALSE, cursor |-> None, state |-> FreshState,
         visits |-> <<>>, left |-> 0, val |-> None, front |-> <<>>, bpc |-> <<>>, total |-> 0, join |-> None,
         out |-> None]

Terminal == {"succeeded", "failed"}
Open(r) == rec[r] # None /\ rec[r].status \notin Terminal
Visit(r, n, visits) == <<r, n, visits[n] + 1>>
Total(visits) == FoldFunction(+, 0, visits)

\* build_record_with_frontier; the front is empty outside a parallel region.
Record(cursor, state, visits, status, front) ==
    [cursor |-> cursor, state |-> state, visits |-> visits, status |-> status, front |-> front]

Save(r, record) == rec' = [rec EXCEPT ![r] = record]
Set(c, l) == call' = [call EXCEPT ![c] = l]

\* What the host's effects return: a nested agent turn says whether it
\* resolved; a supervisor's reply without a declared route falls back to one.
AgentTurn == {"more", "done"}
ToolCall == {"ok"}
SupervisorTurn(n) == cfg.nodes[n].routes
Results(n) ==
    CASE NodeKind(n) = "agent" -> AgentTurn
      [] NodeKind(n) = "tool" -> ToolCall
      [] NodeKind(n) = "supervisor" -> SupervisorTurn(n)

Effects == {"agent", "tool", "supervisor"}

\* The state after the visit of node n returned v.
Applied(state, n, k, v) ==
    LET logged == [state EXCEPT !.messages = Append(@, [node |-> n, attempt |-> k, val |-> v])]
    IN  CASE NodeKind(n) = "agent" -> [logged EXCEPT !.iterations = @ + 1,
                                                     !.resolved = @ \/ v = "done"]
          [] NodeKind(n) \in {"tool", "supervisor"} -> logged
          [] OTHER -> state

\* Where the visit leads, or None.
After(n, v) ==
    IF NodeKind(n) \in {"supervisor", "approval"} THEN EdgeOn(cfg, n, v) ELSE NextLinear(cfg, n)

\* The call returns; its guard drops the session lock (see GraphNode).
Returned(l, out, state) ==
    [Idle EXCEPT !.pc = "done", !.run = l.run, !.out = out, !.state = state]

-----------------------------------------------------------------------------
(* Start and resume.                                                        *)

\* drive_from_record: a stored frontier resumes the region, else the trunk.
\* Parked branches are done; the others restart from their saved cursors.
BranchCount(l) ==
    FoldFunction(+, 0, [b \in DOMAIN l.front |->
        Total([n \in Nodes |-> IF l.front[b].visits[n] > l.visits[n]
                               THEN l.front[b].visits[n] - l.visits[n] ELSE 0])])
EnterFront(l) ==
    [l EXCEPT !.pc = "region", !.join = FindJoinForParallel(cfg, l.cursor),
              !.total = Total(l.visits) + BranchCount(l),
              !.bpc = [b \in DOMAIN l.front |->
                          [at |-> IF l.front[b].parked THEN "old" ELSE "run", val |-> None]]]
DriveFrom(l, record) ==
    LET loaded == [l EXCEPT !.cursor = record.cursor, !.state = record.state,
                            !.visits = record.visits, !.left = MaxNodeVisits,
                            !.front = record.front]
    IN  IF record.front # <<>> THEN EnterFront(loaded) ELSE [loaded EXCEPT !.pc = "node"]

\* `start` and `resume` load the record before they do anything.
LoadRun(c) ==
    LET l == call[c]
        record == rec[l.run]
    IN  /\ l.pc = "load"
        /\ \/ /\ record = None
              /\ Set(c, IF l.resume THEN Returned(l, "error", FreshState)
                                    ELSE [l EXCEPT !.pc = "init"])
           \/ /\ record # None /\ record.status \notin Terminal
              /\ Set(c, DriveFrom(l, record))
           \/ /\ record # None /\ record.status \in Terminal
              /\ Set(c, IF l.resume THEN Returned(l, record.status, record.state)
                                    ELSE Returned(l, "error", FreshState))
        /\ UNCHANGED <<cfg, rec, ledger, ran>>

\* A fresh run: save the initial Running record, then drive.
SaveInitial(c) ==
    LET record == Record(cfg.entry, FreshState, NoVisits, "running", <<>>)
    IN  /\ call[c].pc = "init"
        /\ Save(call[c].run, record)
        /\ Set(c, DriveFrom(call[c], record))
        /\ UNCHANGED <<cfg, ledger, ran>>

-----------------------------------------------------------------------------
(* The trunk: drive.                                                        *)

At(c, kinds) ==
    call[c].pc = "node" /\ call[c].left > 0 /\ NodeKind(call[c].cursor) \in kinds

\* Mutant: a recorded visit is not replayed.
VisitEffectAgain(c) ==
    LET l == call[c] IN
    /\ At(c, Effects)
    /\ \E v \in Results(l.cursor) : Set(c, [l EXCEPT !.pc = "record", !.val = v])
    /\ ran' = BagAdd(ran, Visit(l.run, l.cursor, l.visits))
    /\ UNCHANGED <<cfg, rec, ledger>>

\* visit_effect: replay a recorded visit, or run the effect.
VisitEffect(c) ==
    LET l == call[c]
        visit == Visit(l.run, l.cursor, l.visits)
    IN  /\ At(c, Effects)
        /\ \/ /\ visit \in DOMAIN ledger
              /\ Set(c, [l EXCEPT !.pc = "save", !.val = ledger[visit]])
              /\ ran' = ran
           \/ /\ visit \notin DOMAIN ledger
              /\ \E v \in Results(l.cursor) : Set(c, [l EXCEPT !.pc = "record", !.val = v])
              /\ ran' = BagAdd(ran, visit)
        /\ UNCHANGED <<cfg, rec, ledger>>

\* ApprovalFn: undecided parks; a decision without an edge is GraphError::Invalid,
\* before it is recorded.
AskApproval(c) ==
    LET l == call[c] IN
    /\ At(c, {"approval"})
    /\ \/ Set(c, [l EXCEPT !.pc = "park"])
       \/ \E d \in Decisions :
             Set(c, IF After(l.cursor, d) = None THEN Returned(l, "invalid", FreshState)
                                                 ELSE [l EXCEPT !.pc = "record", !.val = d])
    /\ UNCHANGED <<cfg, rec, ledger, ran>>

SavePark(c) ==
    LET l == call[c] IN
    /\ l.pc = "park"
    /\ Save(l.run, Record(l.cursor, l.state, l.visits, "awaiting", <<>>))
    /\ Set(c, Returned(l, "awaiting", l.state))
    /\ UNCHANGED <<cfg, ledger, ran>>

\* Mutant: the later result of a visit replaces the recorded one.
RecordedLast(visit, v) == (visit :> v) @@ ledger

\* record_node_visit: insert if absent; what is stored is what counts.
Recorded(visit, v) == ledger @@ (visit :> v)
RecordVisit(c) ==
    LET l == call[c]
        visit == Visit(l.run, l.cursor, l.visits)
    IN  /\ l.pc = "record"
        /\ ledger' = Recorded(visit, l.val)
        /\ Set(c, [l EXCEPT !.pc = "save", !.val = ledger'[visit]])
        /\ UNCHANGED <<cfg, rec, ran>>

\* The checkpoint after a visit: counts, state and cursor in one write.
SaveVisit(c) ==
    LET l == call[c]
        n == l.cursor
        l2 == [l EXCEPT !.pc = "node", !.left = @ - 1, !.val = None,
                        !.visits[n] = @ + 1,
                        !.state = Applied(l.state, n, l.visits[n] + 1, l.val),
                        !.cursor = After(n, l.val)]
    IN  /\ l.pc = "save"
        /\ Save(l.run, Record(l2.cursor, l2.state, l2.visits, "running", <<>>))
        /\ Set(c, l2)
        /\ UNCHANGED <<cfg, ledger, ran>>

RouteStep(c) ==
    LET l == call[c]
        l2 == [l EXCEPT !.left = @ - 1, !.visits[l.cursor] = @ + 1,
                        !.cursor = Route(cfg, l.cursor, l.state)]
    IN  /\ At(c, {"router"})
        /\ Save(l.run, Record(l2.cursor, l2.state, l2.visits, "running", <<>>))
        /\ Set(c, l2)
        /\ UNCHANGED <<cfg, ledger, ran>>

RespondStep(c) ==
    LET l == call[c] IN
    /\ At(c, {"respond"})
    /\ Save(l.run, Record(l.cursor, l.state, [l.visits EXCEPT ![l.cursor] = @ + 1],
                             "succeeded", <<>>))
    /\ Set(c, Returned(l, "succeeded", l.state))
    /\ UNCHANGED <<cfg, ledger, ran>>

\* A trunk that lands on a join passes through, without a checkpoint.
PassJoin(c) ==
    /\ At(c, {"join"})
    /\ call' = [call EXCEPT ![c].cursor = NextLinear(cfg, @), ![c].left = @ - 1]
    /\ UNCHANGED <<cfg, rec, ledger, ran>>

\* Cap exhausted: Failed is saved before the error is returned.
CapTrunk(c) ==
    LET l == call[c] IN
    /\ l.pc = "node" /\ l.left = 0
    /\ Save(l.run, Record(l.cursor, l.state, l.visits, "failed", <<>>))
    /\ Set(c, Returned(l, "capped", FreshState))
    /\ UNCHANGED <<cfg, ledger, ran>>

-----------------------------------------------------------------------------
(* Parallel regions: run_parallel_region, drive_frontier and drive_branch.  *)

LabelLess(x, y) ==
    \E i, j \in DOMAIN Labels : i < j /\ Labels[i] = x.branch /\ Labels[j] = y.branch

\* Fan out: one slot per branch in label order, saved before any is driven.
FanOut(c) ==
    LET l == call[c]
        edges == SortSeq(EdgesFrom(cfg, l.cursor), LabelLess)
        front == [b \in DOMAIN edges |-> [cursor |-> edges[b].to, state |-> l.state,
                                          visits |-> NoVisits, parked |-> FALSE]]
    IN  /\ At(c, {"parallel"})
        /\ FindJoinForParallel(cfg, l.cursor) # None  \* Graph::validate
        /\ Save(l.run, Record(l.cursor, l.state, l.visits, "running", front))
        /\ Set(c, EnterFront([l EXCEPT !.left = @ - 1, !.front = front]))
        /\ UNCHANGED <<cfg, ledger, ran>>

\* The branch's own counts: the trunk's, overlaid by what it saved.
BranchVisits(l, b) ==
    [n \in Nodes |-> IF l.front[b].visits[n] > 0 THEN l.front[b].visits[n] ELSE l.visits[n]]
BranchGo(l, b, at, v) == [l EXCEPT !.bpc[b] = [at |-> at, val |-> v]]

\* Mutant: the frontier of the fan-out is written, not the shared one.
SlotSavedAlone(l, b, slot) ==
    [x \in DOMAIN l.front |-> IF x = b THEN slot ELSE [l.front[x] EXCEPT !.visits = NoVisits]]

\* save_slot: the branch writes its own slot and saves the whole frontier,
\* under the region's mutex.
SlotSaved(l, b, slot) == [l.front EXCEPT ![b] = slot]
SaveSlot(c, b, at, slot) ==
    LET l == call[c]
        front == SlotSaved(l, b, slot)
    IN  /\ Save(l.run, Record(l.cursor, l.state, l.visits, "running", front))
        /\ Set(c, [BranchGo(l, b, at, None) EXCEPT !.front = front])

\* What a branch saves next: parked at its join, or past the visit it made.
NextSlot(l, b) ==
    LET slot == l.front[b]
        n == slot.cursor
        visits == BranchVisits(l, b)
        v == l.bpc[b].val
    IN  IF n = l.join THEN [slot EXCEPT !.parked = TRUE, !.visits = visits]
        ELSE [slot EXCEPT !.visits = [visits EXCEPT ![n] = @ + 1],
                          !.state = Applied(slot.state, n, visits[n] + 1, v),
                          !.cursor = IF NodeKind(n) = "router" THEN Route(cfg, n, slot.state)
                                                               ELSE After(n, v)]
Parks(l, b) == l.bpc[b].at = "run" /\ l.front[b].cursor = l.join

Short(c, b) ==
    call[c].pc = "region" /\ call[c].bpc[b].at = "run" /\ call[c].front[b].cursor # call[c].join

Counted(c, b, at, v) == Set(c, BranchGo([call[c] EXCEPT !.total = @ + 1], b, at, v))

\* A branch that has reached its join parks.
BranchPark(c, b) ==
    /\ call[c].pc = "region" /\ Parks(call[c], b)
    /\ SaveSlot(c, b, "parked", NextSlot(call[c], b))
    /\ UNCHANGED <<cfg, ledger, ran>>

\* Mutant: the branch that breaches the cap marks the run Failed itself.
BranchCapFails(c, b) ==
    LET l == call[c] IN
    /\ Short(c, b) /\ l.total + 1 > MaxNodeVisits
    /\ Save(l.run, Record(l.cursor, l.state, l.visits, "failed", l.front))
    /\ Counted(c, b, "capped", None)
    /\ UNCHANGED <<cfg, ledger, ran>>

\* Short of the join a visit is first counted against the cap, with the visits
\* of all branches; a breach stops the branch and leaves the record alone.
BranchCap(c, b) ==
    /\ Short(c, b) /\ call[c].total + 1 > MaxNodeVisits
    /\ Counted(c, b, "capped", None)
    /\ UNCHANGED <<cfg, rec, ledger, ran>>

\* Within it the effect is run or replayed; a router has none.  Any other node,
\* an approval among them, is GraphError::Invalid in a branch.
BranchVisit(c, b) ==
    LET l == call[c]
        n == l.front[b].cursor
        visit == Visit(l.run, n, BranchVisits(l, b))
    IN  /\ Short(c, b) /\ l.total + 1 <= MaxNodeVisits
        /\ \/ NodeKind(n) \in Effects /\ visit \in DOMAIN ledger
              /\ Counted(c, b, "save", ledger[visit]) /\ ran' = ran
           \/ NodeKind(n) \in Effects /\ visit \notin DOMAIN ledger
              /\ \E v \in Results(n) : Counted(c, b, "record", v)
              /\ ran' = BagAdd(ran, visit)
           \/ NodeKind(n) = "router" /\ Counted(c, b, "save", None) /\ ran' = ran
           \/ NodeKind(n) \notin Effects \cup {"router"}
              /\ Counted(c, b, "invalid", None) /\ ran' = ran
        /\ UNCHANGED <<cfg, rec, ledger>>

BranchRecord(c, b) ==
    LET l == call[c]
        visit == Visit(l.run, l.front[b].cursor, BranchVisits(l, b))
    IN  /\ l.pc = "region" /\ l.bpc[b].at = "record"
        /\ ledger' = Recorded(visit, l.bpc[b].val)
        /\ Set(c, BranchGo(l, b, "save", ledger'[visit]))
        /\ UNCHANGED <<cfg, rec, ran>>

BranchSave(c, b) ==
    /\ call[c].pc = "region" /\ call[c].bpc[b].at = "save"
    /\ SaveSlot(c, b, "run", NextSlot(call[c], b))
    /\ UNCHANGED <<cfg, ledger, ran>>

\* The merge, in label order: each branch's new messages, any resolved, the
\* largest iteration count.
MergedState(l) ==
    LET news(b) == SubSeq(l.front[b].state.messages, Len(l.state.messages) + 1,
                          Len(l.front[b].state.messages))
        slots == Range(l.front)
    IN  [messages |-> FoldLeftDomain(LAMBDA acc, b : acc \o news(b), l.state.messages, l.front),
         resolved |-> l.state.resolved \/ \E s \in slots : s.state.resolved,
         iterations |-> Max({l.state.iterations} \cup {s.state.iterations : s \in slots})]

\* The counts: every branch driven now overwrites, in order; then each slot's
\* saved counts are folded in by maximum.
OutcomeVisits(l) ==
    LET insert(acc, b) == IF l.bpc[b].at = "old" THEN acc
                          ELSE [n \in Nodes |-> IF l.front[b].visits[n] > 0
                                                THEN l.front[b].visits[n] ELSE acc[n]]
    IN  FoldLeftDomain(insert, l.visits, l.front)
\* Mutant: the counts of branches that had parked before are forgotten.
MergedVisitsOfDriven(l) == OutcomeVisits(l)

MergedVisits(l) ==
    [n \in Nodes |-> Max({OutcomeVisits(l)[n]} \cup {s.visits[n] : s \in Range(l.front)})]

\* Mutant: the region waits for branches that stopped on an error.
SettledClean == {"old", "parked"}

Settled == {"old", "parked", "failed", "capped", "invalid"}

\* Every branch has settled: the first error wins, and only a breached cap
\* is terminal; without one the branches merge and the trunk goes on.
Settle(c) ==
    LET l == call[c]
        ends == [b \in DOMAIN l.bpc |-> l.bpc[b].at]
        errs == SelectSeq(ends, LAMBDA e : e \notin {"old", "parked"})
        l2 == [l EXCEPT !.pc = "node", !.state = MergedState(l), !.visits = MergedVisits(l),
                        !.cursor = NextLinear(cfg, l.join),
                        !.front = <<>>, !.bpc = <<>>, !.total = 0, !.join = None]
    IN  /\ l.pc = "region" /\ Range(ends) \subseteq Settled
        /\ \/ /\ errs = <<>>
              /\ Save(l.run, Record(l2.cursor, l2.state, l2.visits, "running", <<>>))
              /\ Set(c, l2)
           \/ /\ errs # <<>> /\ Head(errs) = "capped"
              /\ Save(l.run, Record(l.cursor, l.state, l.visits, "failed", l.front))
              /\ Set(c, Returned(l, "capped", FreshState))
           \/ /\ errs # <<>> /\ Head(errs) # "capped"
              /\ Set(c, Returned(l, IF Head(errs) = "failed" THEN "error" ELSE "invalid",
                                 FreshState))
              /\ UNCHANGED rec
        /\ UNCHANGED <<cfg, ledger, ran>>

\* The visits whose result only these branches, or this trunk, hold.
Unrecorded(l) ==
    IF l.pc = "record" THEN {Visit(l.run, l.cursor, l.visits)}
    ELSE {Visit(l.run, l.front[b].cursor, BranchVisits(l, b)) :
             b \in {x \in DOMAIN l.bpc : l.bpc[x].at = "record"}}
Lost(visits) == ran' = ran (-) SetToBag(visits)

\* An effect or a store call fails: the trunk returns the error, a branch
\* stops and lets the others settle; a visit that fails in its effect has been
\* counted; the slot whose save failed stays in the shared frontier and goes
\* out with their saves.  Nothing is marked Failed.
Fail(c) ==
    LET l == call[c]
        inEffect(b) == l.bpc[b].at = "run" /\ ~Parks(l, b)
        stopped(b) == [BranchGo(l, b, "failed", None) EXCEPT
                          !.total = IF inEffect(b) THEN @ + 1 ELSE @,
                          !.front = IF l.bpc[b].at = "save" \/ Parks(l, b)
                                    THEN SlotSaved(l, b, NextSlot(l, b)) ELSE @]
    IN  /\ \/ /\ l.pc \in {"load", "init", "node", "record", "park", "save"}
              /\ Set(c, Returned(l, "error", FreshState))
              /\ Lost(Unrecorded(l))
           \/ /\ l.pc = "region"
              /\ \E b \in DOMAIN l.bpc :
                    /\ l.bpc[b].at \in {"run", "record", "save"}
                    /\ inEffect(b) => l.total < MaxNodeVisits /\ NodeKind(l.front[b].cursor) \in Effects
                    /\ Set(c, stopped(b))
                    /\ Lost(Unrecorded(l) \ Unrecorded(stopped(b)))
           \/ /\ l.pc = "region" /\ \A b \in DOMAIN l.bpc : l.bpc[b].at \in Settled
              /\ Set(c, Returned(l, "error", FreshState))
              /\ ran' = ran
        /\ UNCHANGED <<cfg, rec, ledger>>

DriveStep(c) ==
    \/ LoadRun(c) \/ SaveInitial(c)
    \/ VisitEffect(c) \/ AskApproval(c) \/ SavePark(c) \/ RecordVisit(c) \/ SaveVisit(c)
    \/ RouteStep(c) \/ RespondStep(c) \/ PassJoin(c) \/ CapTrunk(c) \/ FanOut(c)
    \/ \E b \in DOMAIN call[c].bpc :
          \/ BranchPark(c, b) \/ BranchCap(c, b)
          \/ BranchVisit(c, b) \/ BranchRecord(c, b) \/ BranchSave(c, b)
    \/ Settle(c)
=============================================================================
