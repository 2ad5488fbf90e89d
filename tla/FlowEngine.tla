----------------------------- MODULE FlowEngine -----------------------------
(***************************************************************************)
(* The walk of a flow: FlowEngine of greentic-runner-host                  *)
(* src/runner/engine.rs, for one conversation whose turns come one at a    *)
(* time (TurnLock).  A turn runs the flow afresh, or resumes it where it   *)
(* was parked, node after node, until it ends, parks or fails; a flow.call *)
(* runs a nested walk, a frame on a stack.  What the caller does with the  *)
(* result is reduced to the park: cleared by a completed turn, replaced by *)
(* a waiting one, kept by an error.  ParkedTurn models that caller, with   *)
(* its store and its own retry.                                            *)
(***************************************************************************)
EXTENDS FlowRouting, SequencesExt

CONSTANTS Graphs,       \* packs: flow id |-> [start, nodes], node name |-> node
          Main,         \* the flow a message of the conversation is routed to
          Actions,      \* what the buttons of cards submit
          MaxSteps,     \* MAX_STEPS_PER_TURN (10000)
          MaxDepth,     \* MAX_FLOW_CALL_DEPTH (16)
          MaxRedirects, \* the default of max_redirects (3)
          MaxParkTurns, \* MAX_PARK_TURNS (100)
          MaxCreated,   \* MAX_CREATED_PER_TURN (20)
          MaxAttempts,  \* FlowRetryConfig.max_attempts
          MaxTurns      \* bound: turns of the conversation

ASSUME EngineAssumption ==
    /\ {MaxSteps, MaxDepth, MaxParkTurns, MaxCreated, MaxAttempts, MaxTurns} \subseteq Nat \ {0}
    /\ MaxRedirects \in Nat
    /\ \A g \in Graphs : Main \in DOMAIN g

VARIABLES graph,     \* the pack
          stack,     \* the walks in progress: the turn's own, then nested ones
          attempt,   \* of the engine's retry loop
          inbound,   \* the message of the turn
          resuming,  \* whether the turn resumes the park
          park,      \* the stored FlowSnapshot, or None
          inflight,  \* requests whose response may still come
          turns,
          unguarded, verdict, reply,   \* history of the latest turn
          lostAnswers                  \* history of the parked run

vars == <<graph, stack, attempt, inbound, resuming, park, inflight, turns, unguarded, verdict,
          reply, lostAnswers>>

Names == UNION {DOMAIN graph[fl].nodes : fl \in DOMAIN graph}
\* An inbound: a person's text or card submit, or the response to a request.
\* `to` is history: the card that was awaiting its submit, if one was.
Message(kind, action, req, says, to) ==
    [kind |-> kind, action |-> action, req |-> req, says |-> says, to |-> to]
NoCard == "(no card)"
NoMessage == Message("input", None, 0, "nothing", NoCard)

ParkedCard == IF park # None /\ park.submit THEN park.node ELSE NoCard

\* ExecutionState: what routing, parking and the reply depend on; `sent`, the
\* requests a gate has sent since its last decision, is history.
NewState(m) ==
    [entry |-> m, redirects |-> 0, parkTurns |-> [n \in Names |-> 0], agentAwait |-> {},
     toolAwait |-> {}, gates |-> [n \in Names |-> 0], card |-> None, resumedAt |-> None,
     egress |-> <<>>, files |-> <<>>, answers |-> [n \in Names |-> None],
     sent |-> [n \in Names |-> 0]]

\* A walk (drive_flow_tracked): `effects` is the code's flag; `did` (something
\* was really done), `routed` (decisions taken on what the person sent) and
\* `jumped` are history.
Frame(fl, n, st) ==
    [flow |-> fl, node |-> n, steps |-> 0, effects |-> FALSE, st |-> st, ret |-> None,
     did |-> FALSE, routed |-> 0, jumped |-> FALSE]

\* execute_once; a flow without a start node, or whose required variables are
\* missing, has start None.
FreshFrame(fl, m) == Frame(fl, graph[fl].start, NewState(m))

Init ==
    /\ graph \in Graphs
    /\ stack = <<>> /\ attempt = 1 /\ inbound = NoMessage /\ resuming = FALSE /\ park = None
    /\ inflight = {} /\ turns = 0
    /\ unguarded = {} /\ verdict = None /\ reply = <<>> /\ lostAnswers = {}

-----------------------------------------------------------------------------
(* The reply.  A value is [ids, arr, ans]: what it shows, whether it is an  *)
(* array, whether submitted answers were merged into it.                    *)

Null == [ids |-> <<>>, arr |-> FALSE, ans |-> FALSE]

\* What the step being taken shows: unique within the conversation.
Shown == <<turns>> \o [i \in DOMAIN stack |-> stack[i].steps]

ClearEgress(st) == [st EXCEPT !.egress = <<>>, !.files = <<>>]

NoteCreated(st, file) ==
    IF file = None \/ Len(st.files) >= MaxCreated \/ Contains(st.files, file) THEN st
    ELSE [st EXCEPT !.files = Append(@, file)]

\* finalize_reply: the emitted payloads, then the last output unless it
\* repeats the last of them.
FinalizeReply(st, v) ==
    IF st.egress = <<>> THEN v
    ELSE LET more == CASE v.arr -> [i \in DOMAIN v.ids |-> [Null EXCEPT !.ids = <<v.ids[i]>>]]
                       [] ~v.arr /\ (v = Null \/ v = Last(st.egress)) -> <<>>
                       [] OTHER -> <<v>>
             all == st.egress \o more
         IN [ids |-> FlattenSeq([i \in DOMAIN all |-> all[i].ids]), arr |-> TRUE, ans |-> FALSE]

FinalizeWith(st, v) == LET r == FinalizeReply(st, v) IN [r EXCEPT !.ids = @ \o st.files]

-----------------------------------------------------------------------------
(* Failures.                                                               *)

Plain == [transient |-> FALSE, terminal |-> FALSE, after |-> FALSE, pre |-> FALSE,
          paused |-> FALSE]
Terminal == [Plain EXCEPT !.terminal = TRUE]
Transient == [Plain EXCEPT !.transient = TRUE]

\* should_retry: a terminal marker wins.
ShouldRetry(e) == e.transient /\ ~e.terminal

\* Mutated: a failure that is terminal already is left unmarked.
TerminalOnce(e, effects) ==
    IF effects /\ ~e.terminal THEN [e EXCEPT !.after = TRUE, !.terminal = TRUE] ELSE e

TerminalAfterEffects(e, effects) ==
    IF effects THEN [e EXCEPT !.after = TRUE, !.terminal = TRUE] ELSE e

Idle == stack' = <<>> /\ attempt' = 1 /\ inbound' = NoMessage /\ resuming' = FALSE

\* The stored run is over: the caller clears its park.
RunEnds == park' = None /\ lostAnswers' = {}

\* After this failure the same work may run again, by the retry loop or by the
\* next message: a history of failures that would repeat an effect.
Repeatable(did, e) ==
    unguarded' = IF ~did THEN unguarded
                 ELSE unguarded \cup {IF e.paused THEN "paused call" ELSE "failure"}

\* execute_with_options: the whole run again, unless the failure is final.
Retry(e, did) ==
    /\ ~resuming /\ ShouldRetry(e) /\ attempt < MaxAttempts
    /\ attempt' = attempt + 1 /\ stack' = <<FreshFrame(Main, inbound)>>
    /\ Repeatable(did, e)
    /\ UNCHANGED <<inbound, resuming, park, lostAnswers>>

\* surfaced_failure_execution: the turn completes with a failure text.
Surface(e) ==
    /\ IF resuming THEN e.after ELSE ~(ShouldRetry(e) /\ attempt < MaxAttempts)
    /\ RunEnds /\ Idle /\ UNCHANGED unguarded

\* resume_with_options returns the error: the park stays.
KeepPark(e, did) ==
    /\ resuming /\ ~e.after
    /\ Repeatable(did, e)
    /\ lostAnswers' = lostAnswers \cup ({inbound.req} \ {0})
    /\ Idle /\ UNCHANGED park

\* The walk f, called from those below, fails with e: drive_flow marks it, and
\* each enclosing flow.call passes it on to a walk that marks it in turn.
Fail(below, f, e) ==
    LET walks == below \o <<f>>
        marked == TerminalAfterEffects(e, \E i \in DOMAIN walks : walks[i].effects)
        did == \E i \in DOMAIN walks : walks[i].did
    IN /\ Retry(marked, did) \/ Surface(marked) \/ KeepPark(marked, did)
       /\ UNCHANGED reply

-----------------------------------------------------------------------------
(* How a walk goes on or ends.                                             *)

Goes(walks) ==
    /\ stack' = walks
    /\ UNCHANGED <<attempt, inbound, resuming, park, unguarded, reply, lostAnswers>>

\* The walk completes: the turn's reply, or the output of the flow.call node.
Complete(below, f, v) ==
    IF below = <<>>
    THEN RunEnds /\ Idle /\ reply' = v.ids /\ UNCHANGED unguarded
    ELSE Goes(Front(below) \o <<[Last(below) EXCEPT !.ret = v, !.did = @ \/ f.did]>>)

\* The walk parks at node n (the entry, which a resume replaces, is dropped);
\* a nested walk cannot: its flow.call fails.
Wait(below, f, n, submit, v) ==
    IF below = <<>>
    THEN /\ park' = [flow |-> f.flow, node |-> n, submit |-> submit,
                     st |-> [ClearEgress(f.st) EXCEPT !.entry = NoMessage]]
         /\ reply' = v.ids
         /\ Idle /\ UNCHANGED <<unguarded, lostAnswers>>
    ELSE Fail(Front(below), [Last(below) EXCEPT !.did = @ \/ f.did],
              [Terminal EXCEPT !.paused = TRUE])

\* Mutated: the action stays for the next card.
KeepRoutingAction(st) == st

ConsumeRoutingAction(st) == [st EXCEPT !.entry.action = None]

\* NodeControl::Continue: decide, spend what this node routed on, go.
Continue(below, f, route, out, v, owned) ==
    LET d == Decide(route, out, f.st, f.node)
        spent == IF owned THEN ConsumeRoutingAction(f.st) ELSE f.st
        st == [spent EXCEPT !.resumedAt = None]
        g == [f EXCEPT !.st = st,
                       !.routed = @ + IF RoutesOnInbound(route, out, f.st, f.node) THEN 1 ELSE 0]
    IN \/ d = End /\ Complete(below, g, FinalizeWith(st, v))
       \/ d = Fallthrough /\ Wait(below, g, f.node, TRUE, FinalizeWith(st, v))
       \/ d \notin {End, Fallthrough} /\ Goes(Append(below, [g EXCEPT !.node = d]))

\* NodeControl::Wait: park at the successor, which must exist.
WaitForSuccessor(below, f, route, out) ==
    LET d == Decide(route, out, f.st, f.node)
    IN IF d \in {End, Fallthrough} THEN Fail(below, f, Plain)
       ELSE Wait(below, f, d, FALSE, FinalizeWith(f.st, Null))

\* apply_jump: neither the action nor resumed_at is spent.
ApplyJump(below, f, to, at) ==
    LET node == IF at = None THEN graph[to].start ELSE at
    IN CASE to \notin DOMAIN graph -> Fail(below, f, Plain)
         [] to \in DOMAIN graph /\ (\/ node \notin DOMAIN graph[to].nodes
                                    \/ f.st.redirects >= MaxRedirects) ->
              Fail(below, f, Terminal)
         [] OTHER -> Goes(Append(below, [f EXCEPT !.flow = to, !.node = node, !.jumped = TRUE,
                                                  !.st.redirects = @ + 1]))

\* NodeControl::Respond
Respond(below, f) ==
    LET st == [f.st EXCEPT !.egress = Append(@, [Null EXCEPT !.ids = <<Append(Shown, 0)>>])]
    IN Complete(below, f, FinalizeWith(st, Null))

-----------------------------------------------------------------------------
(* dispatch_node: what a node may do.  An outcome is the new state, the     *)
(* output (with what it shows), how the walk goes on, whether something was *)
(* really done, and the request that was published.                         *)

Outcome(st, out, ids, how) ==
    [st |-> st, out |-> out, v |-> [Null EXCEPT !.ids = ids], how |-> how, did |-> FALSE,
     file |-> None, request |-> None, verdict |-> None, err |-> Plain]
Ok == [ok |-> TRUE, outcome |-> None, status |-> None]

Error(st, e, did, request) ==
    [Outcome(st, Ok, <<>>, "error") EXCEPT !.err = e, !.did = did, !.request = request]

\* The errors of a node with effects: before them all (pre_effect), or after
\* part of them, whatever was done.
EffectErrors(st, request) ==
    {Error(st, [e EXCEPT !.pre = TRUE], FALSE, None) : e \in {Plain, Transient}}
    \cup {Error(st, e, did, IF did THEN request ELSE None) :
             e \in {Plain, Transient}, did \in BOOLEAN}

\* execute_component_call and component_dispatch_outcome.
Component(st, nd) ==
    {Outcome(st, out, <<Shown>>, how) : out \in nd.outs, how \in {"continue"} \cup nd.ctl}
    \cup {Error(st, e, FALSE, None) : e \in {Plain, Transient, Terminal}}

\* emit.*: an array shows two things.
Emit(st, nd) ==
    LET v == [ids |-> IF nd.arr THEN <<Append(Shown, 1), Append(Shown, 2)>> ELSE <<Shown>>,
              arr |-> nd.arr, ans |-> FALSE]
    IN {[Outcome([st EXCEPT !.egress = Append(@, v)], Ok, <<>>, "continue") EXCEPT !.v = v]}

\* state.get, state.set, var_set.
Builtin(st) ==
    {Outcome(st, Ok, <<>>, "continue")}
    \cup {Error(st, e, FALSE, None) : e \in {Plain, Transient}}

\* provider.invoke, mcp, a2a, media.create, dw.agent_graph, sorla over HTTP: an
\* error value fails the output only when the node has an error route.
Effectful(st, nd) ==
    {[Outcome(st, out, <<>>, "continue") EXCEPT !.did = TRUE,
                                                !.file = IF nd.makes THEN Shown ELSE None] :
        out \in {o \in nd.outs : o.ok \/ HasErrorRoute(nd.route)}}
    \cup EffectErrors(st, None)

\* execute_remote_dispatch: a request published under this turn's id.
Remote(st, kind, await, how) ==
    {[Outcome(st, Ok, <<>>, IF await THEN how ELSE "continue") EXCEPT
         !.did = TRUE, !.request = IF await THEN kind ELSE None]}
    \cup EffectErrors(st, IF await THEN kind ELSE None)

\* MAX_PARK_TURNS: a conversational agent's reply parks its node, until the
\* conversation ends or the cap lets it go on.
AgentReply(st, n, out, ended) ==
    LET count == st.parkTurns[n] + 1
    IN IF ended \/ count >= MaxParkTurns
       THEN Outcome([st EXCEPT !.parkTurns[n] = 0], out, <<Shown>>, "continue")
       ELSE Outcome([st EXCEPT !.parkTurns[n] = count], out, <<Shown>>, "loop")

\* Mutated: the mark is read and left.
KeepAgentAwait(st, n) == st

TakeAgentAwait(st, n) == [st EXCEPT !.agentAwait = @ \ {n}]

\* dw.agent over NATS: the response when one was awaited, else a request.
AgentNats(st, n, nd) ==
    LET answered == st.entry.kind = "response" /\ n \in st.agentAwait
        taken == TakeAgentAwait(st, n)
        failed == st.entry.says \in {"error", "timeout"}
    IN CASE nd.conv /\ answered /\ failed -> {Outcome(taken, Ok, <<Shown>>, "loop")}
         [] nd.conv /\ answered /\ ~failed ->
              {AgentReply(taken, n, Ok, st.entry.says = "ended")}
         [] nd.conv /\ ~answered ->
              Remote([st EXCEPT !.agentAwait = @ \cup {n}], "agent", TRUE, "await")
         [] ~nd.conv -> Remote(st, "agent", TRUE, "wait")

\* dw.agent in process: a reply, or a park on a flow tool that shows a card.
AgentInProcess(st, n, nd) ==
    LET taken == [st EXCEPT !.toolAwait = @ \ {n}]
        tools == IF ~nd.tools THEN {} ELSE
                 {Outcome([taken EXCEPT !.toolAwait = @ \cup {n}], Ok, <<Shown>>, "loop")}
        replies == IF nd.conv THEN {AgentReply(taken, n, Ok, ended) : ended \in BOOLEAN}
                   ELSE {Outcome(taken, Ok, <<Shown>>, "continue")}
    IN {[o EXCEPT !.did = TRUE] : o \in tools \cup replies} \cup EffectErrors(taken, None)

\* Mutated: any response decides the gate.
AnyAuthenticates(m, gate) == TRUE

\* response_authenticates: the token the gate's own request was issued.
ResponseAuthenticates(m, gate) == m.req = gate

MarkApproval(st, n, gate) == [st EXCEPT !.gates[n] = gate]

\* approval_outcome_from_entry
ApprovalOutcome(says) == IF says \in {"approved", "timeout"} THEN says ELSE "denied"

\* execute_approval_call: a parked gate is decided by its own response and
\* stays parked on anything else; a new one approves itself or asks.
Approval(st, n, nd) ==
    LET gate == st.gates[n]
        taken == [st EXCEPT !.gates[n] = 0]
        decides == st.entry.kind = "response" /\ ResponseAuthenticates(st.entry, gate)
        asks == {IF o.how = "await"
                 THEN [o EXCEPT !.st = [MarkApproval(st, n, turns) EXCEPT !.sent[n] = @ + 1]]
                 ELSE o : o \in Remote(st, "approval", nd.await, "await")}
    IN CASE gate # 0 /\ decides ->
              {[Outcome([taken EXCEPT !.sent[n] = 0],
                        [Ok EXCEPT !.outcome = ApprovalOutcome(st.entry.says)], <<>>, "continue")
                   EXCEPT !.verdict = [gate |-> gate, answer |-> st.entry.req]]}
         [] gate # 0 /\ ~decides -> {Outcome(MarkApproval(taken, n, gate), Ok, <<>>, "await")}
         [] gate = 0 /\ nd.auto ->
              {Outcome(st, [Ok EXCEPT !.outcome = "approved"], <<>>, "continue")}
         [] gate = 0 /\ ~nd.auto -> asks

Dispatch(st, n, nd) ==
    CASE nd.kind = "component" -> Component(st, nd)
      [] nd.kind = "emit"      -> Emit(st, nd)
      [] nd.kind = "builtin"   -> Builtin(st)
      [] nd.kind \in {"provider", "tool"} -> Effectful(st, nd)
      [] nd.kind = "remote"    -> Remote(st, "runtime", nd.await, "wait")
      [] nd.kind = "approval"  -> Approval(st, n, nd)
      [] nd.kind = "agent"     -> AgentInProcess(st, n, nd)
      [] nd.kind = "agentNats" -> AgentNats(st, n, nd)
      [] nd.kind = "wait"      -> {Outcome(st, Ok, <<>>, "wait")}
      [] nd.kind = "goto"      -> {Outcome(st, Ok, <<>>, "jump")}

-----------------------------------------------------------------------------
(* One node of the walk (the loop of drive_flow_tracked).                  *)

\* attach_pending_card_answers and record_node_output.
Record(st, n, file) ==
    NoteCreated([st EXCEPT !.card = IF @ = n THEN None ELSE @,
                           !.answers[n] = IF st.card = n THEN st.entry.to ELSE None], file)

\* A node dispatched with success: its effects count before anything else can
\* fail, its output is recorded, vars_out rendered, and the control obeyed.
Settle(below, f, nd, o) ==
    LET owned == o.st.card = f.node
        v == [o.v EXCEPT !.ans = owned /\ ~o.v.arr]
        g == [f EXCEPT !.st = Record(o.st, f.node, o.file), !.ret = None,
                       !.effects = @ \/ PerformsExternalEffect(nd.kind), !.did = @ \/ o.did]
    IN \/ nd.vars /\ Fail(below, g, Plain)
       \/ o.how = "continue" /\ Continue(below, g, nd.route, o.out, v, owned)
       \/ o.how = "wait"     /\ WaitForSuccessor(below, g, nd.route, o.out)
       \/ o.how = "loop"     /\ Wait(below, g, f.node, FALSE, FinalizeWith(g.st, v))
       \/ o.how = "await"    /\ Wait(below, g, f.node, FALSE, FinalizeWith(g.st, Null))
       \/ o.how = "jump"     /\ ApplyJump(below, g, nd.to, nd.at)
       \/ o.how = "respond"  /\ Respond(below, g)

\* execute_flow_call: the nested run is the next frame.
Call(below, f, nd) ==
    CASE nd.to \notin DOMAIN graph -> Fail(below, f, Plain)
      [] nd.to \in DOMAIN graph /\ Len(below) >= MaxDepth -> Fail(below, f, Terminal)
      [] OTHER -> Goes(below \o <<f, FreshFrame(nd.to, NoMessage)>>)

CheckStepBudget(steps) == steps <= MaxSteps

\* Mutated: a nested walk's steps are not counted.
CountOuter(f) == IF Len(stack) > 1 THEN f ELSE [f EXCEPT !.steps = @ + 1]

CountStep(f) == [f EXCEPT !.steps = @ + 1]

Quietly == UNCHANGED <<graph, turns, inflight, verdict>>

\* The walk cannot run its node: no start, budget spent, no such node, or its
\* input template does not render.
CannotRun ==
    /\ stack # <<>> /\ Last(stack).ret = None
    /\ LET f == CountStep(Last(stack))
       IN \/ f.node = None /\ Fail(Front(stack), f, Terminal)
          \/ f.node # None /\ ~CheckStepBudget(f.steps) /\ Fail(Front(stack), f, Terminal)
          \/ f.node # None /\ CheckStepBudget(f.steps) /\ Fail(Front(stack), f, Plain)
    /\ Quietly

Runs(f) ==
    /\ CheckStepBudget(f.steps)
    /\ f.node # None /\ f.node \in DOMAIN graph[f.flow].nodes

RunCall ==
    /\ stack # <<>> /\ Last(stack).ret = None
    /\ LET f == CountStep(Last(stack))
           nd == graph[f.flow].nodes[f.node]
       IN Runs(f) /\ nd.kind = "call" /\ Call(Front(stack), f, nd)
    /\ Quietly

\* The nested run completed: its output is the node's.
CallReturns ==
    /\ stack # <<>> /\ Last(stack).ret # None
    /\ LET f == Last(stack)
       IN Settle(Front(stack), f, graph[f.flow].nodes[f.node],
                 [Outcome(f.st, Ok, <<>>, "continue") EXCEPT !.v = f.ret])
    /\ Quietly

RunNode ==
    /\ stack # <<>> /\ Last(stack).ret = None
    /\ LET f == CountStep(Last(stack))
           below == Front(stack)
           nd == graph[f.flow].nodes[f.node]
       IN /\ Runs(f) /\ nd.kind # "call"
          /\ \E o \in Dispatch(f.st, f.node, nd) :
               /\ IF o.how = "error"
                  THEN LET part == MayHavePartialEffect(nd.kind) /\ ~o.err.pre
                       IN Fail(below, [f EXCEPT !.effects = @ \/ part, !.did = @ \/ o.did], o.err)
                  ELSE Settle(below, f, nd, o)
               /\ inflight' = inflight \cup (IF o.request = None THEN {}
                                             ELSE {[id |-> turns, kind |-> o.request]})
               /\ verdict' = IF o.verdict = None THEN verdict ELSE o.verdict
    /\ UNCHANGED <<graph, turns>>

Step == CannotRun \/ RunCall \/ CallReturns \/ RunNode

-----------------------------------------------------------------------------
(* Turns.                                                                  *)

\* Mutated: the parked node is taken for a card whatever it waits for.
PendingAlways(p) == p.node

\* pending_from_snapshot, resumed_card_node
PendingFromSnapshot(p) == IF p.submit THEN p.node ELSE None

\* resume_with_options
Resumed(m) ==
    Frame(park.flow, park.node,
          [park.st EXCEPT !.entry = m, !.redirects = 0, !.card = PendingFromSnapshot(park),
                          !.resumedAt = IF park.submit THEN park.node ELSE None])

Begin(m) ==
    /\ stack' = <<IF park = None THEN FreshFrame(Main, m) ELSE Resumed(m)>>
    /\ attempt' = 1 /\ inbound' = m /\ resuming' = (park # None)
    /\ turns' = turns + 1
    /\ unguarded' = {} /\ verdict' = None /\ reply' = <<>>
    /\ UNCHANGED <<graph, park, lostAnswers>>

\* A person types, or submits a card.
Receive ==
    /\ stack = <<>> /\ turns < MaxTurns
    /\ \/ Begin(Message("typed", None, 0, "nothing", ParkedCard))
       \/ \E a \in Actions : Begin(Message("submit", a, 0, "nothing", ParkedCard))
    /\ UNCHANGED inflight

\* What a runtime, or the watchdog, may answer.
SaysOf(kind) ==
    CASE kind = "approval" -> {"approved", "denied", "timeout"}
      [] kind = "agent"    -> {"reply", "ended", "error"}
      [] kind = "runtime"  -> {"reply"}

\* admit_response_with: an approval's response belongs to the gate that
\* recorded its id; any other meets whichever gate is parked.
Admitted(r, m) ==
    LET parked == IF park = None THEN {} ELSE {park.st.gates[n] : n \in Names} \ {0}
        gates == IF r.kind = "approval" THEN parked \cap {r.id} ELSE parked
    IN IF gates = {} THEN park = None \/ r.kind # "approval"
       ELSE \E g \in gates : ResponseAuthenticates(m, g)

\* The response to a request: a turn of the conversation, or dropped.  One
\* that finds a card parked is taken for the card's submit.
Deliver ==
    /\ stack = <<>> /\ turns < MaxTurns
    /\ \E r \in inflight : \E says \in SaysOf(r.kind) :
         LET m == Message("response", None, r.id, says, ParkedCard)
         IN /\ inflight' = inflight \ {r}
            /\ \/ Admitted(r, m) /\ Begin(m)
               \/ /\ ~Admitted(r, m)
                  /\ UNCHANGED <<graph, stack, attempt, inbound, resuming, park, turns, unguarded,
                                 verdict, reply, lostAnswers>>

\* The conversation may stop here.
Quiet == stack = <<>> /\ turns = MaxTurns /\ UNCHANGED vars

Next == Step \/ Receive \/ Deliver \/ Quiet
Spec == Init /\ [][Next]_vars /\ WF_vars(Step)

-----------------------------------------------------------------------------
(* Properties.                                                             *)

\* drive_flow and resume_with_options: once a turn has done something outside,
\* no failure of it leads to the same work being done again, by the retry loop
\* or by a park that is kept; the exception is a flow.call whose flow paused
\* (EffectsNeverRepeated).
EffectsGuarded == unguarded \subseteq {"paused call"}

\* execute_flow_call and resume_with_options, without that exception: "The
\* nested flow's effects already ran: never re-run the turn."
EffectsNeverRepeated == unguarded = {}

\* consume_routing_action and resumed_at: one submit, or one message typed at a
\* card, decides one route; the next card is shown and waits.  (A jump spends
\* neither.)
OneRoutePerSubmit ==
    stack # <<>> /\ resuming /\ inbound.to # NoCard /\ ~stack[1].jumped => stack[1].routed <= 1

\* What belongs to one turn stays in it: the answers recorded for a node were
\* sent while that node's card was waiting (pending_from_snapshot,
\* attach_pending_card_answers), and a reply shows nothing that an earlier turn
\* emitted or created and its park brought back (clear_egress).
TurnsStayApart ==
    /\ \A i \in DOMAIN stack : \A n \in Names : stack[i].st.answers[n] \in {None, n}
    /\ park # None => \A n \in Names : park.st.answers[n] \in {None, n}
    /\ \A i \in DOMAIN reply : reply[i][1] = turns

\* Whatever arrives while an approval gate is parked, it asks the operator once
\* (execute_approval_call) and is decided by the response to its own request
\* only, never by one meant for an earlier gate or another runtime's late
\* answer (admit_response_with, response_authenticates).
GateDecidedByOwnAnswer ==
    /\ verdict # None => verdict.gate = verdict.answer
    /\ park # None => \A n \in Names : park.st.sent[n] <= 1

\* Between turns, a node marked as awaiting a response is the parked node, and its request is
\* still open or its response was lost to a resume that failed; one marked as awaiting the
\* user's answer to a flow tool is the parked node too: a mark never outlives what would
\* clear it (take_agent_await, take_tool_await, the gate's own mark).
AwaitHasRequest ==
    stack = <<>> /\ park # None =>
      /\ \A n \in Names : park.st.gates[n] # 0 =>
           /\ park.node = n
           /\ [id |-> park.st.gates[n], kind |-> "approval"] \in inflight
              \/ park.st.gates[n] \in lostAnswers
      /\ \A n \in park.st.agentAwait :
           park.node = n /\ ((\E r \in inflight : r.kind = "agent") \/ lostAnswers # {})
      /\ \A n \in park.st.toolAwait : park.node = n

\* check_step_budget, redirect_limit, MAX_FLOW_CALL_DEPTH and the attempts:
\* every turn ends, whatever cycles the pack's flows have.
TurnEnds == stack # <<>> ~> stack = <<>>
=============================================================================
