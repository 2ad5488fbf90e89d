---------------------------- MODULE FlowRouting ----------------------------
(***************************************************************************)
(* What a node of a flow is and where its routing leads:                   *)
(* greentic-runner-host src/runner/engine.rs (NodeKind, Routing,           *)
(* evaluate_custom_routing, build_routing_context, branch_target).         *)
(* A node is a record: its kind, its routing, and what its kind allows (a  *)
(* target flow, outcomes, whether it awaits, ...).  A custom route tests   *)
(* the submitted action, the node's event, "on_message", or nothing.       *)
(***************************************************************************)
EXTENDS Naturals, Sequences, FiniteSetsExt

CONSTANTS None

End == "(end)"
Fallthrough == "(wait)"

SuccessPorts == <<"on_success", "on_complete", "on_submit">>
ErrorPorts == <<"on_error", "on_cancel", "on_timeout">>

\* NodeKind::performs_external_effect; "tool" stands for the mcp, a2a, media,
\* agent graph and sorla-over-HTTP nodes, "remote" for the calls over NATS.
PerformsExternalEffect(kind) ==
    kind \in {"provider", "call", "tool", "remote", "approval", "agent", "agentNats"}

MayHavePartialEffect(kind) == kind # "call" /\ PerformsExternalEffect(kind)

Events(routes) == {routes[i].val : i \in {j \in DOMAIN routes : routes[j].on = "event"}}

\* node_has_error_route
HasErrorRoute(route) ==
    /\ route.type = "custom"
    /\ \E p \in DOMAIN ErrorPorts : ErrorPorts[p] \in Events(route.routes)

\* default_event: the first port, by priority, that the node has an edge for.
DefaultEvent(routes, ports) ==
    LET used == {p \in DOMAIN ports : ports[p] \in Events(routes)}
    IN ports[IF used = {} THEN 1 ELSE Min(used)]

\* The `event` of build_routing_context.
EventOf(out, routes) ==
    CASE out.outcome # None -> out.outcome
      [] out.outcome = None /\ out.ok -> DefaultEvent(routes, SuccessPorts)
      [] OTHER -> DefaultEvent(routes, ErrorPorts)

Matches(route, routes, out, st, n) ==
    CASE route.on = "message" -> st.resumedAt = n /\ st.entry.action = None
      [] route.on = "action"  -> st.entry.action = route.val
      [] route.on = "event"   -> EventOf(out, routes) = route.val
      [] route.on = "always"  -> TRUE

\* The routes that match and lead somewhere; the first one is taken.
Matching(routes, out, st, n) ==
    {i \in DOMAIN routes : routes[i].to # None /\ Matches(routes[i], routes, out, st, n)}

\* evaluate_custom_routing: with none taken, an array that holds a condition
\* pauses the run and one that holds none ends it.
EvaluateCustomRouting(routes, out, st, n) ==
    LET hits == Matching(routes, out, st, n)
    IN CASE hits # {} -> routes[Min(hits)].to
         [] hits = {} /\ (\E i \in DOMAIN routes : routes[i].on # "always") -> Fallthrough
         [] OTHER -> End

\* branch_target
BranchTarget(route, out) ==
    CASE out.status \in DOMAIN route.onStatus -> route.onStatus[out.status]
      [] out.status \notin DOMAIN route.onStatus /\ route.default # None -> route.default
      [] OTHER -> End

\* The decision taken on a node's output (NextDecision).
Decide(route, out, st, n) ==
    CASE route.type = "next"   -> route.to
      [] route.type = "end"    -> End
      [] route.type = "branch" -> BranchTarget(route, out)
      [] route.type = "custom" -> EvaluateCustomRouting(route.routes, out, st, n)

\* Whether that decision rests on what the person sent (a card's button, or a
\* message instead of one).
RoutesOnInbound(route, out, st, n) ==
    /\ route.type = "custom"
    /\ LET hits == Matching(route.routes, out, st, n)
       IN hits # {} /\ route.routes[Min(hits)].on \in {"action", "message"}
=============================================================================
