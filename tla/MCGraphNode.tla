----------------------------- MODULE MCGraphNode -----------------------------
(* Small graphs for GraphNode: the validated ones are run.                   *)
EXTENDS GraphNode

Agent == [kind |-> "agent"]
Tool == [kind |-> "tool"]
Respond == [kind |-> "respond"]
Join == [kind |-> "join"]
Parallel == [kind |-> "parallel"]
Approval == [kind |-> "approval"]
Router(max) == [kind |-> "router", max |-> max]
Supervisor(routes) == [kind |-> "supervisor", routes |-> routes]

Graph(entry, nodes, edges) == [schema |-> 2, entry |-> entry, nodes |-> nodes, edges |-> edges]

\* A loop through a parallel region: its nodes are visited again.
LoopedRegion ==
    Graph("p", [p |-> Parallel, a |-> Agent, b |-> Tool, j |-> Join, r |-> Router(2),
                e |-> Respond],
          <<Edge("p", "right", "b"), Edge("p", "left", "a"), Edge("a", None, "j"), Edge("b", None, "j"),
            Edge("j", None, "r"), Edge("r", "loop", "p"), Edge("r", "resolved", "e")>>)

\* A loop inside a branch, which may breach the cap.
LoopedBranch ==
    Graph("p", [p |-> Parallel, a |-> Agent, r |-> Router(3), b |-> Tool, j |-> Join,
                e |-> Respond],
          <<Edge("p", "left", "a"), Edge("p", "right", "b"), Edge("a", None, "r"), Edge("r", "loop", "a"),
            Edge("r", "resolved", "j"), Edge("b", None, "j"), Edge("j", None, "e")>>)

\* A supervisor, an approval gate that is asked again, and a trunk cap.
Gated ==
    Graph("s", [s |-> Supervisor({"x", "y"}), g |-> Approval, t |-> Tool, e |-> Respond],
          <<Edge("s", "x", "g"), Edge("s", "y", "e"), Edge("g", "approved", "t"),
            Edge("t", None, "s")>>)

\* The trunk comes back to the join; an approval inside a branch.
OddRegion ==
    Graph("p", [p |-> Parallel, a |-> Agent, b |-> Supervisor({"x", "y"}), g |-> Approval,
                j |-> Join, r |-> Router(2), e |-> Respond],
          <<Edge("p", "left", "a"), Edge("p", "right", "b"), Edge("a", None, "j"), Edge("b", "x", "j"),
            Edge("b", "y", "g"), Edge("g", "approved", "j"), Edge("j", None, "r"),
            Edge("r", "loop", "j"), Edge("r", "resolved", "e")>>)

\* Rejected: a respond node inside a branch.
RespondInBranch ==
    Graph("p", [p |-> Parallel, a |-> Agent, b |-> Supervisor({"x", "y"}), j |-> Join,
                e |-> Respond],
          <<Edge("p", "left", "a"), Edge("p", "right", "b"), Edge("a", None, "j"), Edge("b", "x", "j"),
            Edge("b", "y", "e"), Edge("j", None, "e")>>)

\* A region both calls may drive side by side.
Region ==
    Graph("p", [p |-> Parallel, a |-> Agent, b |-> Tool, j |-> Join, e |-> Respond],
          <<Edge("p", "left", "a"), Edge("p", "right", "b"), Edge("a", None, "j"),
            Edge("b", None, "j"), Edge("j", None, "e")>>)

LeftRight == <<"left", "right">>
AllGraphs == {LoopedRegion, LoopedBranch, Gated, OddRegion, RespondInBranch, Region}

Slow == {Gated, Region}
=============================================================================
