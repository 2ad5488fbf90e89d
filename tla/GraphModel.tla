----------------------------- MODULE GraphModel -----------------------------
(***************************************************************************)
(* Agent graphs: greentic-aw-runtime src/graph/{model, router}.rs.  A graph *)
(* is its schema version, its entry, the kind of each node, the routes a    *)
(* supervisor declares, a router's iteration bound and the edges in         *)
(* declaration order.                                                      *)
(***************************************************************************)
EXTENDS Naturals, Sequences, FiniteSets, SequencesExt

CONSTANT None

Edge(from, branch, to) == [from |-> from, branch |-> branch, to |-> to]

EdgesFrom(g, n) == SelectSeq(g.edges, LAMBDA e : e.from = n)
Out(g, n) == ToSet(EdgesFrom(g, n))
Incoming(g, n) == {e \in ToSet(g.edges) : e.to = n}
Kind(g, n) == g.nodes[n].kind

\* The first outgoing edge with this label, or None.
EdgeOn(g, n, branch) ==
    LET hits == SelectSeq(EdgesFrom(g, n), LAMBDA e : e.branch = branch)
    IN  IF hits = <<>> THEN None ELSE Head(hits).to

\* The first outgoing edge, or None.
NextLinear(g, n) == IF EdgesFrom(g, n) = <<>> THEN None ELSE Head(EdgesFrom(g, n)).to

RouteBranch(g, n, st) ==
    IF st.resolved \/ st.iterations >= g.nodes[n].max THEN "resolved" ELSE "loop"
Route(g, n, st) == EdgeOn(g, n, RouteBranch(g, n, st))

\* The nodes a walk from `start` meets when it goes no further than joins.
Walk(g, start) ==
    LET beyond(S) == {e.to : e \in UNION {Out(g, n) : n \in {m \in S : Kind(g, m) # "join"}}}
        reach[i \in 0..Cardinality(DOMAIN g.nodes)] ==
            IF i = 0 THEN {start} ELSE reach[i - 1] \cup beyond(reach[i - 1])
    IN  reach[Cardinality(DOMAIN g.nodes)]

WalkOfKind(g, start, kind) == {n \in Walk(g, start) : Kind(g, n) = kind}

FindJoinForParallel(g, p) ==
    LET joins == UNION {WalkOfKind(g, e.to, "join") : e \in Out(g, p)}
    IN  IF joins = {} THEN None ELSE CHOOSE j \in joins : TRUE

HasParallelAncestor(g, n) ==
    LET before(S) == S \cup {e.from : e \in UNION {Incoming(g, m) : m \in S}}
        reach[i \in 0..Cardinality(DOMAIN g.nodes)] ==
            IF i = 0 THEN {e.from : e \in Incoming(g, n)} ELSE before(reach[i - 1])
    IN  \E m \in reach[Cardinality(DOMAIN g.nodes)] : Kind(g, m) = "parallel"

ValidateSupervisor(g, n) ==
    /\ Cardinality(g.nodes[n].routes) >= 2
    /\ \A r \in g.nodes[n].routes :
          Len(SelectSeq(EdgesFrom(g, n), LAMBDA e : e.branch = r)) = 1
    /\ \A e \in Out(g, n) : e.branch \in g.nodes[n].routes

\* Mutant: what lies inside a branch is not looked at.
ValidateParallelEndsOnly(g, n) ==
    LET out == EdgesFrom(g, n)
    IN  /\ Len(out) >= 2
        /\ \E join \in DOMAIN g.nodes :
              \A i \in DOMAIN out : WalkOfKind(g, out[i].to, "join") = {join}

ValidateParallel(g, n) ==
    LET out == EdgesFrom(g, n)
        path(i) == Walk(g, out[i].to)
    IN  /\ Len(out) >= 2
        /\ \A i \in DOMAIN out : out[i].branch # None
        /\ \A i, j \in DOMAIN out : i # j => out[i].branch # out[j].branch
        /\ \A i \in DOMAIN out : \A m \in path(i) : Kind(g, m) \notin {"parallel", "respond"}
        /\ \E join \in DOMAIN g.nodes :
              \A i \in DOMAIN out : WalkOfKind(g, out[i].to, "join") = {join}
        /\ \A i, j \in DOMAIN out :
              i # j => \A m \in path(i) \cap path(j) : Kind(g, m) = "join"

ValidateJoin(g, n) ==
    /\ Len(SelectSeq(g.edges, LAMBDA e : e.to = n)) >= 2
    /\ Len(EdgesFrom(g, n)) = 1
    /\ \A e \in Incoming(g, n) : HasParallelAncestor(g, e.from)

ValidateNode(g, n) ==
    LET kind == Kind(g, n) IN
    /\ kind \in {"supervisor", "parallel", "join", "approval"} => g.schema >= 2
    /\ kind \in {"agent", "tool"} => Len(EdgesFrom(g, n)) = 1
    /\ kind = "router" => \A b \in {"loop", "resolved"} : EdgeOn(g, n, b) # None
    /\ kind = "respond" => EdgesFrom(g, n) = <<>>
    /\ kind = "supervisor" => ValidateSupervisor(g, n)
    /\ kind = "parallel" => ValidateParallel(g, n)
    /\ kind = "join" => ValidateJoin(g, n)
    /\ kind = "approval" => EdgesFrom(g, n) # <<>>

Validate(g) ==
    /\ g.entry \in DOMAIN g.nodes
    /\ \A e \in ToSet(g.edges) : e.from \in DOMAIN g.nodes /\ e.to \in DOMAIN g.nodes
    /\ \A n \in DOMAIN g.nodes : ValidateNode(g, n)

FromJson(g) == g.schema \in 1..2 /\ Validate(g)
=============================================================================
