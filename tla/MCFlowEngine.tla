---------------------------- MODULE MCFlowEngine ----------------------------
(* Small packs for FlowEngine, each with the nodes whose interplay matters.  *)
EXTENDS FlowEngine

Ends == [type |-> "end"]
To(n) == [type |-> "next", to |-> n]
Custom(routes) == [type |-> "custom", routes |-> routes]
On(what, val, n) == [on |-> what, val |-> val, to |-> n]

Node(kind, route) ==
    [kind |-> kind, route |-> route, outs |-> {Ok}, ctl |-> {}, to |-> None, at |-> None,
     await |-> TRUE, conv |-> FALSE, auto |-> FALSE, tools |-> FALSE, makes |-> FALSE,
     vars |-> FALSE, arr |-> FALSE]

Flow(start, nodes) == [start |-> start, nodes |-> nodes]
Failed == [Ok EXCEPT !.ok = FALSE]

\* Two cards in a row; the first may jump to a help flow that has a card of
\* the same name; text is answered by an emit.
Cards ==
    [main |-> Flow("a",
       [a |-> [Node("component", Custom(<<On("action", "go", "b"), On("message", "", "e")>>))
                  EXCEPT !.ctl = {"jump", "respond"}, !.to = "help"],
        b |-> Node("component", Custom(<<On("action", "go", "e"), On("message", "", "a")>>)),
        e |-> Node("emit", Custom(<<On("action", "go", "b")>>))]),
     help |-> Flow("b",
       [b |-> Node("builtin", Custom(<<On("message", "", "d"), On("action", "go", "d")>>)),
        d |-> Node("wait", Ends)])]

\* A wait, then calls of flows that write, pause or nest without end.
Calls ==
    [main |-> Flow("w",
       [w |-> Node("wait", To("c")),
        c |-> [Node("call", To("p")) EXCEPT !.to = "sub", !.vars = TRUE],
        p |-> [Node("provider", To("w")) EXCEPT !.makes = TRUE]]),
     sub |-> Flow("t",
       [t |-> [Node("tool", Custom(<<On("event", "on_error", "r"), On("event", "on_success", "w")>>))
                  EXCEPT !.outs = {Ok, Failed}, !.makes = TRUE],
        r |-> [Node("call", Ends) EXCEPT !.to = "sub"],
        w |-> Node("emit", To("x")),
        x |-> Node("remote", To("nowhere"))])]

\* A gate after agents whose late replies must not decide it, asked again
\* after a denial.
Gates ==
    [main |-> Flow("n",
       [n |-> [Node("agentNats", To("g")) EXCEPT !.conv = TRUE],
        g |-> Node("approval", Custom(<<On("event", "approved", "f"), On("event", "denied", "g"),
                                        On("always", "", "n")>>)),
        f |-> [Node("remote", To("n")) EXCEPT !.await = FALSE]])]

\* An agent in process with a flow tool, a wait behind it, branches, a goto
\* cycle and a routing cycle.
Loops ==
    [main |-> Flow("i",
       [i |-> [Node("agent", [type |-> "branch", onStatus |-> [x \in {} |-> x], default |-> "e"])
                  EXCEPT !.conv = TRUE, !.tools = TRUE],
        e |-> Node("emit", To("w")),
        w |-> Node("wait", To("v")),
        v |-> [Node("call", To("j")) EXCEPT !.to = "spin"],
        j |-> [Node("goto", Ends) EXCEPT !.to = "spin"]]),
     spin |-> Flow("s",
       [s |-> [Node("component", [type |-> "branch", onStatus |-> [go |-> "k", spin |-> "q"],
                                     default |-> None])
                  EXCEPT !.outs = {[Ok EXCEPT !.status = st] : st \in {None, "go", "spin"}}],
        k |-> [Node("goto", Ends) EXCEPT !.to = "spin", !.at = "s"],
        q |-> Node("builtin", To("z")),
        z |-> Node("builtin", To("q"))])]

\* What a pack should not contain, and the dispatches that do not wait.
Odd ==
    [main |-> Flow("u",
       [u |-> [Node("approval", To("h")) EXCEPT !.auto = TRUE],
        h |-> [Node("approval", To("l")) EXCEPT !.await = FALSE],
        l |-> [Node("component", Custom(<<On("event", "skip", "o"), On("always", "", "m")>>))
                  EXCEPT !.outs = {Ok, [Ok EXCEPT !.outcome = "skip"]}, !.ctl = {"jump"},
                         !.to = "lost"],
        m |-> [Node("agentNats", To("c")) EXCEPT !.vars = TRUE],
        c |-> [Node("call", To("o")) EXCEPT !.to = "unset"],
        o |-> [Node("emit", Ends) EXCEPT !.arr = TRUE]]),
     unset |-> Flow(None, [y |-> Node("builtin", Ends)])]

Packs == {Cards, Calls, Gates, Loops, Odd}
=============================================================================
