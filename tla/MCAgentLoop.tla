----------------------------- MODULE MCAgentLoop -----------------------------
(* A small instance of AgentLoop.                                            *)
EXTENDS AgentLoop

SomeBatches == {<<"form", "a">>, <<"bad", "form">>}
Mode(policy, reuse, turns, mishaps) ==
    [policy |-> policy, reuse |-> reuse, turns |-> turns, mishaps |-> mishaps]
SomeModes == {Mode("side", FALSE, 3, 0), Mode("side", TRUE, 3, 0), Mode("side", FALSE, 2, 1),
              Mode("cancel", TRUE, 2, 1)}
=============================================================================
