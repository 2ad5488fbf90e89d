----------------------------- MODULE MCTurnLock -----------------------------
(* The turn lock on small instances.                                       *)
EXTENDS TurnLock

=============================================================================
