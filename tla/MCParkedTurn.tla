---------------------------- MODULE MCParkedTurn ----------------------------
(* ParkedTurn for TLC.  A turn is only a name (of its run and its wait).   *)
EXTENDS ParkedTurn, TLC

TurnSymmetry == Permutations(Turns)
=============================================================================
