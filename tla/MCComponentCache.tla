-------------------------- MODULE MCComponentCache --------------------------
(* Two callers and two components of two bytes (three when loaded) in a     *)
(* four-byte memory cache, hot after one hit.                              *)
EXTENDS ComponentCache, TLC
TwoBytes == [k \in Keys |-> 2]
ThreeBytes == [k \in Keys |-> 3]
TierSets == {{"memory"}, {"disk"}, {"memory", "disk"}}
TaskKeySlotSymmetry == Permutations(Tasks) \cup Permutations(Keys) \cup Permutations(Slots)
=============================================================================
