------------------------------ MODULE MCRunLock ------------------------------
(* Values for the constants of RunLock. *)
EXTENDS RunLock, TLC

CONSTANTS a1, a2, a3

ThreeAgents == {a1, a2, a3}
AnyOrder == Permutations(ThreeAgents)
==============================================================================
