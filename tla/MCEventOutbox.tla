---------------------------- MODULE MCEventOutbox ----------------------------
(* An instance of EventOutbox for TLC. *)
EXTENDS EventOutbox

SmallBudget == [db |-> 2, redis |-> 1, death |-> 1]
=============================================================================
