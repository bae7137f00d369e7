---------------------------- MODULE MCChatSession ----------------------------
(* Values for the constants of ChatSession. *)
EXTENDS ChatSession, TLC

CONSTANTS t1, t2, t3, r1, r2, f1, f2

Turns == {t1, t2, t3}
Replicas == {r1, r2}
Fields == {f1, f2}
\* Two turns at once with restarts or with the delivery of a workflow's end; one at a time with a
\* restart during a delivery, or with two deliveries.
SomeBounds ==
  {[atOnce |-> 2, deliveries |-> 0, restarts |-> TRUE],
   [atOnce |-> 2, deliveries |-> 1, restarts |-> FALSE],
   [atOnce |-> 1, deliveries |-> 1, restarts |-> TRUE],
   [atOnce |-> 1, deliveries |-> 2, restarts |-> FALSE]}
Alike == Permutations(Turns) \cup Permutations(Replicas) \cup Permutations(Fields)
==============================================================================
