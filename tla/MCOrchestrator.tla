--------------------------- MODULE MCOrchestrator ---------------------------
(* Instances of Orchestrator for TLC: small plans and budgets of disturbances. *)
EXTENDS Orchestrator, TLC

CONSTANTS a, b, c

\* A join (c waits for a and b) and a chain (b waits for a).
JoinDeps  == (a :> {}) @@ (b :> {}) @@ (c :> {a, b})
ChainDeps == (a :> {}) @@ (b :> {a})

\* Each disturbance at most as often as f says.
UpTo(f) ==
  {g \in [Disturbance -> 0 .. 2] :
     \A k \in Disturbance : g[k] <= IF k \in DOMAIN f THEN f[k] ELSE 0}

NoFault         == UpTo(<<>>)
WorkerFaults    == UpTo([workerCrash |-> 1, steal |-> 1, lostResult |-> 1])
RequestsOrCrash == UpTo([request |-> 2]) \cup UpTo([apiCrash |-> 1])
OneServiceCrash == UpTo([serviceCrash |-> 1])
OneApiError     == UpTo([apiError |-> 1])
OneSteal        == UpTo([steal |-> 1])
=============================================================================
