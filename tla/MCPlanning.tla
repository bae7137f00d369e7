------------------------------ MODULE MCPlanning ------------------------------
(* Values for the constants of Planning. *)
EXTENDS Planning

CONSTANTS a, b

TwoTasks == {a, b}
Independent == [n \in TwoTasks |-> {}]
WholeOrRest == {{a, b}}

UpTo(f) == {g \in [Disturbance -> 0..1] : \A k \in Disturbance : g[k] = 1 => k \in f}

TwoRequests == [k \in Disturbance |-> IF k = "request" THEN 2 ELSE 0]

SomeFaults == UpTo({"replan"}) \cup UpTo({"submit"}) \cup UpTo({"plannerCrash", "apiCrash"})
                \cup UpTo({"lost"}) \cup UpTo({"request"}) \cup {TwoRequests}
===============================================================================
