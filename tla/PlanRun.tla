------------------------------- MODULE PlanRun -------------------------------
(***************************************************************************)
(* What a user is promised of a job: its tasks are executed in the order   *)
(* of their dependencies, each by one execution at a time and never again  *)
(* once it is done; the job succeeds when all are done, fails only when    *)
(* one has failed, and its outcome comes and is final.  No streams, no     *)
(* handlers, no attempts: module Orchestrator implements it.               *)
(***************************************************************************)
CONSTANTS Task, Deps

VARIABLES
  state,      \* where each task is
  outcome     \* of the job

vars == <<state, outcome>>

Init == state = [t \in Task |-> "waiting"] /\ outcome = "open"

Move(t, from, to) == state[t] = from /\ state' = [state EXCEPT ![t] = to]

Start(t) ==
  /\ \A d \in Deps[t] : state[d] = "done"
  /\ Move(t, "waiting", "executing")
  /\ UNCHANGED outcome

\* The execution will be repeated.
Retry(t) == Move(t, "executing", "waiting") /\ UNCHANGED outcome

\* The execution has ended with a result nobody has recorded yet.
Report(t) == Move(t, "executing", "reported") /\ UNCHANGED outcome

Record(t) == Move(t, "reported", "done") /\ UNCHANGED outcome

Fail == IF outcome = "open" THEN "failed" ELSE outcome

\* The task is given up, and the job with it.
GiveUp(t) == Move(t, "reported", "failed") /\ outcome' = Fail

Succeed ==
  /\ outcome = "open"
  /\ \A t \in Task : state[t] = "done"
  /\ outcome' = "succeeded"
  /\ UNCHANGED state

Finish(t) == Record(t) \/ GiveUp(t)

Next == Succeed \/ \E t \in Task : Start(t) \/ Retry(t) \/ Report(t) \/ Finish(t)

Spec == Init /\ [][Next]_vars

\* Executions are repeated only so often that one of them reports.
FairSpec ==
  /\ Spec
  /\ WF_vars(Succeed)
  /\ \A t \in Task : WF_vars(Start(t)) /\ SF_vars(Report(t)) /\ WF_vars(Finish(t))
=============================================================================
