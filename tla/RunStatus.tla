------------------------------ MODULE RunStatus ------------------------------
(***************************************************************************)
(* The status vocabulary of a job and of its tasks, the two transition     *)
(* tables of libs/core/state_machine.py, the readiness rule of             *)
(* libs/core/orchestrator.py and the job status the API derives from the   *)
(* statuses of a plan's tasks.  Constant-level operators only: the modules *)
(* that keep the job and the tasks as state EXTEND this one.               *)
(***************************************************************************)

JobStatus  == {"queued", "planning", "running", "succeeded", "failed", "canceled"}

TaskStatus == {"pending", "ready", "running", "blocked", "completed", "accepted",
               "rework_requested", "failed", "canceled"}

\* Mutant of JobTransitions: a canceled job may run again.
ResumableJobTransitions ==
  [queued    |-> {"planning", "failed", "canceled"},
   planning  |-> {"running", "failed", "canceled"},
   running   |-> {"succeeded", "failed", "canceled"},
   succeeded |-> {},
   failed    |-> {"planning"},
   canceled  |-> {"planning", "running"}]

JobTransitions ==
  [queued    |-> {"planning", "failed", "canceled"},
   planning  |-> {"running", "failed", "canceled"},
   running   |-> {"succeeded", "failed", "canceled"},
   succeeded |-> {},
   failed    |-> {"planning"},
   canceled  |-> {"planning"}]

TaskTransitions ==
  [pending          |-> {"ready", "canceled"},
   ready            |-> {"running", "blocked", "canceled"},
   running          |-> {"completed", "failed", "canceled", "rework_requested"},
   completed        |-> {"accepted", "rework_requested"},
   accepted         |-> {},
   rework_requested |-> {"ready", "failed"},
   blocked          |-> {"ready", "failed", "canceled"},
   failed           |-> {},
   canceled         |-> {}]

\* The statuses that satisfy a dependency.
Done == {"completed", "accepted"}

\* Mutant of SetJobStatus: the transition is not validated.
SetJobStatusUnchecked(current, new) == new

\* _set_job_status: a transition the table does not allow is dropped in silence.
SetJobStatus(current, new) ==
  IF new \in JobTransitions[current] THEN new ELSE current

\* Mutants of ReadyTasks: a dependency blocks only when it failed; a task already handed out
\* is handed out again.
ReadyUnlessDepFailed(status, deps) ==
  {t \in DOMAIN status : status[t] = "pending" /\ \A d \in deps[t] : status[d] # "failed"}

ReadyAgain(status, deps) ==
  {t \in DOMAIN status : /\ status[t] \in {"pending", "ready"}
                         /\ \A d \in deps[t] : status[d] \in Done}

\* orchestrator.ready_tasks: the pending tasks whose dependencies are all done.
ReadyTasks(status, deps) ==
  {t \in DOMAIN status : status[t] = "pending" /\ \A d \in deps[t] : status[d] \in Done}

\* Mutant of DerivedJobStatus: one task that is done is enough to succeed.
DerivedFromAnyDone(statuses) ==
  CASE "failed" \in statuses                                        -> "failed"
    [] "failed" \notin statuses /\ statuses \cap Done # {}          -> "succeeded"
    [] "failed" \notin statuses /\ statuses \cap Done = {}
         /\ statuses \cap {"ready", "running"} # {}                 -> "running"
    [] OTHER                                                        -> "planning"

\* The status _refresh_job_status derives from the statuses of the active plan's tasks.
DerivedJobStatus(statuses) ==
  CASE "failed" \in statuses                              -> "failed"
    [] "failed" \notin statuses /\ statuses \subseteq Done -> "succeeded"
    [] "failed" \notin statuses /\ ~(statuses \subseteq Done)
         /\ statuses \cap {"ready", "running"} # {}       -> "running"
    [] OTHER                                              -> "planning"
=============================================================================
