------------------------------ MODULE Planning ------------------------------
(***************************************************************************)
(* Where the plans of a job come from: the API asks for a plan             *)
(* (job.created), the planner answers (plan.created, plan.failed), the API *)
(* stores the answer and dispatches it, and asks again when a task fails   *)
(* in adaptive planning mode or when a user wants another plan.  One job,  *)
(* one API process (its orchestrator thread and its request thread, which  *)
(* is also the start-up recovery), one planner.  Execution is reduced to   *)
(* what planning sees of it: a task is out with the workers until its      *)
(* result is handled (task.started is in module Orchestrator).             *)
(*                                                                         *)
(* Nothing ties a plan.created to the job.created it answers.  A handler   *)
(* decides from what it reads of the job, and writes the whole metadata    *)
(* column back from that reading: the reading and the writing are two      *)
(* steps here where a transaction writes what it has read (plan.created,   *)
(* plan.failed, task.failed, a replan by a user) or only what it has found *)
(* ready (a dispatch).  The others write without deciding, and are one.    *)
(***************************************************************************)
EXTENDS Naturals, Sequences, FiniteSets, RunStatus

CONSTANTS
  Name,          \* task names
  Deps,          \* Deps[n]: the names n waits for, when the plan has them
  PlanShape,     \* the sets of names the planner may answer with
  MaxPlans,      \* bound: plans ever stored
  Adaptive,      \* planning_mode is adaptive
  MaxReplans,    \* the job's replan budget, in adaptive mode
  ErrorKind,     \* the ways tasks fail
  NoEvent,       \* no entry in hand
  Faults         \* how often each disturbance may happen: the combinations allowed

PlanId == 1..MaxPlans

\* A task row is identified by the plan it was created for and its name.
Id == PlanId \X Name

Disturbance == {"replan", "submit", "request", "apiCrash", "plannerCrash", "lost"}

PlanEvent == [type : {"plan_created"}, names : SUBSET Name] \cup [type : {"plan_failed"}]

\* How a task ends: task.completed, or task.failed with the retries used up, with an intent
\* mismatch, or with an error no replan repairs.
Result == {"completed", "exhausted", "mismatch", "final"}

TaskEvent == [type : Result, id : Id]

ASSUME PlanningAssumption ==
  /\ Deps \in [Name -> SUBSET Name]
  /\ PlanShape \subseteq (SUBSET Name) \ {{}}
  /\ MaxPlans \in Nat
  /\ Adaptive \in BOOLEAN
  /\ MaxReplans \in Nat
  /\ ErrorKind \subseteq Result \ {"completed"}
  /\ NoEvent \notin PlanEvent \cup TaskEvent
  /\ Faults \subseteq [Disturbance -> Nat]

VARIABLES
  job,         \* JobRecord.status
  meta,        \* JobRecord.metadata_json: pending_replan's strategy, replan_count, active_plan_id
  plans,       \* PlanRecords of the job; their ids are 1..plans
  rows,        \* TaskRecords: the plan a row belongs to (0: no row), its status
  exec,        \* executions of each task whose result the orchestrator has not read
  orch,        \* the orchestrator thread
  http,        \* the request thread
  requests,    \* job.created entries the planner has not read
  planner,     \* whether the planner is planning
  planStream,  \* plan events the orchestrator has not read
  redo,        \* entries a dead orchestrator had in hand, not acknowledged
  handed,      \* history: how often each task was handed out
  overtaken,   \* history: tasks whose row, or plan, was written over from an outdated reading
  granted,     \* history: replans granted, and plans submitted by a user
  dropped,     \* history: a request for a plan came to nothing since the last one was sent
  used         \* disturbances so far

record  == <<job, meta, plans, rows>>
streams == <<requests, planner, planStream, redo>>
history == <<handed, overtaken, granted, dropped>>
vars    == <<record, exec, orch, http, streams, history, used>>

\* The strategies a replan is requested with; those that keep the finished prefix.
Suffix   == {"patch_suffix", "switch_capability"}
Strategy == Suffix \cup {"full_replan"}

Meta == [pending : Strategy \cup {"none"}, count : Nat, active : 0..MaxPlans]

NoRow == [plan |-> 0, status |-> "pending"]

NewRow(p) == [NoRow EXCEPT !.plan = p]

\* A thread: the entry in hand, what it has read of the job, the active plan it has found (or the
\* plan it dispatches), and the rows it will write.
Thread(pc, ev, p) == [pc |-> pc, ev |-> ev, job |-> "queued",
                      meta |-> [pending |-> "none", count |-> 0, active |-> 0],
                      plan |-> p, batch |-> {}]

Idle == Thread("idle", NoEvent, 0)

Disturb(kind) ==
  /\ used' = [used EXCEPT ![kind] = @ + 1]
  /\ used' \in Faults

\* _active_plan_record_for_job: the active plan, or the newest one.
ActivePlan(m) == IF m.active # 0 THEN m.active ELSE plans

RowsOf(p) == {id \in Id : rows[id].plan = p /\ p # 0}

DoneRows(p) == {id \in RowsOf(p) : rows[id].status \in Done}

\* What _supersede_unfinished_plan_tail would cancel.
Unfinished(p) == {id \in RowsOf(p) : rows[id].status \notin Done \cup {"canceled"}}

\* A transaction reads the job, its active plan and the rows of that plan.
Read(pc, ev) ==
  [Thread(pc, ev, ActivePlan(meta)) EXCEPT
     !.job = job, !.meta = meta, !.batch = Unfinished(ActivePlan(meta))]

\* The active plan's rows, when p is another plan.
Displaced(p) == IF p = ActivePlan(meta) THEN {} ELSE RowsOf(ActivePlan(meta))

\* _create_job_internal has committed the job and is about to emit job.created.
Init ==
  /\ job = "queued"
  /\ meta = [pending |-> "none", count |-> 0, active |-> 0]
  /\ plans = 0
  /\ rows = [id \in Id |-> NoRow]
  /\ exec = [id \in Id |-> 0]
  /\ orch = Idle
  /\ http = Thread("request", NoEvent, 0)
  /\ requests = 0
  /\ planner = FALSE
  /\ planStream = <<>>
  /\ redo = {}
  /\ handed = [id \in Id |-> 0]
  /\ overtaken = {}
  /\ granted = 0
  /\ dropped = FALSE
  /\ used = [k \in Disturbance |-> 0]

-----------------------------------------------------------------------------
(* The planner.                                                            *)

PlannerReads ==
  /\ requests > 0 /\ ~planner
  /\ requests' = requests - 1
  /\ planner' = TRUE
  /\ UNCHANGED <<record, exec, orch, http, planStream, redo, history, used>>

\* Mutant of PlannerAnswers: an exception of the planner is only logged.
PlannerAnswersOnlyPlans ==
  /\ planner
  /\ planner' = FALSE
  /\ \/ \E s \in PlanShape : planStream' = Append(planStream, [type |-> "plan_created", names |-> s])
     \/ UNCHANGED planStream
  /\ UNCHANGED <<record, exec, orch, http, requests, redo, history, used>>

\* process_stream_entry: a plan, or what the exception becomes, then the acknowledgement.
PlannerAnswers ==
  /\ planner
  /\ planner' = FALSE
  /\ \/ \E s \in PlanShape : planStream' = Append(planStream, [type |-> "plan_created", names |-> s])
     \/ planStream' = Append(planStream, [type |-> "plan_failed"])
  /\ UNCHANGED <<record, exec, orch, http, requests, redo, history, used>>

\* emit_plan_event logs a refusal of Redis, and the entry is acknowledged all the same; or the
\* planner dies: it restarts as a new consumer, which reads only entries nobody was given.
PlannerDrops ==
  /\ planner
  /\ planner' = FALSE
  /\ dropped' = TRUE
  /\ Disturb("lost") \/ Disturb("plannerCrash")
  /\ UNCHANGED <<record, exec, orch, http, requests, planStream, redo, handed, overtaken, granted>>

-----------------------------------------------------------------------------
(* Steps both threads of the API take.                                     *)

Emit(lost) ==
  IF lost THEN /\ dropped' = TRUE
               /\ Disturb("lost")
               /\ UNCHANGED requests
          ELSE /\ requests' = requests + 1
               /\ dropped' = FALSE
               /\ UNCHANGED used

Ready(p) ==
  {id \in RowsOf(p) : /\ rows[id].status = "pending"
                      /\ \A d \in RowsOf(p) : d[2] \in Deps[id[2]] => rows[d].status \in Done}

\* enqueue_ready_tasks commits: what it has found ready is, and task.ready is emitted.
DispatchRows(ids) ==
  /\ rows' = [id \in Id |-> IF id \in ids THEN [rows[id] EXCEPT !.status = "ready"] ELSE rows[id]]
  /\ exec' = [id \in Id |-> IF id \in ids THEN exec[id] + 1 ELSE exec[id]]
  /\ handed' = [id \in Id |-> IF id \in ids THEN handed[id] + 1 ELSE handed[id]]
  /\ overtaken' = overtaken \cup {id \in ids : rows[id].status # "pending"}

\* Mutant of Refreshed: a job whose tasks are done gets the status of a task.
RefreshedAsTask ==
  IF \A id \in RowsOf(ActivePlan(meta)) : rows[id].status \in Done THEN "completed" ELSE job

\* _refresh_job_status.
Refreshed ==
  LET p        == ActivePlan(meta)
      statuses == {rows[id].status : id \in RowsOf(p)}
  IN  IF p = 0 THEN job
      ELSE IF statuses = {}
           THEN IF meta.pending # "none" THEN SetJobStatus(job, "planning") ELSE job
           ELSE SetJobStatus(job, DerivedJobStatus(statuses))

\* The whole metadata column is written back from what x has read.
WriteBack(x, m) ==
  /\ meta' = m
  /\ overtaken' = overtaken \cup Displaced(x.plan) \cup Displaced(ActivePlan(m))

\* A status is written only when the transition is allowed from the status read.  (A column
\* that keeps the value read is not written: in RequestReplan too, which does not validate.)
WriteStatus(x, new) ==
  job' = IF new \in JobTransitions[x.job] THEN new ELSE job

\* The refusals of _request_job_replan.
MayReplan(m) == m.pending = "none" /\ (Adaptive => m.count < MaxReplans)

Canceled(ids) ==
  [id \in Id |-> IF id \in ids THEN [rows[id] EXCEPT !.status = "canceled"] ELSE rows[id]]

\* Mutants of Superseded: every row of the plan is canceled; only a failed one is.
SupersededPlan(x)   == Canceled(RowsOf(x.plan))
SupersededFailed(x) == Canceled({id \in x.batch : rows[id].status = "failed"})

\* _supersede_unfinished_plan_tail.
Superseded(x) == Canceled(x.batch)

\* _request_job_replan commits; job.created is emitted next.
RequestReplan(x, strategy) ==
  LET m == [x.meta EXCEPT !.pending = strategy, !.count = @ + 1]
  IN  /\ MayReplan(x.meta)
      /\ rows' = Superseded(x)
      /\ meta' = m
      /\ overtaken' = overtaken \cup Displaced(x.plan) \cup Displaced(ActivePlan(m))
                         \cup {id \in x.batch : rows[id].status \in Done}
      /\ job' = IF x.job = "planning" THEN job ELSE "planning"
      /\ granted' = granted + 1
      /\ UNCHANGED plans

-----------------------------------------------------------------------------
(* The orchestrator thread.                                                *)

OrchAt(pc) == orch' = [orch EXCEPT !.pc = pc]

\* _orchestrator_loop: the next entry of the plans stream, or one of a dead orchestrator.
TakePlanEvent(e) ==
  /\ orch.pc = "idle"
  /\ \/ /\ planStream # <<>> /\ e = Head(planStream)
        /\ planStream' = Tail(planStream)
        /\ UNCHANGED redo
     \/ /\ e \in redo
        /\ redo' = redo \ {e}
        /\ UNCHANGED planStream

\* _orchestrator_loop: the result of an execution, whenever and however that ended; or one a
\* dead orchestrator had in hand.
TakeResult(e) ==
  /\ orch.pc = "idle"
  /\ \/ /\ exec[e.id] > 0
        /\ exec' = [exec EXCEPT ![e.id] = @ - 1]
        /\ UNCHANGED redo
     \/ /\ e \in redo
        /\ redo' = redo \ {e}
        /\ UNCHANGED exec

\* _handle_plan_created, _handle_plan_failed: what they read of the job first.
ReadPlanEvent ==
  /\ \E e \in PlanEvent : TakePlanEvent(e) /\ orch' = Read("handle", e)
  /\ UNCHANGED <<record, exec, http, requests, planner, history, used>>

\* _handle_task_failed: the same, whatever plan the task belongs to.
ReadFailure ==
  /\ \E e \in [type : ErrorKind, id : Id] : TakeResult(e) /\ orch' = Read("handle", e)
  /\ UNCHANGED <<record, http, requests, planner, planStream, history, used>>

Handles(types) == orch.pc = "handle" /\ orch.ev.type \in types

\* The compilation found errors: plan_preflight_errors, and plan.failed.
RejectPlan ==
  /\ Handles({"plan_created"})
  /\ WriteStatus(orch, "failed")
  /\ WriteBack(orch, orch.meta)
  /\ orch' = Thread("report", orch.ev, 0)
  /\ dropped' = TRUE
  /\ UNCHANGED <<plans, rows, exec, http, streams, handed, granted, used>>

\* The job has a plan and no replan is pending: the plan is dropped, the old one dispatched.
DiscardPlan ==
  /\ Handles({"plan_created"})
  /\ orch.plan # 0
  /\ orch.meta.pending = "none"
  /\ orch' = Thread("dispatch", orch.ev, orch.plan)
  /\ UNCHANGED <<record, exec, http, streams, history, used>>

\* _preserve_completed_prefix_for_replan: the finished rows move to the new plan.
Preserved(prior, pending) ==
  IF pending \in Suffix THEN DoneRows(prior) ELSE {}

\* The rows of the new plan: the preserved ones, and a new one for every other name.
StoredRows(p, names, kept) ==
  [id \in Id |->
    IF id \in kept THEN [rows[id] EXCEPT !.plan = p]
    ELSE IF id[1] = p /\ id[2] \in names \ {k[2] : k \in kept} THEN NewRow(p)
    ELSE rows[id]]

\* Mutant of IsWanted: a second answer to the same request is stored too.
IsAlwaysWanted == TRUE

\* Whether a plan that arrived is stored.
IsWanted == orch.plan = 0 \/ orch.meta.pending # "none"

\* The plan, its tasks and the metadata are written from what the handler has read.
StorePlan ==
  /\ Handles({"plan_created"})
  /\ IsWanted
  /\ plans < MaxPlans
  /\ LET p == plans + 1
     IN  /\ plans' = p
         /\ rows' = StoredRows(p, orch.ev.names, Preserved(orch.plan, orch.meta.pending))
         /\ meta' = [orch.meta EXCEPT !.pending = "none", !.active = p]
         /\ orch' = Thread("dispatch", orch.ev, p)
  /\ overtaken' = overtaken \cup Displaced(orch.plan)
  /\ WriteStatus(orch, "planning")
  /\ UNCHANGED <<exec, http, streams, handed, granted, dropped, used>>

HandlePlanFailed ==
  /\ Handles({"plan_failed"})
  /\ WriteStatus(orch, "failed")
  /\ WriteBack(orch, orch.meta)
  /\ orch' = Thread("ack", orch.ev, 0)
  /\ dropped' = TRUE
  /\ UNCHANGED <<plans, rows, exec, http, streams, handed, granted, used>>

\* The row is completed whatever its status, and its own plan is dispatched next.
HandleTaskCompleted ==
  /\ \E e \in [type : {"completed"}, id : Id] :
       /\ TakeResult(e)
       /\ rows' = [rows EXCEPT ![e.id].status = "completed"]
       /\ orch' = Thread("dispatch", e, rows[e.id].plan)
  /\ UNCHANGED <<job, meta, plans, http, requests, planner, planStream, history, used>>

\* decide_task_failure_recovery: whether a failure asks for another plan.
Repairable == Adaptive /\ MayReplan(orch.meta) /\ orch.ev.type \in {"exhausted", "mismatch"}

ReplanAfterFailure ==
  /\ Handles(ErrorKind) /\ Repairable
  /\ RequestReplan(orch, IF orch.ev.type = "mismatch" THEN "switch_capability" ELSE "patch_suffix")
  /\ orch' = Thread("request", orch.ev, 0)
  /\ UNCHANGED <<exec, http, streams, handed, dropped, used>>

\* The metadata is written for the sake of the decision it notes.
GiveTaskUp ==
  /\ Handles(ErrorKind) /\ ~Repairable
  /\ rows' = [rows EXCEPT ![orch.ev.id].status = "failed"]
  /\ WriteStatus(orch, "failed")
  /\ WriteBack(orch, orch.meta)
  /\ orch' = Thread("ack", orch.ev, 0)
  /\ UNCHANGED <<plans, exec, http, streams, handed, granted, dropped, used>>

\* enqueue_ready_tasks: the query.
OrchQueries ==
  /\ orch.pc = "dispatch"
  /\ orch' = IF Ready(orch.plan) = {} THEN Thread("refresh", orch.ev, 0)
             ELSE [Thread("commit", orch.ev, 0) EXCEPT !.batch = Ready(orch.plan)]
  /\ UNCHANGED <<record, exec, http, streams, history, used>>

OrchDispatches ==
  /\ orch.pc = "commit"
  /\ DispatchRows(orch.batch)
  /\ orch' = Thread("refresh", orch.ev, 0)
  /\ UNCHANGED <<job, meta, plans, http, streams, granted, dropped, used>>

OrchRefreshes ==
  /\ orch.pc = "refresh"
  /\ job' = Refreshed
  /\ orch' = Idle
  /\ UNCHANGED <<meta, plans, rows, exec, http, streams, history, used>>

OrchRequests ==
  /\ orch.pc = "request"
  /\ \E lost \in BOOLEAN : Emit(lost)
  /\ OrchAt("ack")
  /\ UNCHANGED <<record, exec, http, planner, planStream, redo, handed, overtaken, granted>>

OrchReports ==
  /\ orch.pc = "report"
  /\ planStream' = Append(planStream, [type |-> "plan_failed"])
  /\ OrchAt("ack")
  /\ UNCHANGED <<record, exec, http, requests, planner, redo, history, used>>

OrchAcks ==
  /\ orch.pc = "ack"
  /\ orch' = Idle
  /\ UNCHANGED <<record, exec, http, streams, history, used>>

-----------------------------------------------------------------------------
(* The request thread.                                                     *)

HttpRequests ==
  /\ http.pc = "request"
  /\ \E lost \in BOOLEAN : Emit(lost)
  /\ http' = Idle
  /\ UNCHANGED <<record, exec, orch, planner, planStream, redo, handed, overtaken, granted>>

HttpQueries ==
  /\ http.pc = "dispatch"
  /\ http' = IF Ready(http.plan) = {} THEN Idle
             ELSE [Thread("commit", NoEvent, 0) EXCEPT !.batch = Ready(http.plan)]
  /\ UNCHANGED <<record, exec, orch, streams, history, used>>

HttpDispatches ==
  /\ http.pc = "commit"
  /\ DispatchRows(http.batch)
  /\ http' = Thread("refresh", NoEvent, 0)
  /\ UNCHANGED <<job, meta, plans, orch, streams, granted, dropped, used>>

HttpRefreshes ==
  /\ http.pc = "refresh"
  /\ job' = Refreshed
  /\ http' = Idle
  /\ UNCHANGED <<meta, plans, rows, exec, orch, streams, history, used>>

\* POST /jobs/{id}/replan: the reading, and what it may write.
ReplanJob ==
  /\ http.pc = "idle"
  /\ Disturb("replan")
  /\ MayReplan(meta)
  /\ http' = Read("replan", NoEvent)
  /\ UNCHANGED <<record, exec, orch, streams, history>>

HttpReplans ==
  /\ http.pc = "replan"
  /\ RequestReplan(http, "full_replan")
  /\ http' = Thread("request", NoEvent, 0)
  /\ UNCHANGED <<exec, orch, streams, handed, dropped, used>>

\* POST /jobs/{id}/cancel
CancelJob ==
  /\ http.pc = "idle"
  /\ Disturb("request")
  /\ "canceled" \in JobTransitions[job]
  /\ job' = "canceled"
  /\ UNCHANGED <<meta, plans, rows, exec, orch, http, streams, history>>

DispatchNext == http' = IF ActivePlan(meta) = 0 THEN Idle
                        ELSE Thread("dispatch", NoEvent, ActivePlan(meta))

\* POST /jobs/{id}/continue
ContinueJob ==
  /\ http.pc = "idle"
  /\ Disturb("request")
  /\ job = "canceled"
  /\ job' = "planning"
  /\ DispatchNext
  /\ UNCHANGED <<meta, plans, rows, exec, orch, streams, history>>

\* POST /jobs/{id}/retry
RetryJob ==
  /\ http.pc = "idle"
  /\ Disturb("request")
  /\ job \in {"failed", "canceled"}
  /\ job' = "planning"
  /\ rows' = [id \in Id |-> IF id \in RowsOf(ActivePlan(meta)) THEN NewRow(rows[id].plan)
                            ELSE rows[id]]
  /\ DispatchNext
  /\ UNCHANGED <<meta, plans, exec, orch, streams, history>>

\* POST /plans, _create_plan_internal: the plan is stored whatever the job waits for, and
\* plan.created makes the orchestrator dispatch it.
CreatePlan ==
  /\ http.pc = "idle"
  /\ Disturb("submit")
  /\ plans < MaxPlans
  /\ \E names \in PlanShape :
       /\ rows' = StoredRows(plans + 1, names, {})
       /\ planStream' = Append(planStream, [type |-> "plan_created", names |-> names])
  /\ plans' = plans + 1
  /\ meta' = [meta EXCEPT !.pending = "none", !.active = plans + 1]
  /\ granted' = granted + 1
  /\ UNCHANGED <<job, exec, orch, http, requests, planner, redo, handed, overtaken, dropped>>

\* The API process dies and restarts: the entry in hand is claimed again, _recover_jobs runs.
ApiCrash ==
  /\ Disturb("apiCrash")
  /\ redo' = IF orch.ev = NoEvent THEN redo ELSE redo \cup {orch.ev}
  /\ orch' = Idle
  /\ http' = Thread("recover", NoEvent, 0)
  /\ UNCHANGED <<record, exec, requests, planner, planStream, history>>

\* Mutant of RecoverJob: a job with a plan is only dispatched.
RecoverDispatchesFirst ==
  /\ http.pc = "recover"
  /\ http' = IF job \notin {"queued", "planning", "running"} THEN Idle
             ELSE IF ActivePlan(meta) = 0 THEN Thread("request", NoEvent, 0)
             ELSE Thread("dispatch", NoEvent, ActivePlan(meta))
  /\ UNCHANGED <<record, exec, orch, streams, history, used>>

\* _recover_jobs.
RecoverJob ==
  /\ http.pc = "recover"
  /\ http' = IF job \notin {"queued", "planning", "running"} THEN Idle
             ELSE IF meta.pending # "none" \/ ActivePlan(meta) = 0
                  THEN Thread("request", NoEvent, 0)
             ELSE Thread("dispatch", NoEvent, ActivePlan(meta))
  /\ dropped' = (dropped \/ job \notin {"queued", "planning", "running"})
  /\ UNCHANGED <<record, exec, orch, streams, handed, overtaken, granted, used>>

-----------------------------------------------------------------------------
Planner == PlannerReads \/ PlannerAnswers

Orchestrator ==
  \/ ReadPlanEvent \/ RejectPlan \/ DiscardPlan \/ StorePlan \/ HandlePlanFailed
  \/ HandleTaskCompleted \/ ReadFailure \/ ReplanAfterFailure \/ GiveTaskUp
  \/ OrchQueries \/ OrchDispatches \/ OrchRefreshes
  \/ OrchRequests \/ OrchReports \/ OrchAcks

Requests ==
  \/ HttpRequests \/ HttpQueries \/ HttpDispatches \/ HttpRefreshes \/ HttpReplans \/ RecoverJob

User == ReplanJob \/ CancelJob \/ ContinueJob \/ RetryJob \/ CreatePlan

Next == Planner \/ Orchestrator \/ Requests \/ User \/ PlannerDrops \/ ApiCrash

\* The loops of the API and of the planner run as long as their processes do.
Fairness == WF_vars(Planner) /\ WF_vars(Orchestrator) /\ WF_vars(Requests)

Spec == Init /\ [][Next]_vars /\ Fairness
-----------------------------------------------------------------------------
(* Properties.                                                             *)

Threads ==
  [pc : {"idle", "handle", "dispatch", "commit", "refresh", "request", "report", "ack",
         "recover", "replan"},
   ev : PlanEvent \cup TaskEvent \cup {NoEvent}, job : JobStatus, meta : Meta,
   plan : 0..MaxPlans, batch : SUBSET Id]

\* Every variable holds values of its type.
TypeOK ==
  /\ job \in JobStatus
  /\ meta \in Meta
  /\ plans \in 0..MaxPlans
  /\ rows \in [Id -> [plan : 0..MaxPlans, status : TaskStatus]]
  /\ exec \in [Id -> Nat]
  /\ orch \in Threads
  /\ http \in Threads
  /\ requests \in Nat
  /\ planner \in BOOLEAN
  /\ planStream \in Seq(PlanEvent)
  /\ redo \in SUBSET (PlanEvent \cup TaskEvent)
  /\ handed \in [Id -> Nat]
  /\ overtaken \in SUBSET Id
  /\ granted \in Nat
  /\ dropped \in BOOLEAN
  /\ used \in Faults \cup {[k \in Disturbance |-> 0]}

\* A job is planned only as often as plans were asked for: once, and once more for every
\* replan granted and every plan submitted, although recovery, redelivery and requests that
\* cross each other make the planner answer more often (_handle_plan_created, the active plan
\* and pending_replan it reads).
PlansAreRequested == plans <= 1 + granted

\* The job waits for a plan: its first one, or the answer to a replan.
Awaiting == /\ job \in {"queued", "planning", "running"}
            /\ meta.pending # "none" \/ plans = 0

IsPlanEvent(e) == e # NoEvent /\ e.type \in {"plan_created", "plan_failed"}

\* Something is under way that ends the wait.
UnderWay ==
  \/ requests > 0 \/ planner \/ planStream # <<>>
  \/ orch.pc = "handle" /\ IsPlanEvent(orch.ev)
  \/ orch.pc \in {"request", "report"}
  \/ \E e \in redo : IsPlanEvent(e)
  \/ http.pc \in {"request", "recover"}

\* A job that waits for a plan is never forgotten: its request or an answer is on the way,
\* unless the request came to nothing (the planner died or failed, Redis refused an event, the
\* plan did not compile, a restart found the job failed).
NoRequestForgotten == Awaiting => UnderWay \/ dropped

DoneName(n) == \E id \in DoneRows(ActivePlan(meta)) : id[2] = n

\* A user asks for work to be done again: a full replan, a retry of the job, a plan of his own.
AskedAgain == \/ \E k \in {"submit", "request"} : used'[k] > used[k]
              \/ plans' > plans /\ orch.meta.pending = "full_replan"

\* What the active plan has finished stays finished in every later plan of the job, through
\* replans that patch the rest, late results of superseded tasks and restarts
\* (_preserve_completed_prefix_for_replan; docs/adaptive-planning-implementation-plan.md:318).
\* Except for a task that was handed out twice, by a recovery that crosses the orchestrator's
\* dispatch or after a retry of the job: the later of the two results counts, a failure too.  And
\* except for what a replan by a user writes over that had read it unfinished.
FinishedWorkIsKept ==
  [][\A n \in Name : DoneName(n) =>
       \/ DoneName(n)' \/ AskedAgain
       \/ \E id \in DoneRows(ActivePlan(meta)) : id[2] = n /\ (handed'[id] > 1 \/ id \in overtaken')]_vars

\* A user has had the job retried, or has submitted a plan: both can leave the tasks of two
\* plans waiting, because neither supersedes the plan it takes over from.
UserOverrode == used["request"] > 0 \/ used["submit"] > 0

\* Otherwise no task of a plan that was replaced waits to be executed: results of it that come
\* late, a recovery, or a dispatch that begins after the replacement do not bring it back
\* (_supersede_unfinished_plan_tail).  A dispatch does that has found the task ready before and
\* commits after, and a replan by a user that writes its reading over a newer plan.
OnlyActivePlanWaits ==
  \A id \in Id : rows[id].plan \notin {0, ActivePlan(meta)} /\ rows[id].status \in {"pending", "ready"}
                 => UserOverrode \/ id \in overtaken

\* A wait for a plan ends: the plan is stored, the job fails or is canceled, or the request
\* comes to nothing.
WaitEnds == Awaiting ~> (~Awaiting \/ dropped)
=============================================================================
