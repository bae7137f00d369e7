---------------------------- MODULE Orchestrator ----------------------------
(***************************************************************************)
(* One job of the control plane, from the moment its plan has been stored, *)
(* in static planning mode: the API's orchestrator threads (one per API    *)
(* replica, all in the consumer group "api-orchestrator"), one request     *)
(* thread (HTTP endpoints and the recovery an API process performs when it *)
(* starts), the workers of the consumer group on tasks.events, the policy  *)
(* gate and the critic.                                                    *)
(*                                                                         *)
(* A handler is a sequence of database transactions and emissions.  Each   *)
(* transaction is one step here, because another replica can run between   *)
(* two of them and a crash can fall there:                                 *)
(*   handle -> dispatch -> commit -> emit* -> refresh* -> end              *)
(* where "dispatch" is the query of enqueue_ready_tasks, "commit" its      *)
(* commit, "emit" one emit_event call, "refresh" one _refresh_job_status   *)
(* call and the end the acknowledgement, or what the handler still does    *)
(* before it.  A transaction that writes the job's status may have read    *)
(* the job, and the tasks the status follows from, in steps of their own:  *)
(* no row is locked, so others may commit between its reading and its      *)
(* commit.                                                                 *)
(***************************************************************************)
EXTENDS Naturals, Sequences, RunStatus

CONSTANTS
  Task,              \* the tasks of the plan
  Deps,              \* Deps[t]: the tasks t waits for
  Worker,            \* worker processes
  Api,               \* API replicas, one orchestrator thread each
  Http,              \* the request (and start-up) thread
  NoEvent,           \* no stream entry
  NoTask,            \* the task of an event about no task
  MaxAttempts,       \* TaskRecord.max_attempts
  MaxReworks,        \* TaskRecord.max_reworks (0: unlimited)
  PolicyGate,        \* POLICY_GATE_ENABLED
  Critic,            \* CRITIC_ENABLED
  RetryPolicy,       \* WORKER_RETRY_POLICY, "none" also when WORKER_RETRY_ENABLED is false
  BadInput,          \* tasks whose resolved tool inputs may fail validation
  ErrorKind,         \* the kinds of errors executions end with
  Faults             \* how often each disturbance may happen: the combinations allowed

Thread == Api \cup {Http}

Disturbance == {"request", "apiError", "apiCrash", "workerCrash", "steal", "lostResult",
                "serviceCrash"}

EventType == {"ready", "started", "completed", "failed", "policy_check",
              "allow", "deny", "accepted", "rework_requested"}

Mk(type, t, n, retryable) == [type |-> type, task |-> t, n |-> n, retryable |-> retryable]

\* plan.created, the event of the plans stream.
PlanCreated == Mk("plan_created", NoTask, 0, FALSE)

\* n is the payload's "attempts"; retryable is how _classify_task_error reads its "error".
TaskEvent == [type : EventType, task : Task, n : Nat, retryable : BOOLEAN]

Stream == {"tasks", "critic", "policy"}

ASSUME OrchestratorAssumption ==
  /\ Deps \in [Task -> SUBSET Task]
  /\ Http \notin Api
  /\ NoEvent \notin TaskEvent \cup {PlanCreated}
  /\ NoTask \notin Task
  /\ MaxAttempts \in Nat \ {0}
  /\ MaxReworks \in Nat
  /\ PolicyGate \in BOOLEAN
  /\ Critic \in BOOLEAN
  /\ RetryPolicy \in {"none", "transient", "any"}
  /\ BadInput \subseteq Task
  /\ ErrorKind \subseteq {"transient", "runtime", "contract"}
  /\ Faults \subseteq [Disturbance -> Nat]

VARIABLES
  job,        \* JobRecord.status
  task,       \* TaskRecord.status, per task
  attempts,   \* TaskRecord.attempts, per task
  reworks,    \* TaskRecord.rework_count, per task
  thread,     \* the API's threads
  seen,       \* what the transaction each thread is in has read of the job
  stream,     \* entries the group api-orchestrator has not been given yet, per stream
  inbox,      \* entries each orchestrator has read and not begun with
  pending,    \* entries given to an orchestrator that will not acknowledge them
  ready,      \* task.ready entries the workers' group has not been given yet
  held,       \* the entry each worker is executing
  orphaned,   \* task.ready entries of dead workers, not acknowledged
  toPolicy,   \* task.policy_check entries the policy service has not handled
  toCritic,   \* task.completed entries the critic has not handled
  used        \* disturbances so far

rows     == <<job, task, attempts, reworks>>
services == <<toPolicy, toCritic>>
workers  == <<ready, held, orphaned>>
queues   == <<stream, inbox, pending>>
vars     == <<rows, thread, seen, queues, workers, services, used>>

Pc == {"idle", "handle", "dispatch", "commit", "emit", "refresh", "giveUp", "ack"}

\* What ends a handler: nothing (no entry in hand), the acknowledgement, or one more
\* transaction that gives the task up.
End == {"idle", "ack", "giveUp"}

NoCount == [t \in Task |-> 0]

\* What a thread has in hand: the entry it handles, the batch of ready tasks it has read and
\* their attempts then, the events it will emit, how often it will refresh the job, and how
\* it ends.
Idle == [pc |-> "idle", ev |-> NoEvent, batch |-> {}, snap |-> NoCount, out |-> {},
         refreshes |-> 0, end |-> "idle"]

Handle(e) == [Idle EXCEPT !.pc = "handle", !.ev = e, !.end = "ack"]

\* Nothing read yet.  Otherwise: the job's status, the status its tasks then mean (read by
\* _refresh_job_status only), and whether the user has canceled the job since (history).
Unread == [job |-> "unread", derived |-> "unread", crossed |-> FALSE]

Disturb(kind) ==
  /\ used' = [used EXCEPT ![kind] = @ + 1]
  /\ used' \in Faults

\* The first state: _handle_plan_created has committed the plan and its tasks on one
\* replica and is about to dispatch, with one _refresh_job_status to follow.
Init ==
  /\ job = "planning"
  /\ task = [t \in Task |-> "pending"]
  /\ attempts = NoCount
  /\ reworks = NoCount
  /\ \E a \in Api :
       thread = [x \in Thread |->
                  IF x = a THEN [Handle(PlanCreated) EXCEPT !.pc = "dispatch", !.refreshes = 1]
                  ELSE Idle]
  /\ seen = [x \in Thread |-> Unread]
  /\ stream = [s \in Stream |-> <<>>]
  /\ inbox = [a \in Api |-> <<>>]
  /\ pending = <<>>
  /\ ready = <<>>
  /\ held = [w \in Worker |-> NoEvent]
  /\ orphaned = <<>>
  /\ toPolicy = <<>>
  /\ toCritic = <<>>
  /\ used = [k \in Disturbance |-> 0]

-----------------------------------------------------------------------------
(* The job's row.                                                          *)

DerivedStatus == DerivedJobStatus({task[t] : t \in Task})

RequestPossible == [used EXCEPT !["request"] = @ + 1] \in Faults

\* A transaction that will write the job's status from what it reads.
WritesJob(x) ==
  \/ thread[x].pc \in {"refresh", "giveUp"}
  \/ thread[x].pc = "handle" /\ thread[x].ev.type \in {"started", "failed", "rework_requested"}
  \/ x = Http /\ thread[x].pc = "idle" /\ RequestPossible

\* Another thread may commit before x does: otherwise reading now or at the commit is the same.
Overtakable(x) == \E y \in Thread \ {x} : y \in Api \/ thread[y].pc # "idle" \/ RequestPossible

\* It reads the job, and commits in a later step.
ReadJob(x) ==
  /\ WritesJob(x) /\ Overtakable(x)
  /\ seen[x].job = "unread"
  /\ seen' = [seen EXCEPT ![x].job = job]
  /\ UNCHANGED <<rows, thread, queues, workers, services, used>>

\* _refresh_job_status reads the tasks after the job.
ReadTasks(x) ==
  /\ thread[x].pc = "refresh" /\ Overtakable(x)
  /\ seen[x].job # "unread" /\ seen[x].derived = "unread"
  /\ seen' = [seen EXCEPT ![x].derived = DerivedStatus]
  /\ UNCHANGED <<rows, thread, queues, workers, services, used>>

\* What the transaction of x knows when it commits: what it has read, or reads now.
JobRead(x)    == IF seen[x].job = "unread" THEN job ELSE seen[x].job
StatusRead(x) == IF seen[x].derived = "unread" THEN DerivedStatus ELSE seen[x].derived

\* The status x commits: validated against the status it has read, and not written when that
\* remains, whatever the row holds by now.
Committed(x, new) ==
  LET status == SetJobStatus(JobRead(x), new) IN IF status = JobRead(x) THEN job ELSE status

\* The transaction of x is over.
Forget(x) == seen' = [seen EXCEPT ![x] = Unread]

-----------------------------------------------------------------------------
(* Moving a thread through its handler.                                    *)

\* Where a thread goes once its events in hand are out: what is left of the handler.
Settle(x, r) ==
  thread' = [thread EXCEPT ![x] =
    [r EXCEPT !.pc = CASE r.out # {}                        -> "emit"
                       [] r.out = {} /\ r.refreshes > 0     -> "refresh"
                       [] r.out = {} /\ r.refreshes = 0     -> r.end]]

\* The handler goes on to enqueue_ready_tasks, then refreshes n times.
GoDispatch(x, r, n) ==
  thread' = [thread EXCEPT ![x] = [r EXCEPT !.pc = "dispatch", !.refreshes = n]]

\* Of each stream, the entries one xreadgroup returns (count=10), and those it leaves.
ReadCount == 10
Oldest(s)   == SubSeq(s, 1, IF Len(s) < ReadCount THEN Len(s) ELSE ReadCount)
Remaining(s) == SubSeq(s, Len(Oldest(s)) + 1, Len(s))

\* xreadgroup: an orchestrator that is done with its batch reads the streams, in their
\* order, and begins with the first entry.
Deliver(a) ==
  LET batch == Oldest(stream["tasks"]) \o Oldest(stream["critic"]) \o Oldest(stream["policy"])
  IN
  /\ thread[a].pc = "idle" /\ inbox[a] = <<>>
  /\ batch # <<>>
  /\ thread' = [thread EXCEPT ![a] = Handle(Head(batch))]
  /\ inbox' = [inbox EXCEPT ![a] = Tail(batch)]
  /\ stream' = [s \in Stream |-> Remaining(stream[s])]
  /\ UNCHANGED <<rows, seen, pending, workers, services, used>>

\* The next entry of the batch.
NextEntry(a) ==
  /\ thread[a].pc = "idle" /\ inbox[a] # <<>>
  /\ thread' = [thread EXCEPT ![a] = Handle(Head(inbox[a]))]
  /\ inbox' = [inbox EXCEPT ![a] = Tail(@)]
  /\ UNCHANGED <<rows, seen, stream, pending, workers, services, used>>

\* _recover_pending_events, between two batches: xautoclaim hands over an entry nobody
\* acknowledged.
RecoverPending(a) ==
  /\ thread[a].pc = "idle" /\ inbox[a] = <<>>
  /\ pending # <<>>
  /\ thread' = [thread EXCEPT ![a] = Handle(Head(pending))]
  /\ pending' = Tail(pending)
  /\ UNCHANGED <<rows, seen, stream, inbox, workers, services, used>>

Handling(a, type) == thread[a].pc = "handle" /\ thread[a].ev.type = type

\* _handle_plan_created once more: the job has a plan, so it only dispatches
HandlePlanCreated(a) ==
  /\ Handling(a, "plan_created")
  /\ GoDispatch(a, thread[a], 1)
  /\ UNCHANGED <<rows, seen, queues, workers, services, used>>

\* _handle_task_started
HandleStarted(a) ==
  LET r == thread[a] IN
  /\ Handling(a, "started")
  /\ task' = [task EXCEPT ![r.ev.task] = "running"]
  /\ attempts' = [attempts EXCEPT ![r.ev.task] = r.ev.n]
  /\ job' = Committed(a, "running")
  /\ Forget(a)
  /\ Settle(a, r)
  /\ UNCHANGED <<reworks, queues, workers, services, used>>

\* Mutants of HandleCompleted: it writes a job's status; it writes "accepted" without a
\* review; it dispatches nothing.
CompletedAsJobStatus(a) ==
  LET r == thread[a] IN
  /\ Handling(a, "completed")
  /\ task' = [task EXCEPT ![r.ev.task] = "succeeded"]
  /\ GoDispatch(a, r, 1)
  /\ UNCHANGED <<job, attempts, reworks, seen, queues, workers, services, used>>

CompletedAsAccepted(a) ==
  LET r == thread[a] IN
  /\ Handling(a, "completed")
  /\ task' = [task EXCEPT ![r.ev.task] = "accepted"]
  /\ GoDispatch(a, r, 1)
  /\ UNCHANGED <<job, attempts, reworks, seen, queues, workers, services, used>>

CompletedWithoutDispatch(a) ==
  LET r == thread[a] IN
  /\ Handling(a, "completed")
  /\ task' = [task EXCEPT ![r.ev.task] = "completed"]
  /\ Settle(a, [r EXCEPT !.refreshes = 1])
  /\ UNCHANGED <<job, attempts, reworks, seen, queues, workers, services, used>>

\* _handle_task_completed
HandleCompleted(a) ==
  LET r == thread[a] IN
  /\ Handling(a, "completed")
  /\ task' = [task EXCEPT ![r.ev.task] = "completed"]
  /\ GoDispatch(a, r, 1)
  /\ UNCHANGED <<job, attempts, reworks, seen, queues, workers, services, used>>

\* Mutant of RetriesSameStep: the attempt number is not compared.
RetriesWhateverAttempt(e) == e.retryable

\* decide_task_failure_recovery in static mode: the same step again, or no recovery.
RetriesSameStep(e) == e.retryable /\ e.n < MaxAttempts

\* _schedule_task_retry_same_step: ready again, or failed when its inputs are now invalid; the
\* failure is emitted, and _handle_task_failed then gives the task up.
RetrySameStep(a) ==
  LET r    == thread[a]
      t    == r.ev.task
      next == (IF r.ev.n > attempts[t] THEN r.ev.n ELSE attempts[t]) + 1
  IN
  /\ Handling(a, "failed")
  /\ RetriesSameStep(r.ev)
  /\ attempts' = [attempts EXCEPT ![t] = next]
  /\ \/ /\ task' = [task EXCEPT ![t] = "ready"]
        /\ job' = Committed(a, "running")
        /\ Settle(a, [r EXCEPT !.out = {Mk("ready", t, next, FALSE)}, !.refreshes = 1])
     \/ /\ t \in BadInput
        /\ task' = [task EXCEPT ![t] = "failed"]
        /\ job' = Committed(a, "failed")
        /\ Settle(a, [r EXCEPT !.out = {Mk("failed", t, next, FALSE)}, !.refreshes = 1,
                               !.end = "giveUp"])
  /\ Forget(a)
  /\ UNCHANGED <<reworks, queues, workers, services, used>>

\* _handle_task_failed when nothing is tried again, or after the retry failed
GiveUp(a) ==
  LET r == thread[a] IN
  /\ \/ Handling(a, "failed") /\ ~RetriesSameStep(r.ev)
     \/ r.pc = "giveUp"
  /\ task' = [task EXCEPT ![r.ev.task] = "failed"]
  /\ job' = Committed(a, "failed")
  /\ Forget(a)
  /\ Settle(a, [r EXCEPT !.end = "ack"])
  /\ UNCHANGED <<attempts, reworks, queues, workers, services, used>>

\* _handle_task_accepted
HandleAccepted(a) ==
  LET r == thread[a] IN
  /\ Handling(a, "accepted")
  /\ task' = [task EXCEPT ![r.ev.task] = "accepted"]
  /\ GoDispatch(a, r, 1)
  /\ UNCHANGED <<job, attempts, reworks, seen, queues, workers, services, used>>

\* Mutant of HandleRework: the task is marked ready instead of pending.
ReworkMarkedReady(a) ==
  LET r == thread[a]
      t == r.ev.task
  IN
  /\ Handling(a, "rework_requested")
  /\ task' = [task EXCEPT ![t] = "ready"]
  /\ reworks' = [reworks EXCEPT ![t] = IF @ < MaxReworks THEN @ + 1 ELSE @]
  /\ GoDispatch(a, r, 0)
  /\ Forget(a)
  /\ UNCHANGED <<job, attempts, queues, workers, services, used>>

\* _handle_task_rework: pending again while the rework budget lasts, else failed
HandleRework(a) ==
  LET r    == thread[a]
      t    == r.ev.task
      next == reworks[t] + 1
  IN
  /\ Handling(a, "rework_requested")
  /\ IF MaxReworks = 0 \/ next <= MaxReworks
     THEN /\ task' = [task EXCEPT ![t] = "pending"]
          /\ reworks' = [reworks EXCEPT ![t] = next]
          /\ GoDispatch(a, r, 0)
          /\ UNCHANGED job
     ELSE /\ task' = [task EXCEPT ![t] = "failed"]
          /\ job' = Committed(a, "failed")
          /\ Settle(a, [r EXCEPT !.refreshes = 1])
          /\ UNCHANGED reworks
  /\ Forget(a)
  /\ UNCHANGED <<attempts, queues, workers, services, used>>

\* Mutant of HandlePolicyDecision: a blocked task is not one that waits for a decision.
DecisionIgnoresBlocked(a) ==
  LET r == thread[a]
      t == r.ev.task
  IN
  /\ Handling(a, "allow") \/ Handling(a, "deny")
  /\ IF task[t] # "pending"
     THEN Settle(a, r) /\ UNCHANGED task
     ELSE task' = [task EXCEPT ![t] = "failed"] /\ Settle(a, [r EXCEPT !.refreshes = 1])
  /\ UNCHANGED <<job, attempts, reworks, seen, queues, workers, services, used>>

\* _handle_policy_decision: only a task that still waits for one is touched
HandlePolicyDecision(a) ==
  LET r    == thread[a]
      t    == r.ev.task
      next == attempts[t] + 1
      Fails(n) == /\ task' = [task EXCEPT ![t] = "failed"]
                  /\ Settle(a, [r EXCEPT !.out = {Mk("failed", t, n, FALSE)}, !.refreshes = 1])
  IN
  /\ Handling(a, "allow") \/ Handling(a, "deny")
  /\ CASE task[t] \notin {"pending", "blocked"} ->
            Settle(a, r) /\ UNCHANGED <<task, attempts>>
       [] task[t] \in {"pending", "blocked"} /\ (r.ev.type = "deny" \/ next > MaxAttempts) ->
            Fails(attempts[t]) /\ UNCHANGED attempts
       [] OTHER ->
            /\ attempts' = [attempts EXCEPT ![t] = next]
            /\ \/ t \in BadInput /\ Fails(next)
               \/ /\ task' = [task EXCEPT ![t] = "ready"]
                  /\ Settle(a, [r EXCEPT !.out = {Mk("ready", t, next, FALSE)}, !.refreshes = 1])
  /\ UNCHANGED <<job, reworks, seen, queues, workers, services, used>>

\* enqueue_ready_tasks, the query: which tasks are ready, and their attempts, as read now.
\* Without any it returns at once; otherwise it ends with a refresh of its own.
DispatchRead(x) ==
  LET r == thread[x]
      S == ReadyTasks(task, Deps)
  IN
  /\ r.pc = "dispatch"
  /\ IF S = {}
     THEN Settle(x, r)
     ELSE thread' = [thread EXCEPT ![x] =
            [r EXCEPT !.pc = "commit", !.refreshes = @ + 1, !.batch = S,
                      !.snap = [t \in Task |-> IF t \in S THEN attempts[t] ELSE 0]]]
  /\ UNCHANGED <<rows, seen, queues, workers, services, used>>

\* What enqueue_ready_tasks does with a task read with n attempts, its inputs valid or not.
Fate(n, valid) ==
  CASE n + 1 > MaxAttempts                              -> "failed"
    [] n + 1 <= MaxAttempts /\ PolicyGate               -> "blocked"
    [] n + 1 <= MaxAttempts /\ ~PolicyGate /\ ~valid    -> "failed"
    [] n + 1 <= MaxAttempts /\ ~PolicyGate /\ valid     -> "ready"

Counted(n) == IF n + 1 <= MaxAttempts /\ ~PolicyGate THEN n + 1 ELSE n

EventOf == [failed |-> "failed", blocked |-> "policy_check", ready |-> "ready"]

\* Mutant of DispatchCommit: a task sent to the policy gate is sent to the workers as well.
CommitFallsThroughGate(x) ==
  LET r == thread[x]
      S == r.batch
  IN
  /\ r.pc = "commit"
  /\ task' = [t \in Task |-> IF t \in S THEN "blocked" ELSE task[t]]
  /\ Settle(x, [r EXCEPT !.batch = {}, !.snap = NoCount,
                         !.out = {Mk(type, t, r.snap[t], FALSE) :
                                    type \in {"policy_check", "ready"}, t \in S}])
  /\ UNCHANGED <<job, attempts, reworks, seen, queues, workers, services, used>>

\* enqueue_ready_tasks, the commit: written from what was read, whatever the rows hold now.
\* A column that keeps the value read is not written.
DispatchCommit(x) ==
  LET r == thread[x]
      S == r.batch
  IN
  /\ r.pc = "commit"
  /\ \E invalid \in SUBSET (S \cap BadInput) :
       LET fate(t) == Fate(r.snap[t], t \notin invalid) IN
       /\ task' = [t \in Task |-> IF t \in S THEN fate(t) ELSE task[t]]
       /\ Settle(x, [r EXCEPT !.batch = {}, !.snap = NoCount,
                              !.out = {Mk(EventOf[fate(t)], t, Counted(r.snap[t]), FALSE)
                                         : t \in S}])
  /\ attempts' = [t \in Task |-> IF t \in S /\ Counted(r.snap[t]) # r.snap[t]
                                 THEN Counted(r.snap[t]) ELSE attempts[t]]
  /\ UNCHANGED <<job, reworks, seen, queues, workers, services, used>>

\* emit_event: onto the stream every group reads.
Emit(x) ==
  LET r == thread[x] IN
  /\ r.pc = "emit"
  /\ \E e \in r.out :
       /\ Settle(x, [r EXCEPT !.out = @ \ {e}])
       /\ ready' = IF e.type = "ready" THEN Append(ready, e) ELSE ready
       /\ toPolicy' = IF e.type = "policy_check" THEN Append(toPolicy, e) ELSE toPolicy
       /\ stream' = IF e.type = "failed"
                    THEN [stream EXCEPT !["tasks"] = Append(@, e)] ELSE stream
  /\ UNCHANGED <<rows, seen, inbox, pending, held, orphaned, toCritic, used>>

\* _refresh_job_status
Refresh(x) ==
  LET r == thread[x] IN
  /\ r.pc = "refresh"
  /\ job' = Committed(x, StatusRead(x))
  /\ Forget(x)
  /\ Settle(x, [r EXCEPT !.refreshes = @ - 1])
  /\ UNCHANGED <<task, attempts, reworks, queues, workers, services, used>>

\* xack
Ack(a) ==
  /\ thread[a].pc = "ack"
  /\ thread' = [thread EXCEPT ![a] = Idle]
  /\ UNCHANGED <<rows, seen, queues, workers, services, used>>

-----------------------------------------------------------------------------
(* What goes wrong in the API.                                             *)

Unacked(a) == IF thread[a].pc = "idle" THEN pending ELSE Append(pending, thread[a].ev)

\* Where a handler may raise: in a transaction or a query.  emit_event reports every failure
\* of its own in the log only, but a retry and a policy decision still use the database
\* between the commit of a ready task and the emission of its task.ready.
MayRaise(r) ==
  \/ r.pc \in {"handle", "dispatch", "commit", "refresh", "giveUp"}
  \/ /\ r.pc = "emit"
     /\ r.ev.type \in {"failed", "allow"}
     /\ \E e \in r.out : e.type = "ready"

\* The handler raises: the entry stays unacknowledged, the loop goes on with the batch.
HandlerError(a) ==
  /\ Disturb("apiError")
  /\ MayRaise(thread[a])
  /\ pending' = Unacked(a)
  /\ thread' = [thread EXCEPT ![a] = Idle]
  /\ Forget(a)
  /\ UNCHANGED <<rows, stream, inbox, workers, services>>

\* The process dies with what it holds in memory, the rest of its batch too, and starts
\* again: _recover_jobs dispatches the plan of a job that is not over.
ApiCrash(a) ==
  /\ Disturb("apiCrash")
  /\ pending' = Unacked(a) \o inbox[a]
  /\ inbox' = [inbox EXCEPT ![a] = <<>>]
  /\ thread' = [thread EXCEPT
       ![a] = Idle,
       ![Http] = IF job \in {"queued", "planning", "running"}
                 THEN [Idle EXCEPT !.pc = "dispatch"] ELSE Idle]
  /\ seen' = [seen EXCEPT ![a] = Unread, ![Http] = Unread]
  /\ UNCHANGED <<rows, stream, workers, services>>

-----------------------------------------------------------------------------
(* Requests.  Each commits its own rows, then may dispatch.                *)

Request == Disturb("request") /\ thread[Http].pc = "idle"

\* cancel_job
CancelJob ==
  /\ Request
  /\ "canceled" \in JobTransitions[JobRead(Http)]
  /\ job' = "canceled"
  /\ seen' = [x \in Thread |-> IF x = Http \/ seen[x].job = "unread" THEN Unread
                               ELSE [seen[x] EXCEPT !.crossed = TRUE]]
  /\ UNCHANGED <<task, attempts, reworks, thread, queues, workers, services>>

\* continue_job
ContinueJob ==
  /\ Request
  /\ JobRead(Http) = "canceled"
  /\ job' = Committed(Http, "planning")
  /\ Forget(Http)
  /\ GoDispatch(Http, Idle, 0)
  /\ UNCHANGED <<task, attempts, reworks, queues, workers, services>>

\* Mutant of Reset: the tasks are marked ready instead of pending.
ResetToReady(S) ==
  /\ task' = [t \in Task |-> IF t \in S THEN "ready" ELSE task[t]]
  /\ attempts' = [t \in Task |-> IF t \in S THEN 0 ELSE attempts[t]]
  /\ reworks' = [t \in Task |-> IF t \in S THEN 0 ELSE reworks[t]]
  /\ job' = Committed(Http, "planning")
  /\ Forget(Http)
  /\ GoDispatch(Http, Idle, 0)
  /\ UNCHANGED <<queues, workers, services>>

\* The tasks of S as new: what the three retry endpoints write.
Reset(S) ==
  /\ task' = [t \in Task |-> IF t \in S THEN "pending" ELSE task[t]]
  /\ attempts' = [t \in Task |-> IF t \in S THEN 0 ELSE attempts[t]]
  /\ reworks' = [t \in Task |-> IF t \in S THEN 0 ELSE reworks[t]]
  /\ job' = Committed(Http, "planning")
  /\ Forget(Http)
  /\ GoDispatch(Http, Idle, 0)
  /\ UNCHANGED <<queues, workers, services>>

Failed == {t \in Task : task[t] = "failed"}

\* retry_job
RetryJob == Request /\ JobRead(Http) \in {"failed", "canceled"} /\ Reset(Task)

\* retry_failed_tasks
RetryFailedTasks == Request /\ Failed # {} /\ Reset(Failed)

\* retry_task
RetryTask(t) == Request /\ t \in Failed /\ Reset({t})

-----------------------------------------------------------------------------
(* The workers.                                                            *)

\* _process_task_ready_message begins: task.started goes out, the tool runs.
Begin(w, e) ==
  /\ held' = [held EXCEPT ![w] = e]
  /\ stream' = [stream EXCEPT !["tasks"] = Append(@, Mk("started", e.task, e.n, FALSE))]

\* xreadgroup of the workers' group
Take(w) ==
  /\ held[w] = NoEvent
  /\ ready # <<>>
  /\ Begin(w, Head(ready))
  /\ ready' = Tail(ready)
  /\ UNCHANGED <<rows, thread, seen, inbox, pending, orphaned, services, used>>

\* _claim_stale_messages: an entry of a worker that died
Claim(w) ==
  /\ held[w] = NoEvent
  /\ orphaned # <<>>
  /\ Begin(w, Head(orphaned))
  /\ orphaned' = Tail(orphaned)
  /\ UNCHANGED <<rows, thread, seen, inbox, pending, ready, services, used>>

\* _claim_stale_messages: an entry idle for WORKER_RECOVER_IDLE_MS whose worker is alive
\* and still executing it.
Steal(w, v) ==
  /\ Disturb("steal")
  /\ held[w] = NoEvent
  /\ held[v] # NoEvent
  /\ Begin(w, held[v])
  /\ UNCHANGED <<rows, thread, seen, inbox, pending, ready, orphaned, services>>

\* The tool succeeds: task.completed, which the critic reads too.
Complete(w) ==
  LET e    == held[w]
      done == Mk("completed", e.task, e.n, FALSE)
  IN
  /\ e # NoEvent
  /\ held' = [held EXCEPT ![w] = NoEvent]
  /\ stream' = [stream EXCEPT !["tasks"] = Append(@, done)]
  /\ toCritic' = IF Critic THEN Append(toCritic, done) ELSE toCritic
  /\ UNCHANGED <<rows, thread, seen, inbox, pending, ready, orphaned, toPolicy, used>>

\* Mutant of ShouldRetry: one attempt more.
ShouldRetryOnceMore(kind, n) ==
  /\ n <= MaxAttempts
  /\ kind # "contract"
  /\ RetryPolicy = "any" \/ (RetryPolicy = "transient" /\ kind = "transient")

\* _should_retry_task; the limit is max(max_attempts, attempts) of _task_attempt_limits
ShouldRetry(kind, n) ==
  /\ n < MaxAttempts
  /\ kind # "contract"
  /\ RetryPolicy = "any" \/ (RetryPolicy = "transient" /\ kind = "transient")

\* Mutant of Fail: a retry is decided but not queued.
FailWithoutRetry(w, kind) ==
  LET e == held[w] IN
  /\ e # NoEvent
  /\ held' = [held EXCEPT ![w] = NoEvent]
  /\ stream' = IF ShouldRetry(kind, e.n) THEN stream
               ELSE [stream EXCEPT !["tasks"] =
                       Append(@, Mk("failed", e.task, e.n, kind = "transient"))]
  /\ UNCHANGED <<rows, thread, seen, inbox, pending, ready, orphaned, services, used>>

\* The tool fails: a task.ready with one more attempt (_queue_task_retry), or task.failed.
Fail(w, kind) ==
  LET e == held[w] IN
  /\ e # NoEvent
  /\ held' = [held EXCEPT ![w] = NoEvent]
  /\ IF ShouldRetry(kind, e.n)
     THEN /\ ready' = Append(ready, Mk("ready", e.task, e.n + 1, FALSE))
          /\ UNCHANGED stream
     ELSE /\ stream' = [stream EXCEPT !["tasks"] =
                          Append(@, Mk("failed", e.task, e.n, kind = "transient"))]
          /\ UNCHANGED ready
  /\ UNCHANGED <<rows, thread, seen, inbox, pending, orphaned, services, used>>

\* Mutant of WorkerCrash: the entry was acknowledged before the tool ran.
CrashAfterEarlyAck(w) ==
  /\ Disturb("workerCrash")
  /\ held[w] # NoEvent
  /\ held' = [held EXCEPT ![w] = NoEvent]
  /\ UNCHANGED <<rows, thread, seen, queues, ready, orphaned, services>>

\* The process dies while the tool runs: the entry stays in the group's pending list.
WorkerCrash(w) ==
  /\ Disturb("workerCrash")
  /\ held[w] # NoEvent
  /\ orphaned' = Append(orphaned, held[w])
  /\ held' = [held EXCEPT ![w] = NoEvent]
  /\ UNCHANGED <<rows, thread, seen, queues, ready, services>>

\* The emission of the result raises: "finally: xack" acknowledges the entry all the same.
LoseResult(w) ==
  /\ Disturb("lostResult")
  /\ held[w] # NoEvent
  /\ held' = [held EXCEPT ![w] = NoEvent]
  /\ UNCHANGED <<rows, thread, seen, queues, ready, orphaned, services>>

-----------------------------------------------------------------------------
(* The policy gate and the critic.                                         *)

\* run of services/policy: allow or deny, by engine.evaluate_task
DecidePolicy ==
  /\ toPolicy # <<>>
  /\ \E d \in {"allow", "deny"} :
       stream' = [stream EXCEPT !["policy"] = Append(@, Mk(d, Head(toPolicy).task, 0, FALSE))]
  /\ toPolicy' = Tail(toPolicy)
  /\ UNCHANGED <<rows, thread, seen, inbox, pending, workers, toCritic, used>>

\* run of services/critic: rework when the result has no outputs
Review ==
  /\ toCritic # <<>>
  /\ \E d \in {"accepted", "rework_requested"} :
       stream' = [stream EXCEPT !["critic"] = Append(@, Mk(d, Head(toCritic).task, 0, FALSE))]
  /\ toCritic' = Tail(toCritic)
  /\ UNCHANGED <<rows, thread, seen, inbox, pending, workers, toPolicy, used>>

\* The policy service or the critic dies with an entry in hand: neither ever claims the
\* entries of a consumer that is gone.
LoseCheck ==
  /\ Disturb("serviceCrash")
  /\ toPolicy # <<>>
  /\ toPolicy' = Tail(toPolicy)
  /\ UNCHANGED <<rows, thread, seen, queues, workers, toCritic>>

LoseReview ==
  /\ Disturb("serviceCrash")
  /\ toCritic # <<>>
  /\ toCritic' = Tail(toCritic)
  /\ UNCHANGED <<rows, thread, seen, queues, workers, toPolicy>>

-----------------------------------------------------------------------------
HandleEvent(a) ==
  \/ HandlePlanCreated(a)
  \/ HandleStarted(a)
  \/ HandleCompleted(a)
  \/ RetrySameStep(a)
  \/ GiveUp(a)
  \/ HandleAccepted(a)
  \/ HandleRework(a)
  \/ HandlePolicyDecision(a)

\* A thread that has work goes on with it.
Proceed(x) == DispatchRead(x) \/ DispatchCommit(x) \/ Emit(x) \/ Refresh(x)

\* The loop of an orchestrator thread.
Loop(a) == Deliver(a) \/ NextEntry(a) \/ RecoverPending(a) \/ HandleEvent(a) \/ Ack(a)

ApiStep ==
  \/ \E a \in Api : Loop(a)
  \/ \E x \in Thread : Proceed(x)

Reading == \E x \in Thread : ReadJob(x) \/ ReadTasks(x)

ApiFault == \E a \in Api : HandlerError(a) \/ ApiCrash(a)

HttpRequest ==
  \/ CancelJob
  \/ ContinueJob
  \/ RetryJob
  \/ RetryFailedTasks
  \/ \E t \in Task : RetryTask(t)

Finish(w) == Complete(w) \/ \E kind \in ErrorKind : Fail(w, kind)

WorkerStep == \E w \in Worker : Take(w) \/ Claim(w) \/ Finish(w)

WorkerFault ==
  \/ \E w \in Worker : WorkerCrash(w) \/ LoseResult(w)
  \/ \E w, v \in Worker : Steal(w, v)

ServiceStep == DecidePolicy \/ Review \/ LoseCheck \/ LoseReview

Next == ApiStep \/ Reading \/ ApiFault \/ HttpRequest \/ WorkerStep \/ WorkerFault \/ ServiceStep

Spec == Init /\ [][Next]_vars

\* The threads, the services and the workers run on; nothing forces a request or a fault.
Fairness ==
  /\ \A a \in Api : WF_vars(Loop(a))
  /\ \A x \in Thread : WF_vars(Proceed(x))
  /\ \A w \in Worker : WF_vars(Take(w) \/ Claim(w)) /\ WF_vars(Finish(w))
  /\ WF_vars(DecidePolicy)
  /\ WF_vars(Review)

FairSpec == Spec /\ Fairness

-----------------------------------------------------------------------------
(* Properties.                                                             *)

\* Every variable holds values of its kind, the attempt numbers being in N and the task
\* events in E.
Typed(N, E) ==
  /\ job \in JobStatus
  /\ task \in [Task -> TaskStatus]
  /\ attempts \in [Task -> N]
  /\ reworks \in [Task -> Nat]
  /\ thread \in [Thread -> [pc : Pc,
                            ev : E \cup {PlanCreated, NoEvent},
                            batch : SUBSET Task,
                            snap : [Task -> N],
                            out : SUBSET E,
                            refreshes : Nat,
                            end : End]]
  /\ seen \in [Thread -> [job : JobStatus \cup {"unread"}, derived : JobStatus \cup {"unread"},
                          crossed : BOOLEAN]]
  /\ stream \in [Stream -> Seq(E)]
  /\ inbox \in [Api -> Seq(E)]
  /\ pending \in Seq(E \cup {PlanCreated})
  /\ ready \in Seq(E)
  /\ held \in [Worker -> E \cup {NoEvent}]
  /\ orphaned \in Seq(E)
  /\ toPolicy \in Seq(E)
  /\ toCritic \in Seq(E)
  /\ used \in [Disturbance -> Nat]

\* Every variable holds values of its kind.
TypeOK == Typed(Nat, TaskEvent)

\* The stream entries and executions that still have something to say about task t, as
\* positions, so that two equal entries are two: what is queued for a worker, executing,
\* orphaned, waiting for or coming from the policy gate, or a result not handled yet.
Speaks(e, t) ==
  /\ e # NoEvent
  /\ e.task = t
  /\ e.type \notin {"started", "accepted", "rework_requested"}

InSeq(name, s, t) == {<<name, i>> : i \in {j \in DOMAIN s : Speaks(s[j], t)}}

InFlight(t) ==
  (UNION {InSeq("ready", ready, t), InSeq("orphaned", orphaned, t), InSeq("policy", toPolicy, t),
          InSeq("pending", pending, t), InSeq("tasks", stream["tasks"], t),
          InSeq("decisions", stream["policy"], t)})
  \cup (UNION {{<<"inbox", a, i>> : i \in {j \in DOMAIN inbox[a] : Speaks(inbox[a][j], t)}}
                 : a \in Api})
  \cup {<<"held", w>> : w \in {v \in Worker : Speaks(held[v], t)}}
  \cup {<<"handle", x>> : x \in {y \in Thread : thread[y].pc = "handle" /\ Speaks(thread[y].ev, t)}}
  \cup (UNION {{<<"emit", x, e>> : e \in {f \in thread[x].out : Speaks(f, t)}} : x \in Thread})

\* What a process held in memory was lost with it, and nothing in the code looks for it
\* again: the events an API process was about to emit, a result, a policy check.
Lost ==
  \/ used["apiCrash"] > 0
  \/ used["lostResult"] > 0
  \/ PolicyGate /\ used["serviceCrash"] > 0

\* No task is abandoned: one that the database shows as ready, running or blocked has an
\* entry or an execution in flight that will move it on (task.ready, task.started and
\* task.completed of dispatch_service, worker and orchestrator, taken together), unless
\* something was lost with the process that held it.
NoTaskAbandoned ==
  Lost \/ \A t \in Task : task[t] \in {"ready", "running", "blocked"} => InFlight(t) # {}

\* No task is in flight twice: its tool cannot run twice at once, nor a result of an older
\* execution arrive while a newer one runs.
OneCopyInFlight ==
  \A t \in Task : \A p, q \in InFlight(t) : p = q

\* A job reported as succeeded has every task completed or accepted.
SucceededJobIsDone ==
  job = "succeeded" => \A t \in Task : task[t] \in Done

\* While the tool of a task runs, every dependency of the task is done: what it was given
\* as context is what the plan still holds.
RunsAfterDependencies ==
  \A w \in Worker : held[w] # NoEvent => \A d \in Deps[held[w].task] : task[d] \in Done

\* Retries are bounded: no execution is numbered above max_attempts, whoever scheduled it
\* (enqueue_ready_tasks, the policy decision, the worker's retry or the API's).
RetriesAreBounded ==
  /\ \A t \in Task : attempts[t] <= MaxAttempts
  /\ \A i \in DOMAIN ready : ready[i].n <= MaxAttempts
  /\ \A w \in Worker : held[w] # NoEvent => held[w].n <= MaxAttempts

\* Every change of a task's status is one of TASK_TRANSITIONS.
TaskStatusFollowsMachine ==
  [][\A t \in Task : task'[t] # task[t] => task'[t] \in TaskTransitions[task[t]]]_vars

\* A request that makes the job run again: it hands the request thread a dispatch.
ResumedByRequest == thread[Http].pc = "idle" /\ thread'[Http].pc = "dispatch"

\* A transaction that had read the job before the user canceled it ends.
CrossesCancel == \E x \in Thread : seen[x].crossed /\ ~seen'[x].crossed

\* A job the user canceled stays canceled until the user continues or retries it: no event
\* still in flight brings it back, however late it is handled.  The exception is a
\* transaction that was under way when the cancel was committed, which had read the job
\* before it (_handle_task_started, _refresh_job_status, cancel_job).
CancelSticks ==
  [][job = "canceled" => (job' = job \/ ResumedByRequest \/ CrossesCancel)]_vars

Ended == job \in {"succeeded", "failed"}

\* The outcome reported to the user does not change unless the user asks for a retry.
OutcomeIsFinal ==
  [][Ended => (job' = job \/ ResumedByRequest)]_vars

\* A result of t that no orchestrator has recorded yet.
Reported(t) ==
  LET IsResult(e) == e # NoEvent /\ e.task = t /\ e.type \in {"completed", "failed"}
  IN  \/ \E i \in DOMAIN stream["tasks"] : IsResult(stream["tasks"][i])
      \/ \E i \in DOMAIN pending : IsResult(pending[i])
      \/ \E x \in Api : \/ thread[x].pc = "handle" /\ IsResult(thread[x].ev)
                       \/ \E i \in DOMAIN inbox[x] : IsResult(inbox[x][i])

\* What the queues, the rows and the workers together make of task t.
StateOf(t) ==
  IF task[t] \in Done                                               THEN "done"
  ELSE IF task[t] = "failed"                                        THEN "failed"
  ELSE IF \E w \in Worker : held[w] # NoEvent /\ held[w].task = t   THEN "executing"
  ELSE IF Reported(t)                                               THEN "reported"
  ELSE "waiting"

Promised == INSTANCE PlanRun WITH
              state   <- [t \in Task |-> StateOf(t)],
              outcome <- IF job \in {"succeeded", "failed"} THEN job ELSE "open"

\* The control plane as a whole executes the plan: whatever the order in which starts, results
\* and dispatches are handled, tasks run once their dependencies are done and one execution at
\* a time, no result is lost or recorded twice, and the job ends as its tasks have ended.
ExecutesPlan == Promised!FairSpec

\* The job gets an outcome, unless something was lost with the process that held it.
JobEnds == <>(Ended \/ Lost)
=============================================================================
