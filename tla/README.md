# Agentic workflow studio: specifications and proofs

TLA+ models of the control plane of agentic-workflow-studio: the API's
orchestrator, the workers, the policy gate, the critic, the event outbox, the
planner and the plans of a job, the locks of a run, and the sessions of the chat.
TLC checks them on small instances; TLAPS proves theorems about them for every
value of their constants. Paths below are relative to the repository.

## 1. The system

A user creates a job. The API stores it and emits `job.created`; the planner
asks a language model for a plan and emits `plan.created`; an orchestrator
thread of the API stores the plan as tasks with dependencies and hands out the
tasks that are ready; workers execute them and report; the orchestrator records
what they report, hands out what became ready, and derives the job's status.
All of it goes through Redis Streams with consumer groups (entries are delivered
to one consumer of a group and stay *pending* until acknowledged) and through
rows in Postgres.

| Component | State it keeps | Operations | Talks to |
|---|---|---|---|
| API orchestrator (`services/api/app/main.py:13397-15508`), one thread in each API replica, all in group `api-orchestrator` | job, plan, task, run rows | consume plans, tasks, critic and policy streams; one handler per event type; recover pending entries; recover jobs at start-up | emits `task.ready`, `task.policy_check`, `task.failed` |
| Dispatch (`services/api/app/dispatch_service.py:383-499`) | task rows | `enqueue_ready_tasks` | called by handlers, requests, recovery |
| Job requests (`main.py:20576-20750`) | job and task rows | cancel, continue, retry, retry failed, retry one task, replan, clear | dispatch |
| Event outbox (`dispatch_service.py:70-234`) | table `event_outbox` | `emit_event`; a dispatcher thread in each replica | Redis |
| Worker (`services/worker/app/main.py:1465-1796`), 2 replicas | none but the entry in hand | read or claim `task.ready`, run the tool, report, retry, acknowledge | tasks stream, `tasks.dlq` |
| Policy gate (`services/policy/app/main.py`) | none | allow or deny a `task.policy_check` | policy stream |
| Critic (`services/critic/app/main.py`) | none | accept or rework a `task.completed` | critic stream |
| Planner (`services/planner/app`) | none | plan a job | plans stream |
| Planning and replanning in the API (`main.py:13511-13799, 14245-14529`) | plans, revisions, `pending_replan` | store a plan, supersede a tail, preserve a prefix | planner |
| Run locks (`services/api/app/run_context_service.py:644-758`) | lock rows with an expiry | acquire, refresh, steal, release | agents |
| Agent checkpoints, sub-agents (`main.py:23839-23985`, `libs/harness`) | checkpoint rows | pause, resume, cancel, wait for a sub-agent | worker, API |
| Postgres run scheduler (`main.py:15077-15237`) | run steps | an alternative to `enqueue_ready_tasks` | dispatch |
| Chat sessions (`services/api/app/chat_service.py`) | session row, a cache in each replica | a turn: load, decide, create a job, merge and write back, cache; the orchestrator's message when a workflow ends | job requests, language model |
| Workflows, chat routing, feedback, memory, context, capabilities, MCP, coder, RAG, UI | own rows or none | mostly one request at a time | API |

`PROJECT.json` lists every component with its status and the reason for what is
left out.

**What is hard here.** Each handler is several transactions and several
emissions, and between two of them another thread, another replica or a crash
can come. Delivery is at least once, in order only within one stream and one
consumer; an entry whose handler raised comes again after newer ones. An entry
idle for a minute is claimed although its worker lives. Attempts are counted in
four places (dispatch, policy decision, worker, API retry). No row is locked
(there is no `FOR UPDATE` in the API) and no status of a task is validated.
Two services never claim what a dead consumer left. A user may cancel, continue
or retry at any moment. `PROJECT.json` "hazards" lists these at their lines.

**What makes the components correct.**

* orchestrator, dispatch, worker: no task is abandoned; a task is not in flight
  twice; a tool runs on finished dependencies; attempts are bounded; the job's
  outcome is right, final, and comes.
* requests: a canceled job stays canceled until its user says otherwise.
* outbox: what is committed is delivered, and nothing is settled before.
* planning: a plan is stored only when one was asked for, nobody who waits for one
  is forgotten, finished work survives a replan, a replaced plan does not go on.
* locks: one holder of an unexpired lease, and the row says who.
* chat sessions: a question is answered by one job, answers are kept, no stale
  copy overwrites the session unnoticed, a decision is not lost.

## 2. The modules

```
RunStatus      status vocabulary, transition tables, ready_tasks, derived job status
PlanRun        abstract: what a user is promised of a job's plan
Orchestrator   EXTENDS RunStatus: one job after its plan was stored; implements
               PlanRun by a refinement mapping
  MCOrchestrator (8 configurations)      OrchestratorProofs, DeliveryProofs,
                                         OneReplicaProofs, PlanRunProofs
AtLeastOnce    abstract: what emit_event promises
EventOutbox    the outbox; implements AtLeastOnce by a refinement mapping
  MCEventOutbox                          EventOutboxProofs
Planning       EXTENDS RunStatus: where the plans of one job come from
  MCPlanning                             PlanningProofs
RunLock        one named lock of a run
  MCRunLock                              RunLockProofs
ChatSession    one chat session and its turns
  MCChatSession                          ChatSessionProofs
```

`Planning` and `Orchestrator` are two views of one job: `Orchestrator` starts when
the (only) plan is stored and has all of its execution, `Planning` has several
plans and of an execution only that it is out and comes back with a result.

### Orchestrator

The state is the database rows that matter (`job`, `task`, `attempts`,
`reworks`), the threads of the API (`thread`) and what the transaction of each has
read of the job (`seen`), the streams seen by each consumer group (`stream`, `inbox`, `pending` for `api-orchestrator`; `ready`, `held`,
`orphaned` for the workers; `toPolicy`, `toCritic`) and `used`, the disturbances
so far. An event is its type, its task, its attempt number and whether the API
would call its error retryable.

*One step is one database transaction, or one emission.* A thread goes through
its handler by its `pc`:

```
handle -> dispatch -> commit -> emit* -> refresh* -> (giveUp ->) ack
```

No row is locked, so a transaction may commit what follows from rows that have changed
since it read them. Where that matters the reading is a step of its own: the query of
`enqueue_ready_tasks` (`DispatchRead`), and the job's row in every transaction that writes
the job's status (`ReadJob`), with the tasks a refresh derives it from (`ReadTasks`, later
than the job, as in the code). `Committed` is the write: the status is validated against
what was read, and not written when it remains the same (the ORM leaves such a column
alone). A thread need not read early; it does so only where some other thread could
commit before it (`Overtakable`), because otherwise reading early and reading at the
commit are the same.

| Actions | Code |
|---|---|
| `Deliver`, `NextEntry`, `Ack`, `HandlerError` | `_orchestrator_loop`: one `xreadgroup` returns up to 10 entries of each stream, in the order of the streams; an entry whose handler raises is left unacknowledged and the batch goes on |
| `RecoverPending` | `_recover_pending_events`, between two batches |
| `HandlePlanCreated` | the event again: the plan exists, so only a dispatch |
| `HandleStarted`, `HandleCompleted`, `HandleAccepted`, `HandleRework`, `HandlePolicyDecision` | the handlers of those names |
| `RetrySameStep`, `GiveUp` | `_handle_task_failed`, with `decide_task_failure_recovery` and `_schedule_task_retry_same_step` |
| `DispatchRead`, `DispatchCommit` | `enqueue_ready_tasks`: the query, and the commit of what was computed from it, whatever the rows hold by then |
| `ReadJob`, `ReadTasks` | the queries of the job, and of its tasks, in a transaction that will write the job's status |
| `Emit`, `Refresh` | `emit_event`, the commit of `_refresh_job_status` |
| `ApiCrash` | the process dies, restarts and runs `_recover_jobs` |
| `CancelJob`, `ContinueJob`, `RetryJob`, `RetryFailedTasks`, `RetryTask` | the endpoints of those names |
| `Take`, `Claim`, `Steal`, `Complete`, `Fail`, `WorkerCrash`, `LoseResult` | `run`, `_claim_stale_messages`, `_process_task_ready_message` of the worker; `Steal` claims an entry whose worker is alive, `LoseResult` is the `finally: xack` after an emission that raised |
| `DecidePolicy`, `Review`, `LoseCheck`, `LoseReview` | the loops of the policy gate and the critic, and their death with an entry in hand |

`Init` is the moment after `_handle_plan_created` has committed the plan, on one
replica, before it dispatches.

A disturbance (a request, a raising transaction, a crash, a claim from a live
worker, a lost result, the death of a service) happens as often as the constant
`Faults` allows; `Faults` is a set, so that a configuration may allow either of
two combinations. Every number the model bounds is named: `Faults`,
`MaxAttempts` and `MaxReworks` (both columns of the task), `ReadCount`.

`PlanRun` is the same job without streams, handlers and attempts: a task waits
until its dependencies are done, executes, is repeated or reports, and is recorded
as done or given up with the job; the job succeeds when all are done. The mapping
(`StateOf`): done and failed are what the row says, executing is what a worker
holds, reported is a result in the stream, in a batch, under a handler or unacknowledged. A task
is moved on by the worker, the stream or the row, never by two of them. `PlanRun`
repeats an execution, but not for ever without a report (strong fairness): in
`Orchestrator` that follows from the count of attempts.

### EventOutbox

One `emit_event` call per member of `Event`, at a `pc` that names its next call
(insert, publish, second insert, update); one dispatcher per replica with the
rows of its batch it has yet to publish (`todo`) and those it has published and
not committed (`sent`). A row is its position in the table. Every call to the
database or Redis may fail, *before or after it took effect*: both successors
are in the action. Emitters and dispatchers may die between two calls. Nothing
locks a row, so two dispatchers and the emitter may publish one row each.
`Publish` stands for all retries inside `publish_envelope_to_redis`. The
configuration modelled is the default one, EVENT_OUTBOX_ENABLED.

`AtLeastOnce` is the promise: a *promised* event is *delivered* in the end, and
only delivered events are *settled*. The mapping: promised is what the table or
the stream holds, delivered is what the stream holds, settled is what has a
`published_at`.

### Planning

The state is the job's row and what of its metadata steers planning
(`pending_replan`, `replan_count`, `active_plan_id`), the plans and their task
rows, the plan stream and the requests to the planner, the orchestrator thread,
the request thread (which is the start-up recovery too) and the planner. A task
is identified by its plan and its name; `exec` counts its executions whose result has not
been read, so that an older one may report after a newer one.

What a transaction reads and what it commits are two steps wherever it writes what it has
read: the handlers of `plan.created`, `plan.failed` and `task.failed` and a replan by a user
read the job, its active plan and the rows of that plan (`Read`) and write the whole metadata
column back from that (`WriteBack`), and a replan cancels the rows it has read as unfinished.
A dispatch is its query and its commit of what it has found, whatever the rows hold by
then. `overtaken` is history: the tasks whose row, or whose plan, was written over from an
outdated reading; `handed` how often a task was handed out.

| Actions | Code |
|---|---|
| `PlannerReads`, `PlannerAnswers`, `PlannerDrops` | the loop in `planner/app/runtime_service.py`: one answer for each request; its death, or an answer Redis refuses |
| `TakePlanEvent`, `TakeResult`, `OrchAcks` | `_orchestrator_loop`, entry by entry |
| `ReadPlanEvent`; `RejectPlan`, `DiscardPlan`, `StorePlan`, `HandlePlanFailed` | `_handle_plan_created`, `_handle_plan_failed`: what they read; the checks, the answer nobody waits for, the plan with the preserved prefix, the failed job |
| `ReadFailure`; `ReplanAfterFailure`, `GiveTaskUp` | `_handle_task_failed`: what it reads; a replan, which supersedes what the plan has left, or the end of the job |
| `HandleTaskCompleted` | the handler: the row is completed, whatever it holds |
| `OrchQueries`, `OrchDispatches`; `OrchRefreshes`, `OrchRequests`, `OrchReports` | what a handler does after its commit: the query and the commit of a dispatch; derive the status, emit `job.created`, emit `plan.failed` |
| `ReplanJob`, `HttpReplans` | `POST /replan`: what it reads, what it commits |
| `CancelJob`, `ContinueJob`, `RetryJob`, `CreatePlan` | the other endpoints; `HttpRequests`, `HttpQueries`, `HttpDispatches`, `HttpRefreshes` their later steps |
| `ApiCrash`, `RecoverJob` | the death of the process, and `_recover_jobs` |

### RunLock

`AcquireReads` and `ReleaseReads` are the requests up to their write,
`InsertWrites`, `InsertLoses`, `UpdateWrites`, `DeleteWrites` and `RowIsGone` the
write, which goes by primary key whatever the row holds by then; the unique
constraint guards the first insert only. `Tick` lets time pass; expiries are the
ticks left, so no clock grows. `lease` is what an agent was told. `overtook` and
`expired` are history: a request has written a row that changed since it read
it, and a lease has run out.

### ChatSession

The row keeps what steers later turns: the pending clarification (which turn
asked, what is known, what is open), the active job and workflow run, the
version, the conflict count, and `updated_at`, which only the retry loop's
comparison looks at and which is counted here. `cache` is `_SESSION_CACHE` of
each replica.

| Actions | Code |
|---|---|
| `Load` | `_build_turn_context`: the cached copy if there is one, else the row |
| `Respond`, `RespondAndClear`, `AskClarification`, `SubmitJob`, `RunWorkflow`, `TurnFails` | the outcomes of `_execute_turn`, after the message was mapped to the open fields or taken for another request (`Readings`) |
| `ReadLatest`, `WriteHits`, `WriteMisses`, `GiveUp` | `_persist_chat_session_state`, attempt by attempt, and `_persist_turn`, which logs the third failure |
| `Merged`, `MergePending` | `_merge_session_metadata_for_persistence` and what it does to a clarification |
| `PutCache` | the end of `handle_turn` |
| `ReadSession`, `Deliver` | `_deliver_chat_workflow_terminal_message`, in the orchestrator: the row is read, and written by its key |
| `Restart` | the death of a process with its cache |

What the router and the model make of a message is a choice.

## 3. What TLC checks

The configurations of `Orchestrator` use `MaxAttempts = 2`, `MaxReworks = 1` and all three kinds
of errors. A join (c after a and b) is the smallest plan in which one task waits
for two that end in any order; a chain (b after a) the smallest with an order.
Two attempts are the smallest number in which a retry and an exhausted retry
both occur; two workers the smallest in which two executions overlap.

| Run | Instance | Properties |
|---|---|---|
| `one_replica` | join, 1 replica, 2 workers, no disturbance | `TypeOK`, `OneCopyInFlight`, `SucceededJobIsDone`, `RunsAfterDependencies`, `TaskStatusFollowsMachine`, `ExecutesPlan` |
| `worker_faults` | chain, 2 workers, worker crash + claim of a live execution + lost result, policy `any` | `NoTaskAbandoned`, `RetriesAreBounded`, `JobEnds` |
| `requests` | chain, 1 worker, two requests, or one API crash | `NoTaskAbandoned`, `RetriesAreBounded`, `CancelSticks` |
| `policy_gate` | join, gate on, workers do not retry, one task with inputs that may be invalid, one service death | `OneCopyInFlight`, `RunsAfterDependencies`, `OutcomeIsFinal`, `JobEnds` |
| `critic` | chain, critic on, one service death | `NoTaskAbandoned`, `OutcomeIsFinal`, `JobEnds` |
| `redelivery` | join, one raising transaction anywhere | `OneCopyInFlight`, `OutcomeIsFinal` |
| `outbox` | 2 emissions, 2 dispatchers, batches of 1, 2 database failures, 1 of Redis, 1 death | `DeliversAtLeastOnce`, `LossTakesThreeRefusals` |
| `planning` | 2 independent tasks, at most 3 plans, adaptive with a budget of 1; one replan by a user, or one plan submitted, or one death each of planner and API, or one lost event, or two requests | `TypeOK`, `PlansAreRequested`, `NoRequestForgotten`, `OnlyActivePlanWaits`, `FinishedWorkIsKept`, `WaitEnds` |
| `run_lock` | 3 agents, a lease of 3 ticks | `TypeOK`, `LockIsExclusive`, `RefusedWhileHeld`, `RaceNeedsExpiry` |
| `chat_session` | 3 turns, 2 replicas, 2 fields; two turns at once with restarts or with one delivery, or one at a time with a delivery and restarts or with two deliveries | `TypeOK`, `AnsweredOnce`, `ConflictNeedsOverlap`, `LossTakesTwoWrites`, `StaleWriteIsCounted`, `AnswersKept` |
| `task_machine` (finds a violation) | chain, 2 replicas, no disturbance | `TaskStatusFollowsMachine` |
| `retry_bound` (finds a violation) | chain, worker policy `none`, one claim of a live execution | `RetriesAreBounded` |

`CHECK_DEADLOCK FALSE` because a job or a session ends, and with it everything the
model does; a lock goes on, and its run checks for deadlock.

Bounds of the newer runs. Two tasks are the fewest of which a replan keeps one
and replaces the other; three plans are the first, its replacement, and one more
that nobody should store. Three agents let two steal what a third has let
expire. Three turns are the fewest in which one asks and two answer; two
fields the fewest of which two turns answer different ones. The disturbances of
`planning` are allowed one kind at a time (the planner's and the API's death together),
because each already crosses the automatic replan, and so does the first plan's answer;
the safety of their combinations is left to the theorems. No bound of theirs
cuts off a case in the middle: each guards the start of a turn, a plan or a
disturbance.

* `NoTaskAbandoned`: a task the database shows as ready, running or blocked has
  an entry or an execution in flight that will move it on. It relates the rows to
  seven queues and to what every thread has in hand. It and `JobEnds` except
  three losses by name (`Lost`): the events an API process was about to emit when
  it died, a result whose emission raised, and a policy check in the hands of a
  service that died. The code looks for none of these again. Once one of them has
  happened the properties claim nothing; what they show is that without them nothing
  abandons a task: not a worker's death, a claim of a live execution, a retry, a denial,
  a rework or a user.
* `OneCopyInFlight`: no task is in flight twice, so its tool does not run twice
  at once and no older result arrives late. It holds with one replica, without
  requests and without claims of live executions, also when an entry is
  redelivered after newer ones.
* `RunsAfterDependencies`, `SucceededJobIsDone`, `OutcomeIsFinal`,
  `RetriesAreBounded` are what their names say; the comment above each states it in full.
* `CancelSticks`: a canceled job is not brought back by anything still in flight, except
  by a transaction that had read the job before the cancel and commits after it
  (`CrossesCancel`), which the code allows: `cancel_job` runs in another thread, and nothing
  is compared at the commit.
* `ExecutesPlan`: one replica without disturbances implements `PlanRun`, its
  liveness included. With a raising transaction it does not: `task.started` may be
  handled again after the result, and a task that was done or given up is running.
* `LossTakesThreeRefusals`: an event is lost by a returning `emit_event` only
  after two refusals by the database and one by Redis. The budget of failures in
  the run is exactly that, so the loss occurs.

* `PlansAreRequested`: recovery, redelivery and replans make the planner answer
  more often than it was asked; still no plan is stored that nobody asked for.
  `NoRequestForgotten` relates the job's row to the streams, the planner and the
  two threads: a job that waits for a plan has something under way that ends the
  wait, unless a request came to nothing in one of the ways `dropped` names.
  `WaitEnds` is its liveness. `OnlyActivePlanWaits` and `FinishedWorkIsKept` are
  about late results, recoveries, and what crosses a replan. Both except by name what the
  code does write over from an outdated reading (`overtaken`), and the second a task that was
  handed out twice, of whose results the later one counts; they say that nothing else takes
  back a replacement or a finished task.
* `LockIsExclusive` and `RefusedWhileHeld` hold until a request overwrites a row
  it has not read, and `RaceNeedsExpiry` says when that can be: only after a lease
  has run out.
* `StaleWriteIsCounted`, `AnswersKept`, `AnsweredOnce`: what a turn writes back
  from a copy that others have overwritten. `ConflictNeedsOverlap`: for one
  replica and turns one after the other the cache is sound.
  `LossTakesTwoWrites`: what the three attempts are worth. The orchestrator's
  write, which bumps neither the version nor a cache, is excepted by name
  (`delivered`) wherever it breaks a property.

**Two disagreements with the documents.** (1) `docs/state-machine.md:5` says task
transitions are enforced; `validate_task_transition` has no caller, and with the
two replicas that `deploy/k8s/api.yaml` configures, `task.started` is handled
after `task.completed` and takes the task back to running. (2)
`docs/why-awe.md:56` promises bounded retries; with WORKER_RETRY_POLICY `none`
the API numbers the next attempt from the larger of two numbers of which it
compared only one.

**What does not hold**, found while choosing the instances, and why a property is
checked where it is: with two replicas a task of a join is dispatched twice
(both read it as pending), and most of the properties above fail after it; after
cancel and retry with executions in flight their results count for the new run;
with a critic, a job succeeds before the last verdict, and a later request for
rework runs a task of a finished job; with the policy gate, a job that is canceled
while its tasks are sent to the gate is planning again after the next refresh, because
tasks that are only blocked or pending mean "planning", and `canceled -> planning` is an
allowed transition (a plan with a cycle does the same); and a cancel that commits between
the reading and the commit of a start, a retry, a failure or a refresh is overwritten by it.
None of these contradicts a line of the
documents, so no run is expected to violate them.

In `Planning`:

* a `plan.created` that was under way before a replan is asked for is taken for
  its answer, and the real answer is discarded;
* a replan granted between what the handler of a plan event or of a failure reads and what
  it commits is lost, because the metadata is written back as it was read; the other way
  round, a replan by a user that has read the job before a plan is stored makes the old
  plan the active one again;
* a dispatch that has found a task ready before a replan, and commits after it, makes the
  superseded task ready again, and its workers run it; one that commits after the result of
  another hand-out (a recovery and the orchestrator can dispatch the same task) takes a
  completed row back to ready;
* a replan by a user cancels a task that was completed after the replan had read its row;
* after a retry with an execution in flight, or a recovery that handed a task out again, the
  older execution's failure undoes what the newer one has finished, because nothing tells
  the two apart;
* `plan.created` after a cancel makes the job planning again;
* a late failure of a superseded task fails or replans whatever plan is active;
* a failed job with a replan pending refuses further replans, and a retry leaves
  it pending with nothing under way; a retry of a job whose planner failed emits
  no `job.created`; a restart passes over failed jobs;
* a retry of a job or a submitted plan leaves tasks of two plans waiting;
* a replan with the last results still in flight may end as a succeeded job with
  a replan pending, on which the new plan is then stored;
* two HTTP replans that race exceed the budget, and two replicas that handle two
  answers both store one (the run has one request thread and one replica).

In `RunLock`: two agents that find the same expired lock both get it; an expired
holder's release deletes the new holder's row; a refresh of a row that was stolen
meanwhile writes the expiry only, so it prolongs the thief's lease.

In `ChatSession`:

* the attempt after a failed comparison expects what the failed one had read, so
  three attempts absorb one concurrent write; with two, the turn's decision is
  lost (its job is not), and the conflict is logged where a caller waits for 409;
* a stale copy resurrects a cleared clarification or overwrites `active_job_id`;
  the conflict is counted in the metadata and nothing reads the count;
* a turn that was given up puts the copy it had loaded into the cache again, and
  of two puts the older may come last;
* the orchestrator's delivery does not bump the version: a turn that loaded before
  it brings the finished job back as the active one, uncounted, and a turn that
  persisted between its read and its write is overwritten as a whole. A delivery
  that comes before its turn has persisted clears nothing, and the job stays
  active for good.

**Fairness.** Each orchestrator thread goes on with its loop and each thread with
the handler it is in (daemon threads in endless loops; every exception is caught
inside the loop); a worker with work takes it and finishes it (a tool call has a
time limit); the policy gate and the critic go on. `Finish` is fair as a whole:
nothing says which outcome, so a tool that always fails is a fair behaviour. No
request, fault or loss is ever forced. In the outbox the dispatchers' loops go
on, whether their calls succeed or fail, and failures are finitely many; nothing
is assumed of the emitters. In `Planning` the planner's loop, the orchestrator
thread and the request thread (a request, once begun, is carried through) are each
weakly fair; the user, crashes and losses are not. An execution's result is there when the
orchestrator reads it (`TakeResult`), and no liveness property waits for one in particular. `RunLock` and
`ChatSession` state safety only: a request that is refused is not retried by
anybody, and a turn that waits for a language model may fail.

## 4. What is proved

`OrchestratorProofs`:

* `TypeCorrect` (`Spec => []TypeOK`) and `RetriesBounded`
  (`RetryPolicy # "none"` implies `Spec => []RetriesAreBounded`), for every plan,
  any number of replicas and workers, any limit, any set of faults, any number of
  requests. Neither invariant is inductive: an attempt number travels from a row
  into a snapshot, an event, a queue, a worker's hand, a pending list and back
  into the row. The strengthening is `Inv(N, E)`: *every* number in the state is
  in N and *every* event in E. For types N is `Nat`; for the bound N is
  `0..MaxAttempts` and E the events whose number is in N, with one more fact: a
  `failed` event the API would retry has a number equal to the limit, so that the
  API's own retry never fires. That fact is where the workers' retry policy
  enters: a worker that retries reports a retryable failure only at its last
  attempt. One induction over all actions serves both theorems; what it needs of
  N and E (`Closed`) is proved for each.

The other proofs about `Orchestrator` build on each other (each module extends the one
before), and each says what it assumes. The assumptions are about the constants, and
each is needed: section 3 says what happens without it.

| Theorem | Property | Replicas | Requests, critic, API crash, claim of a live execution | Handlers that raise | Policy gate, inputs, retries |
|---|---|---|---|---|---|
| `NothingAbandoned` | `NoTaskAbandoned` | one | any | none | any |
| `CancelFinal` | `CancelSticks` | one | any | any | no gate, a plan without a cycle |
| `OutcomeFinalUngated` | `OutcomeIsFinal` | one | critic and claims; no request, no crash of the API | any | no gate, a plan without a cycle |
| `OneCopy`, `OutcomeFinal` (`Calm`) | `OneCopyInFlight`, `OutcomeIsFinal` | one | none | any, if there is no gate and the workers retry | any |
| `DependenciesFirst`, `SuccessIsComplete` (`Steady`) | `RunsAfterDependencies`, `SucceededJobIsDone` | one | none | none | any |
| `MachineFollowed`, `PlanExecuted` (`Plain`) | `TaskStatusFollowsMachine`, the safety of `ExecutesPlan` | one | none | none | no gate, valid inputs, the workers retry |

The plan, the number of tasks and workers, the limits, the deaths of workers, the results
lost and the sizes of the queues are arbitrary in all of them. How the arguments go:

* `DeliveryProofs` first says which events can be where (`Kinds`), for any number of
  replicas. `Backed` is then the invariant of `NothingAbandoned`: what makes a row ready,
  running or blocked has something after it, *in the order in which it will be handled*,
  or something still at work. The row alone would not do: a start sets a task to running
  whatever has become of the task, so each start that waits must have its result behind
  it (`Unfollowed`).
* `CancelFinal` and `OutcomeFinalUngated`, in `DeliveryProofs` too. Whatever arrives late,
  `_set_job_status` refuses to take a job that is over back to running; what it allows for a
  canceled or failed job is "planning", which a user's request writes and which a refresh
  derives when tasks only wait. `Accounted` says that it never does for such a job: a refresh
  comes after a dispatch of its own thread, a dispatch that finds a ready task leaves it
  ready or failed, and one that finds none means, without a cycle, that something is
  running or has failed or that all is done (`Stirring`). The request thread may reset
  tasks in between, but then it dispatches before it is idle again, and only while it is idle
  is a job canceled. A gate leaves tasks blocked instead, and a second replica can refresh
  between another's write and its dispatch: both are excluded, and so is a cycle.
  `Informed` is about what transactions have read: as long as a job stays canceled, what each
  knows of it was read after the cancel, and then it is right and no longer says "planning",
  or the cancel has marked it as crossed, which `CancelSticks` excepts. For
  `OutcomeFinalUngated` there is nobody who could commit in between (`NobodyOvertakes`). The
  planner removes one where it limits the depth of a plan (`_task_depths`); a plan that a
  user submits is stored as it is.
* `OneReplicaProofs`: `Tidy` counts the copies of a task at ten places (queues, hands, the
  stream, the batch, what is about to be emitted): at most one, at one place, and none of
  a task that is pending. That is why a dispatch, which reads and commits in two steps,
  hands nothing out twice: between the two, only this thread could have. When handlers
  raise, an entry is a copy until it is acknowledged. `Sunk` is for `OutcomeFinal`:
  a failed job has a task that failed it and has no copy left that could hide that, so
  that no refresh derives "running" or "succeeded" for it.
* `PlanRunProofs`: `Line` is the list of the workers' reports in the order in which the
  replica will have handled them, from the entry in its hand to the end of the stream.
  `Ordered` says that no start is behind a result of its task in it, and that a task
  that is done has neither a copy nor a start left; so nothing takes a done task back, and
  dependencies stay done. `Stepwise` adds that a result is behind its start or finds
  its task running, and that a failed task has failed the job and has nothing left.
* `PlanExecuted`: `StateOf`, the mapping, looks at every queue; `ViewIs` shows that under
  the invariants it equals `Where`, which looks at the row, the workers' hands and `Line`.
  Each action is then one step: taking an entry is `Start` (by `Ordered` its
  dependencies are done), a result `Report`, a death or a retry `Retry`, the
  handler of a result `Record` or `GiveUp`, a refresh that ends the job `Succeed`; moving
  entries along, starts, dispatches and emissions are stutters.

`EventOutboxProofs`:

* `LossIsRare` (`Spec => []LossTakesThreeRefusals`). The strengthening `OutboxInv`
  says which row a call holds and that it holds its own event, that whatever a
  call or a dispatcher is about to mark is on the stream already, and which
  refusals a call without a row must have met at its `pc`.
* `OutboxImplementsAtLeastOnce` (`Spec => Promised!Spec`): from the same invariant,
  every step of the outbox is a `Promise`, a `Deliver`, a `Settle` or a stutter.

`RunLockProofs`, for any number of agents and any lease:

* `LockTypeCorrect`, `Exclusive` (`LockIsExclusive`), `BlocksWhileHeld`
  (`RefusedWhileHeld`) and `NoRaceInTime` (`RaceNeedsExpiry`), from one inductive
  invariant, `LockInv`. `LockIsExclusive` says nothing of a request between its
  reading and its writing, so it is not inductive; `KnowsRow` adds what such a
  request still knows of the row while nobody has written it, and `InTime` that
  while no lease has run out, an update or a delete under way is the holder's own.

`PlanningProofs`, for every plan, any budget of replans, any number of plans and any
combination of disturbances:

* `PlanningTypeCorrect`, `PlansRequested` (`PlansAreRequested`) and
  `RequestRemembered` (`NoRequestForgotten`), from `PlanningInv`. The count alone is
  not inductive: a plan may be stored because a replan is pending, or was pending
  when the handler read the job, and a handler may write a pending replan back.
  `PlansCounted` says that in each case a granted replan has no plan yet (storing clears
  what is pending, and a second replan is refused until then); `ActiveStored` that the
  active plan is a stored one, so that "no active plan" means that there is none.
  `Remembered` drops the job's status from the wait, because a canceled job may be
  continued; an answer in hand that will be discarded does not end the wait, so another one
  must be coming; and a failure in hand whose reading has a pending replan, which it will
  write back, needs one too.
* `ReplacedPlansRest` (`OnlyActivePlanWaits`) from `Handover`: until a user retries
  the job or submits a plan, a row that waits to be executed and was not overtaken is of
  the active plan, and no replan is pending then; and a handler or a replan by a user that
  has read the plan such a row belongs to has read the row too, and the handler saw no replan
  pending. The second part is what makes the first inductive: what is stored or canceled
  is decided by the reading.
* `FinishedWorkStays` (the action property `FinishedWorkIsKept`), for every combination of
  disturbances. `Reported` is about tasks that were handed out once: a task has no more
  executions than it was handed out; one that was never handed out has no report and is not
  finished; a report that was taken leaves no execution; all reports there are of a task
  agree; and a finished row has only reports of its completion. Without the exceptions of
  the property it is false, and TLC finds each: the failure of an execution that a retry
  left in flight, a recovery whose dispatch commits after the orchestrator's has been
  answered, and a replan by a user that cancels what it has read as unfinished.

`ChatSessionProofs`, for any number of turns, replicas, fields and deliveries:

* `ChatTypeCorrect`, `LossNeedsTwoWrites` (`LossTakesTwoWrites`) and the action
  property `StaleWritesCounted` (`StaleWriteIsCounted`), from `ChatInv`. `CopiesKnown`
  is about every copy of the session there is, in a cache, or loaded or read by a
  turn: it is as old as its `updated_at` says, and unless a delivery came after it
  a copy of the current version decides like the row. `Attempts` is each turn's
  account of its attempts: what an attempt expects was loaded or read before it,
  and a comparison that failed means that the row was written after that.
* `AnswersStay` (the action property `AnswersKept`), from the same invariant: a turn
  merges into what it has read, and a write by anybody but a delivery is of a row that was
  read in the same version.
* `OneAnswer` (`AnsweredOnce`). `Questions` says that every question in a copy, and every
  question a turn answers, was asked by a turn that has persisted, so no question is
  taken for a later one. `Settled`, while nothing has happened that the property
  excepts: a copy of the row's version has the row's question, and a turn that has
  persisted its answer left a row that does not ask it any more.
* `OneReplicaIsSound` (`ConflictNeedsOverlap`). `Served` says which replicas can have a
  copy at all; `InTurn`, for one replica, turns one after the other and at most one
  delivery, that a cached or loaded copy is never behind the version, and behind the row
  by the one delivery at most, which the second attempt absorbs.

Assumptions are those of the modules (`OrchestratorAssumption`,
`OutboxAssumption`, `RunLockAssumption`, `PlanningAssumption`,
`ChatSessionAssumption`): limits are natural numbers, marks for "no entry", "no
task" and the like are not entries or tasks. TLC evaluates them in every run.

Every safety property that a passing run checks is thus proved, under assumptions that
hold in that run. Only model-checked: liveness (`JobEnds`, the fairness half of
`ExecutesPlan` and of `DeliversAtLeastOnce`, `WaitEnds`), which is out of the prover's
reach. Outside of the assumptions of a theorem nothing is claimed: `NoTaskAbandoned` with a
raising handler, `OutcomeIsFinal` with requests, anything but types and bounded retries with
two replicas.

## 5. What the models leave out

* A transaction is one step, except where it commits what follows from what it has read
  while others may have committed: `Orchestrator` has the job's row and the query of a
  dispatch read apart, `Planning` the metadata, the active plan, the rows a replan cancels
  and the query of a dispatch. What is still one step: the task's own row in a handler; the
  rows a retry resets; in `Planning` the job's row in a refresh, and the endpoints other than
  replan; between the parts of one reading (the job, then its plan, then the rows) nothing
  happens, but for a refresh in `Orchestrator`. There is one request thread, so that
  requests do not cross each other. `_handle_policy_decision` commits twice in one step.
* An entry is handed to another orchestrator only when its handler raised or its
  process died, not while a slow replica still works on it.
* In `Orchestrator`: adaptive planning mode and replans (`Planning` has them),
  checkpoint replays, the Postgres scheduler; one plan, which is stored already. The attempt bound is about tasks without step
  checkpoints: a checkpoint buys extra attempts of its own.
* Heartbeats, the dead-letter stream, memory, artifacts and metrics: no property
  depends on them. Rewrites by the policy gate change inputs only.
* Redis and Postgres do not lose what they have accepted. The outbox's duplicates
  and its late deliveries are not fed into `Orchestrator`.
* In `Planning`: the retry of a task in place (`Orchestrator` has it), the
  evaluator's replans, `task.started`, the content of a plan, more than one
  replica and more than one request at a time.
* In `RunLock`: agents ask one thing at a time and all with the same lease; nothing
  in the repository calls the locks' endpoints, so who asks is a choice.
* In `ChatSession`: messages, titles, a workflow's pending input, user profiles.
  A job may end at any time after its turn has created it; the message about it is
  delivered once, as `chat_workflow_terminal_message_id` of the job has it.
* Components without a model. Agent checkpoints and sub-agents: a checkpoint is
  saved without the id of its run, so no resume finds it, and sub-agents become
  jobs only with API_URL set, which no deployment file does. The Postgres
  scheduler is off by default. Workflow definitions, run context, memory and
  feedback are reads and writes of independent rows by one request. Chat routing,
  intent, context projection and RAG transform text and dictionaries and keep no
  state; coder, MCP and the UI are input and output. `PROJECT.json` has the reason
  for each.
* A request whose own transaction raises leaves nothing behind but the error.

## 6. The plan

Order of work, the most important behaviour first. Done: `RunStatus`,
`PlanRun`, `Orchestrator`, `AtLeastOnce`, `EventOutbox`, `Planning`, `RunLock`,
`ChatSession`, their runs, and the theorems of section 4.

1. Proofs: what survives a raising handler of `NoTaskAbandoned`, with its exceptions named.
2. Claims of entries from a live replica, and duplicates from the outbox in `Orchestrator`,
   with the properties that survive two replicas; several requests at once.
3. Checkpoint replays of a worker and the bound they put on attempts.
