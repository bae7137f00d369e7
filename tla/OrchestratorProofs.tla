-------------------------- MODULE OrchestratorProofs --------------------------
(***************************************************************************)
(* What holds of Orchestrator for every plan, every number of workers and  *)
(* API replicas and every combination of disturbances: every variable      *)
(* keeps to its type, and retries are bounded when the workers retry.      *)
(*                                                                         *)
(* Both follow from one inductive invariant, Inv(N, E): attempt numbers    *)
(* lie in N, task events in E.  It is preserved whenever N and E are       *)
(* closed under what the program does with them (Closed).  The types are   *)
(* the case N = Nat, E = TaskEvent; the bound is the case where N ends at  *)
(* MaxAttempts and only a last attempt fails with a retryable error.       *)
(***************************************************************************)
EXTENDS Orchestrator, SequenceTheorems, TLAPS

\* What a thread is, its counts in N and its events in E.
ThreadRecord(N, E) ==
  [pc : Pc, ev : E \cup {PlanCreated, NoEvent}, batch : SUBSET Task, snap : [Task -> N],
   out : SUBSET E, refreshes : Nat, end : End]

\* A thread that will acknowledge an entry, or give its task up, has that entry in hand; an
\* orchestrator at work has one.
Consistent(x, r, E) ==
  /\ r.end # "idle" => r.ev # NoEvent
  /\ r.end = "giveUp" => r.ev \in E
  /\ r.pc = "handle" => r.end # "idle"
  /\ r.pc = "giveUp" => r.end = "giveUp"
  /\ r.pc = "refresh" => r.refreshes > 0
  /\ x \in Api /\ r.pc # "idle" => r.end # "idle"

Threads(N, E) ==
  {f \in [Thread -> ThreadRecord(N, E)] : \A x \in Thread : Consistent(x, f[x], E)}

\* What transactions have read of the job.
Readings ==
  [Thread -> [job : JobStatus \cup {"unread"}, derived : JobStatus \cup {"unread"},
              crossed : BOOLEAN]]

\* The rows with what was read of them, and the queues: everything but the threads.
RowsTyped(N) ==
  /\ job \in JobStatus
  /\ task \in [Task -> TaskStatus]
  /\ attempts \in [Task -> N]
  /\ reworks \in [Task -> Nat]
  /\ seen \in Readings

QueuesTyped(E) ==
  /\ stream \in [Stream -> Seq(E)]
  /\ inbox \in [Api -> Seq(E)]
  /\ pending \in Seq(E \cup {PlanCreated})
  /\ ready \in Seq(E)
  /\ held \in [Worker -> E \cup {NoEvent}]
  /\ orphaned \in Seq(E)
  /\ toPolicy \in Seq(E)
  /\ toCritic \in Seq(E)
  /\ used \in [Disturbance -> Nat]

\* The inductive invariant.
Inv(N, E) == RowsTyped(N) /\ QueuesTyped(E) /\ thread \in Threads(N, E)

\* N and E are closed under what the program does with attempt numbers and with events.
Closed(N, E) ==
  /\ N \subseteq Nat
  /\ 0 \in N
  /\ E \subseteq TaskEvent
  /\ \A e \in E : e.n \in N
  /\ \A type \in EventType, t \in Task, n \in N : Mk(type, t, n, FALSE) \in E
  /\ \A n \in N : n + 1 <= MaxAttempts => n + 1 \in N
  /\ \A e \in E, n \in N : RetriesSameStep(e) => (IF e.n > n THEN e.n ELSE n) + 1 \in N
  /\ \A e \in E, kind \in ErrorKind :
       IF ShouldRetry(kind, e.n) THEN e.n + 1 \in N
       ELSE Mk("failed", e.task, e.n, kind = "transient") \in E

-----------------------------------------------------------------------------
(* The operators the actions are built from.                               *)

\* One thread moves: the others stay what they were.
LEMMA ThreadsUpdate ==
  ASSUME NEW N, NEW E, NEW f \in Threads(N, E), NEW x \in Thread,
         NEW r \in ThreadRecord(N, E), Consistent(x, r, E)
  PROVE  [f EXCEPT ![x] = r] \in Threads(N, E)
<1> DEFINE g == [f EXCEPT ![x] = r]
<1>1. g \in [Thread -> ThreadRecord(N, E)]
  BY DEF Threads
<1>2. ASSUME NEW y \in Thread PROVE Consistent(y, g[y], E)
  <2>1. CASE y = x
    BY <2>1 DEF Threads
  <2>2. CASE y # x
    <3>1. g[y] = f[y]
      BY <2>2 DEF Threads
    <3> QED
      BY <3>1 DEF Threads
  <2> QED
    BY <2>1, <2>2
<1> QED
  BY <1>1, <1>2 DEF Threads

\* Settle sends a thread at work to what is left of its handler.
LEMMA SettleTyped ==
  ASSUME NEW N, NEW E, thread \in Threads(N, E), NEW x \in Thread,
         NEW r \in ThreadRecord(N, E), Settle(x, r),
         r.end # "idle" => r.ev # NoEvent,
         r.end = "giveUp" => r.ev \in E,
         x \in Api => r.end # "idle"
  PROVE  thread' \in Threads(N, E)
<1> DEFINE next == CASE r.out # {}                     -> "emit"
                     [] r.out = {} /\ r.refreshes > 0  -> "refresh"
                     [] r.out = {} /\ r.refreshes = 0  -> r.end
<1>1. r.refreshes \in Nat /\ r.end \in End
  BY DEF ThreadRecord
<1>2. next \in {"emit", "refresh", r.end} /\ (next = "refresh" => r.refreshes > 0)
  BY <1>1 DEF End
<1>3. thread' = [thread EXCEPT ![x] = [r EXCEPT !.pc = next]]
  BY DEF Settle
<1> HIDE DEF next
<1>4. [r EXCEPT !.pc = next] \in ThreadRecord(N, E)
  BY <1>1, <1>2 DEF ThreadRecord, Pc, End
<1>5. Consistent(x, [r EXCEPT !.pc = next], E)
  BY <1>1, <1>2 DEF ThreadRecord, Consistent, End
<1> QED
  BY <1>3, <1>4, <1>5, ThreadsUpdate

\* GoDispatch sends a thread to enqueue_ready_tasks.
LEMMA GoDispatchTyped ==
  ASSUME NEW N, NEW E, thread \in Threads(N, E), NEW x \in Thread,
         NEW r \in ThreadRecord(N, E), NEW n \in Nat, GoDispatch(x, r, n),
         r.end # "idle" => r.ev # NoEvent,
         r.end = "giveUp" => r.ev \in E,
         x \in Api => r.end # "idle"
  PROVE  thread' \in Threads(N, E)
<1> DEFINE s == [r EXCEPT !.pc = "dispatch", !.refreshes = n]
<1>1. s \in ThreadRecord(N, E) /\ Consistent(x, s, E)
  BY DEF ThreadRecord, Consistent, Pc
<1>2. thread' = [thread EXCEPT ![x] = s]
  BY DEF GoDispatch
<1> HIDE DEF s
<1> QED
  BY <1>1, <1>2, ThreadsUpdate

\* An idle thread, and a thread given an entry.
LEMMA IdleTyped ==
  ASSUME NEW N, NEW E, 0 \in N, NoEvent \notin E \cup {PlanCreated}, NEW x \in Thread
  PROVE  /\ Idle \in ThreadRecord(N, E) /\ Consistent(x, Idle, E)
         /\ \A e \in E \cup {PlanCreated} :
              Handle(e) \in ThreadRecord(N, E) /\ Consistent(x, Handle(e), E)
BY DEF Idle, Handle, ThreadRecord, Consistent, Pc, End, NoCount

\* A job's status stays one.
LEMMA SetJobStatusTyped ==
  ASSUME NEW s \in JobStatus, NEW t \in JobStatus
  PROVE  SetJobStatus(s, t) \in JobStatus
BY DEF SetJobStatus, JobStatus

\* What _refresh_job_status derives is a job status.
LEMMA DerivedJobStatusTyped ==
  ASSUME NEW S PROVE DerivedJobStatus(S) \in JobStatus
BY DEF DerivedJobStatus, JobStatus, Done

\* What a transaction knows of the job, and what it commits, are job statuses; a transaction
\* that is over has read nothing.
LEMMA CommittedTyped ==
  ASSUME NEW N, RowsTyped(N), NEW x \in Thread
  PROVE  /\ JobRead(x) \in JobStatus
         /\ StatusRead(x) \in JobStatus
         /\ \A new \in JobStatus : Committed(x, new) \in JobStatus
         /\ Unread \in [job : JobStatus \cup {"unread"}, derived : JobStatus \cup {"unread"},
                         crossed : BOOLEAN]
         /\ Forget(x) => seen' \in Readings
<1>1. JobRead(x) \in JobStatus /\ StatusRead(x) \in JobStatus
  BY DerivedJobStatusTyped DEF JobRead, StatusRead, DerivedStatus, RowsTyped, Readings
<1>2. \A new \in JobStatus : Committed(x, new) \in JobStatus
  BY <1>1, SetJobStatusTyped DEF Committed, RowsTyped
<1>3. Unread \in [job : JobStatus \cup {"unread"}, derived : JobStatus \cup {"unread"},
                  crossed : BOOLEAN]
  BY DEF Unread
<1>4. Forget(x) => seen' \in Readings
  BY <1>3 DEF Forget, RowsTyped, Readings
<1> QED
  BY <1>1, <1>2, <1>3, <1>4

\* Reading preserves the invariant.
LEMMA ReadingTyped ==
  ASSUME NEW N, NEW E, Inv(N, E), Reading
  PROVE  Inv(N, E)'
<1>1. PICK x \in Thread : ReadJob(x) \/ ReadTasks(x)
  BY DEF Reading
<1>2. seen' \in Readings
  BY <1>1, DerivedJobStatusTyped
  DEF ReadJob, ReadTasks, DerivedStatus, Inv, RowsTyped, Readings
<1> QED
  BY <1>1, <1>2
  DEF ReadJob, ReadTasks, Inv, RowsTyped, QueuesTyped, rows, queues, workers, services

\* Queues: what is appended, taken and left.
LEMMA QueueTyped ==
  ASSUME NEW S, NEW q \in Seq(S)
  PROVE  /\ \A e \in S : Append(q, e) \in Seq(S)
         /\ q # <<>> => Head(q) \in S /\ Tail(q) \in Seq(S)
BY HeadTailProperties

\* The entry in the hand of a thread that handles it is about a task, unless it is plan.created.
LEMMA InHand ==
  ASSUME NEW N, NEW E, Closed(N, E), thread \in Threads(N, E), NEW x \in Thread,
         thread[x].pc \in {"handle", "giveUp"}, thread[x].ev # PlanCreated
  PROVE  /\ thread[x].ev \in E
         /\ thread[x].ev.task \in Task
         /\ thread[x].ev.n \in N
         /\ thread[x].ev.type \in EventType
<1>1. thread[x].ev \in E
  BY DEF Threads, ThreadRecord, Consistent
<1> QED
  BY <1>1 DEF Closed, TaskEvent

\* Handling an event of a task: the entry is not plan.created.
LEMMA TaskHandler ==
  ASSUME NEW x, NEW type \in EventType, Handling(x, type)
  PROVE  thread[x].pc = "handle" /\ thread[x].ev # PlanCreated
BY DEF Handling, EventType, PlanCreated, Mk

-----------------------------------------------------------------------------
(* The steps of the API's threads.                                         *)

\* What xreadgroup returns of a stream and what it leaves.
LEMMA BatchTyped ==
  ASSUME NEW S, NEW q \in Seq(S)
  PROVE  Oldest(q) \in Seq(S) /\ Remaining(q) \in Seq(S)
<1>1. Len(q) \in Nat /\ \A i \in 1 .. Len(q) : q[i] \in S
  OBVIOUS
<1>2. \A m \in Int, n \in Int : 1 <= m /\ n <= Len(q) => SubSeq(q, m, n) \in Seq(S)
  <2>1. ASSUME NEW m \in Int, NEW n \in Int, 1 <= m, n <= Len(q)
        PROVE  SubSeq(q, m, n) \in Seq(S)
    <3>1. \A i \in m .. n : q[i] \in S
      BY <1>1, <2>1
    <3> QED
      BY <3>1, SubSeqProperties
  <2> QED
    BY <2>1
<1>3. Oldest(q) \in Seq(S)
  BY <1>1, <1>2 DEF Oldest, ReadCount
<1>4. Len(Oldest(q)) + 1 \in Int /\ 1 <= Len(Oldest(q)) + 1
  BY <1>3
<1> QED
  BY <1>1, <1>2, <1>3, <1>4 DEF Remaining

\* Reading the streams, beginning with an entry and acknowledging it preserve the invariant.
LEMMA DeliverTyped ==
  ASSUME NEW N, NEW E, Closed(N, E), Inv(N, E), NEW a \in Api,
         Deliver(a) \/ NextEntry(a) \/ RecoverPending(a) \/ Ack(a)
  PROVE  Inv(N, E)'
<1>1. /\ a \in Thread
      /\ Idle \in ThreadRecord(N, E) /\ Consistent(a, Idle, E)
      /\ \A e \in E \cup {PlanCreated} :
           Handle(e) \in ThreadRecord(N, E) /\ Consistent(a, Handle(e), E)
  BY IdleTyped, OrchestratorAssumption DEF Closed, Thread
<1>2. CASE Deliver(a)
  <2> DEFINE batch == Oldest(stream["tasks"]) \o Oldest(stream["critic"])
                        \o Oldest(stream["policy"])
  <2>1. \A s \in Stream : stream[s] \in Seq(E)
    BY DEF Inv, QueuesTyped
  <2>2. \A s \in Stream : Oldest(stream[s]) \in Seq(E) /\ Remaining(stream[s]) \in Seq(E)
    BY <2>1, BatchTyped
  <2>3. batch \in Seq(E)
    BY <2>2, ConcatProperties DEF Stream
  <2>4. /\ batch # <<>>
        /\ thread' = [thread EXCEPT ![a] = Handle(Head(batch))]
        /\ inbox' = [inbox EXCEPT ![a] = Tail(batch)]
        /\ stream' = [s \in Stream |-> Remaining(stream[s])]
    BY <1>2 DEF Deliver
  <2> HIDE DEF batch
  <2>5. Head(batch) \in E /\ Tail(batch) \in Seq(E)
    BY <2>3, <2>4, QueueTyped
  <2>6. stream' \in [Stream -> Seq(E)] /\ inbox' \in [Api -> Seq(E)]
    BY <2>2, <2>4, <2>5 DEF Inv, QueuesTyped
  <2>7. thread' \in Threads(N, E)
    BY <1>1, <2>4, <2>5, ThreadsUpdate DEF Inv
  <2> QED
    BY <1>2, <2>6, <2>7 DEF Deliver, Inv, RowsTyped, QueuesTyped, rows, workers, services
<1>3. CASE NextEntry(a)
  <2>1. inbox[a] \in Seq(E) /\ inbox[a] # <<>>
    BY <1>3 DEF NextEntry, Inv, QueuesTyped
  <2>2. Head(inbox[a]) \in E /\ Tail(inbox[a]) \in Seq(E)
    BY <2>1, QueueTyped
  <2>3. inbox' \in [Api -> Seq(E)]
    BY <1>3, <2>2 DEF NextEntry, Inv, QueuesTyped
  <2>4. thread' \in Threads(N, E)
    BY <1>1, <1>3, <2>2, ThreadsUpdate DEF NextEntry, Inv
  <2> QED
    BY <1>3, <2>3, <2>4 DEF NextEntry, Inv, RowsTyped, QueuesTyped, rows, workers, services
<1>4. CASE RecoverPending(a)
  <2>1. Head(pending) \in E \cup {PlanCreated} /\ pending' \in Seq(E \cup {PlanCreated})
    BY <1>4, QueueTyped DEF RecoverPending, Inv, QueuesTyped
  <2>2. thread' \in Threads(N, E)
    BY <1>1, <1>4, <2>1, ThreadsUpdate DEF RecoverPending, Inv
  <2> QED
    BY <1>4, <2>1, <2>2 DEF RecoverPending, Inv, RowsTyped, QueuesTyped, rows, workers, services
<1>5. CASE Ack(a)
  <2>1. thread' \in Threads(N, E)
    BY <1>1, <1>5, ThreadsUpdate DEF Ack, Inv
  <2> QED
    BY <1>5, <2>1 DEF Ack, Inv, RowsTyped, QueuesTyped, rows, queues, workers, services
<1> QED
  BY <1>2, <1>3, <1>4, <1>5

\* A handler that leaves the queues alone and keeps the rows and the threads typed.
LEMMA HandlerFrame ==
  ASSUME NEW N, NEW E, Inv(N, E), RowsTyped(N)', thread' \in Threads(N, E),
         UNCHANGED <<queues, workers, services, used>>
  PROVE  Inv(N, E)'
BY DEF Inv, QueuesTyped, queues, workers, services

\* Every handler preserves the invariant.
LEMMA HandleEventTyped ==
  ASSUME NEW N, NEW E, Closed(N, E), Inv(N, E), NEW a \in Api, HandleEvent(a)
  PROVE  Inv(N, E)'
<1> DEFINE r == thread[a]
           t == r.ev.task
<1>1. /\ a \in Thread
      /\ thread \in Threads(N, E)
      /\ r \in ThreadRecord(N, E)
      /\ r.pc # "idle" => r.end # "idle" /\ r.ev # NoEvent
      /\ r.end = "giveUp" => r.ev \in E
  BY DEF Inv, Threads, Thread, Consistent
<1>2. CASE HandlePlanCreated(a)
  <2>1. GoDispatch(a, r, 1) /\ r.pc # "idle"
    BY <1>2 DEF HandlePlanCreated, Handling
  <2>2. thread' \in Threads(N, E)
    BY <1>1, <2>1, GoDispatchTyped
  <2> QED
    BY <1>2, <2>2, HandlerFrame DEF HandlePlanCreated, Inv, RowsTyped, rows
<1>3. CASE HandleStarted(a)
  <2>1. r.pc = "handle" /\ t \in Task /\ r.ev.n \in N
    BY <1>1, <1>3, InHand, TaskHandler DEF HandleStarted, EventType
  <2>2. RowsTyped(N)'
    BY <1>1, <1>3, <2>1, CommittedTyped DEF HandleStarted, Inv, RowsTyped, JobStatus, TaskStatus
  <2>3. thread' \in Threads(N, E)
    BY <1>1, <1>3, <2>1, SettleTyped DEF HandleStarted
  <2> QED
    BY <1>3, <2>2, <2>3, HandlerFrame DEF HandleStarted
<1>4. CASE HandleCompleted(a)
  <2>1. r.pc = "handle" /\ t \in Task
    BY <1>1, <1>4, InHand, TaskHandler DEF HandleCompleted, EventType
  <2>2. RowsTyped(N)'
    BY <1>4, <2>1 DEF HandleCompleted, Inv, RowsTyped, TaskStatus
  <2>3. thread' \in Threads(N, E)
    BY <1>1, <1>4, <2>1, GoDispatchTyped DEF HandleCompleted
  <2> QED
    BY <1>4, <2>2, <2>3, HandlerFrame DEF HandleCompleted
<1>5. CASE RetrySameStep(a)
  <2> DEFINE next == (IF r.ev.n > attempts[t] THEN r.ev.n ELSE attempts[t]) + 1
  <2>1. r.pc = "handle" /\ t \in Task /\ r.ev \in E
    BY <1>1, <1>5, InHand, TaskHandler DEF RetrySameStep, EventType
  <2>2. next \in N
    BY <1>5, <2>1 DEF RetrySameStep, Closed, Inv, RowsTyped
  <2>3. Mk("ready", t, next, FALSE) \in E /\ Mk("failed", t, next, FALSE) \in E
    BY <2>1, <2>2 DEF Closed, EventType
  <2> HIDE DEF next
  <2>4. RowsTyped(N)'
    BY <1>1, <1>5, <2>1, <2>2, CommittedTyped
    DEF RetrySameStep, next, Inv, RowsTyped, JobStatus, TaskStatus
  <2>5. ASSUME Settle(a, [r EXCEPT !.out = {Mk("ready", t, next, FALSE)}, !.refreshes = 1])
        PROVE  thread' \in Threads(N, E)
    <3> DEFINE s == [r EXCEPT !.out = {Mk("ready", t, next, FALSE)}, !.refreshes = 1]
    <3>1. s \in ThreadRecord(N, E) /\ s.end = r.end /\ s.ev = r.ev
      BY <1>1, <2>3 DEF ThreadRecord
    <3> HIDE DEF s
    <3>2. Settle(a, s)
      BY <2>5 DEF s
    <3> QED
      BY <1>1, <2>1, <3>1, <3>2, SettleTyped
  <2>6. ASSUME Settle(a, [r EXCEPT !.out = {Mk("failed", t, next, FALSE)}, !.refreshes = 1,
                                   !.end = "giveUp"])
        PROVE  thread' \in Threads(N, E)
    <3> DEFINE s == [r EXCEPT !.out = {Mk("failed", t, next, FALSE)}, !.refreshes = 1,
                              !.end = "giveUp"]
    <3>1. s \in ThreadRecord(N, E) /\ s.end = "giveUp" /\ s.ev = r.ev
      BY <1>1, <2>3 DEF ThreadRecord, End
    <3> HIDE DEF s
    <3>2. Settle(a, s)
      BY <2>6 DEF s
    <3> QED
      BY <1>1, <2>1, <3>1, <3>2, SettleTyped
  <2>7. thread' \in Threads(N, E)
    BY <1>5, <2>5, <2>6 DEF RetrySameStep, next
  <2> QED
    BY <1>5, <2>4, <2>7, HandlerFrame DEF RetrySameStep
<1>6. CASE GiveUp(a)
  <2>1. r.pc # "idle" /\ t \in Task
    BY <1>1, <1>6, InHand, TaskHandler DEF GiveUp, EventType, Threads, Consistent, Closed, TaskEvent
  <2>2. RowsTyped(N)'
    BY <1>1, <1>6, <2>1, CommittedTyped DEF GiveUp, Inv, RowsTyped, JobStatus, TaskStatus
  <2> DEFINE s == [r EXCEPT !.end = "ack"]
  <2>3. s \in ThreadRecord(N, E) /\ s.end = "ack" /\ s.ev = r.ev
    BY <1>1 DEF ThreadRecord, End
  <2>4. Settle(a, s)
    BY <1>6 DEF GiveUp
  <2> HIDE DEF s
  <2>5. thread' \in Threads(N, E)
    BY <1>1, <2>1, <2>3, <2>4, SettleTyped
  <2> QED
    BY <1>6, <2>2, <2>5, HandlerFrame DEF GiveUp
<1>7. CASE HandleAccepted(a)
  <2>1. r.pc = "handle" /\ t \in Task
    BY <1>1, <1>7, InHand, TaskHandler DEF HandleAccepted, EventType
  <2>2. RowsTyped(N)'
    BY <1>7, <2>1 DEF HandleAccepted, Inv, RowsTyped, TaskStatus
  <2>3. thread' \in Threads(N, E)
    BY <1>1, <1>7, <2>1, GoDispatchTyped DEF HandleAccepted
  <2> QED
    BY <1>7, <2>2, <2>3, HandlerFrame DEF HandleAccepted
<1>8. CASE HandleRework(a)
  <2>1. r.pc = "handle" /\ t \in Task
    BY <1>1, <1>8, InHand, TaskHandler DEF HandleRework, EventType
  <2>2. RowsTyped(N)'
    BY <1>1, <1>8, <2>1, CommittedTyped DEF HandleRework, Inv, RowsTyped, JobStatus, TaskStatus
  <2> DEFINE s == [r EXCEPT !.refreshes = 1]
  <2>3. s \in ThreadRecord(N, E) /\ s.end = r.end /\ s.ev = r.ev
    BY <1>1 DEF ThreadRecord
  <2>4. GoDispatch(a, r, 0) \/ Settle(a, s)
    BY <1>8 DEF HandleRework
  <2> HIDE DEF s
  <2>5. thread' \in Threads(N, E)
    BY <1>1, <2>1, <2>3, <2>4, SettleTyped, GoDispatchTyped
  <2> QED
    BY <1>8, <2>2, <2>5, HandlerFrame DEF HandleRework
<1>9. CASE HandlePolicyDecision(a)
  <2> DEFINE next == attempts[t] + 1
             fails(n) == [r EXCEPT !.out = {Mk("failed", t, n, FALSE)}, !.refreshes = 1]
             again == [r EXCEPT !.out = {Mk("ready", t, next, FALSE)}, !.refreshes = 1]
  <2>1. r.pc = "handle" /\ t \in Task /\ attempts[t] \in N
    BY <1>1, <1>9, InHand, TaskHandler DEF HandlePolicyDecision, EventType, Inv, RowsTyped
  <2>2. ASSUME NEW n \in N
        PROVE  fails(n) \in ThreadRecord(N, E) /\ fails(n).end = r.end /\ fails(n).ev = r.ev
    <3>1. Mk("failed", t, n, FALSE) \in E
      BY <2>1 DEF Closed, EventType
    <3> QED
      BY <1>1, <3>1 DEF ThreadRecord
  <2>3. ASSUME next \in N
        PROVE  again \in ThreadRecord(N, E) /\ again.end = r.end /\ again.ev = r.ev
    <3>1. Mk("ready", t, next, FALSE) \in E
      BY <2>1, <2>3 DEF Closed, EventType
    <3> QED
      BY <1>1, <3>1 DEF ThreadRecord
  <2>4. \/ Settle(a, r) /\ UNCHANGED <<task, attempts>>
        \/ /\ task' = [task EXCEPT ![t] = "failed"]
           /\ Settle(a, fails(attempts[t]))
           /\ UNCHANGED attempts
        \/ /\ next <= MaxAttempts
           /\ attempts' = [attempts EXCEPT ![t] = next]
           /\ \/ task' = [task EXCEPT ![t] = "failed"] /\ Settle(a, fails(next))
              \/ task' = [task EXCEPT ![t] = "ready"] /\ Settle(a, again)
    BY <1>9, <2>1, OrchestratorAssumption DEF HandlePolicyDecision, Closed
  <2>5. next <= MaxAttempts => next \in N
    BY <2>1 DEF Closed
  <2>6. RowsTyped(N)'
    BY <1>9, <2>1, <2>4, <2>5 DEF HandlePolicyDecision, Inv, RowsTyped, TaskStatus
  <2> HIDE DEF fails, again, next
  <2>7. thread' \in Threads(N, E)
    BY <1>1, <2>1, <2>2, <2>3, <2>4, <2>5, SettleTyped
  <2> QED
    BY <1>9, <2>6, <2>7, HandlerFrame DEF HandlePolicyDecision
<1> QED
  BY <1>2, <1>3, <1>4, <1>5, <1>6, <1>7, <1>8, <1>9 DEF HandleEvent

\* What enqueue_ready_tasks makes of a task it has read.
LEMMA FateTyped ==
  ASSUME NEW N, NEW E, Closed(N, E), NEW n \in N, NEW valid \in BOOLEAN, NEW t \in Task
  PROVE  /\ Fate(n, valid) \in {"failed", "blocked", "ready"}
         /\ Counted(n) \in N
         /\ Mk(EventOf[Fate(n, valid)], t, Counted(n), FALSE) \in E
<1>1. Fate(n, valid) \in {"failed", "blocked", "ready"}
  BY OrchestratorAssumption DEF Fate, Closed
<1>2. Counted(n) \in N
  BY DEF Counted, Closed
<1>3. EventOf[Fate(n, valid)] \in EventType
  BY <1>1 DEF EventOf, EventType
<1> QED
  BY <1>1, <1>2, <1>3 DEF Closed

\* enqueue_ready_tasks, emit_event and _refresh_job_status preserve the invariant.
LEMMA ProceedTyped ==
  ASSUME NEW N, NEW E, Closed(N, E), Inv(N, E), NEW x \in Thread, Proceed(x)
  PROVE  Inv(N, E)'
<1> DEFINE r == thread[x]
<1>1. /\ thread \in Threads(N, E)
      /\ r \in ThreadRecord(N, E)
      /\ x \in Api /\ r.pc # "idle" => r.end # "idle"
      /\ r.end # "idle" => r.ev # NoEvent
      /\ r.end = "giveUp" => r.ev \in E
  BY DEF Inv, Threads, Consistent
<1>2. CASE DispatchRead(x)
  <2> DEFINE S    == ReadyTasks(task, Deps)
             snap == [t \in Task |-> IF t \in S THEN attempts[t] ELSE 0]
             s    == [r EXCEPT !.pc = "commit", !.refreshes = @ + 1, !.batch = S, !.snap = snap]
  <2>1. S \subseteq Task
    BY DEF ReadyTasks, Inv, RowsTyped
  <2>2. snap \in [Task -> N]
    BY DEF Inv, RowsTyped, Closed
  <2> HIDE DEF S, snap
  <2>3. /\ s \in ThreadRecord(N, E)
        /\ s.end = r.end /\ s.ev = r.ev /\ s.pc = "commit"
    <3>1. r.refreshes + 1 \in Nat
      BY <1>1 DEF ThreadRecord
    <3> DEFINE n == r.refreshes + 1
    <3>2. n \in Nat
      BY <3>1
    <3>3. s = [r EXCEPT !.pc = "commit", !.refreshes = n, !.batch = S, !.snap = snap]
      OBVIOUS
    <3> HIDE DEF n, s
    <3> QED
      BY <1>1, <2>1, <2>2, <3>2, <3>3 DEF ThreadRecord, Pc
  <2>4. r.pc = "dispatch" /\ (Settle(x, r) \/ thread' = [thread EXCEPT ![x] = s])
    BY <1>2 DEF DispatchRead, S, snap
  <2> HIDE DEF s
  <2>5. r.pc = "dispatch" => Consistent(x, s, E)
    BY <1>1, <2>3 DEF Consistent
  <2>6. thread' \in Threads(N, E)
    BY <1>1, <2>3, <2>4, <2>5, SettleTyped, ThreadsUpdate
  <2> QED
    BY <1>2, <2>6, HandlerFrame DEF DispatchRead, Inv, RowsTyped, rows
<1>3. CASE DispatchCommit(x)
  <2> DEFINE S == r.batch
  <2>1. PICK invalid \in SUBSET (S \cap BadInput) :
          /\ task' = [t \in Task |->
                       IF t \in S THEN Fate(r.snap[t], t \notin invalid) ELSE task[t]]
          /\ Settle(x, [r EXCEPT !.batch = {}, !.snap = NoCount,
               !.out = {Mk(EventOf[Fate(r.snap[t], t \notin invalid)], t, Counted(r.snap[t]), FALSE)
                          : t \in S}])
    BY <1>3 DEF DispatchCommit
  <2> DEFINE out == {Mk(EventOf[Fate(r.snap[t], t \notin invalid)], t, Counted(r.snap[t]), FALSE)
                       : t \in S}
             s   == [r EXCEPT !.batch = {}, !.snap = NoCount, !.out = out]
  <2>2. S \subseteq Task /\ r.snap \in [Task -> N] /\ 0 \in N
    BY <1>1 DEF ThreadRecord, Closed
  <2>3. \A t \in S : /\ Fate(r.snap[t], t \notin invalid) \in {"failed", "blocked", "ready"}
                     /\ Counted(r.snap[t]) \in N
                     /\ Mk(EventOf[Fate(r.snap[t], t \notin invalid)], t,
                           Counted(r.snap[t]), FALSE) \in E
    BY <2>2, FateTyped
  <2>4. RowsTyped(N)'
    BY <1>3, <2>1, <2>2, <2>3 DEF DispatchCommit, Inv, RowsTyped, TaskStatus
  <2>5. out \subseteq E
    BY <2>3
  <2> HIDE DEF out
  <2>6. s \in ThreadRecord(N, E) /\ s.end = r.end /\ s.ev = r.ev
    BY <1>1, <2>2, <2>5 DEF ThreadRecord, NoCount
  <2>7. Settle(x, s) /\ r.pc = "commit"
    BY <1>3, <2>1 DEF DispatchCommit, out
  <2> HIDE DEF s
  <2>8. thread' \in Threads(N, E)
    BY <1>1, <2>6, <2>7, SettleTyped
  <2> QED
    BY <1>3, <2>4, <2>8, HandlerFrame DEF DispatchCommit
<1>4. CASE Emit(x)
  <2>1. PICK e \in r.out :
          /\ Settle(x, [r EXCEPT !.out = @ \ {e}])
          /\ ready' = IF e.type = "ready" THEN Append(ready, e) ELSE ready
          /\ toPolicy' = IF e.type = "policy_check" THEN Append(toPolicy, e) ELSE toPolicy
          /\ stream' = IF e.type = "failed"
                       THEN [stream EXCEPT !["tasks"] = Append(@, e)] ELSE stream
    BY <1>4 DEF Emit
  <2> DEFINE s == [r EXCEPT !.out = @ \ {e}]
  <2>2. e \in E
    BY <1>1 DEF ThreadRecord
  <2>3. s \in ThreadRecord(N, E) /\ s.end = r.end /\ s.ev = r.ev
    BY <1>1 DEF ThreadRecord
  <2>4. Settle(x, s) /\ r.pc = "emit"
    BY <1>4, <2>1 DEF Emit
  <2> HIDE DEF s
  <2>5. thread' \in Threads(N, E)
    BY <1>1, <2>3, <2>4, SettleTyped
  <2>6. /\ Append(ready, e) \in Seq(E)
        /\ Append(toPolicy, e) \in Seq(E)
        /\ [stream EXCEPT !["tasks"] = Append(@, e)] \in [Stream -> Seq(E)]
    BY <2>2, QueueTyped DEF Inv, QueuesTyped, Stream
  <2>7. QueuesTyped(E)'
    BY <1>4, <2>1, <2>6 DEF Emit, Inv, QueuesTyped
  <2> QED
    BY <1>4, <2>5, <2>7 DEF Emit, Inv, RowsTyped, rows
<1>5. CASE Refresh(x)
  <2> DEFINE s == [r EXCEPT !.refreshes = @ - 1]
  <2>1. r.pc = "refresh" /\ Settle(x, s)
    BY <1>5 DEF Refresh
  <2>2. r.refreshes > 0
    BY <1>1, <2>1 DEF Threads, Consistent
  <2>3. s \in ThreadRecord(N, E) /\ s.end = r.end /\ s.ev = r.ev
    BY <1>1, <2>2 DEF ThreadRecord
  <2> HIDE DEF s
  <2>4. thread' \in Threads(N, E)
    BY <1>1, <2>1, <2>3, SettleTyped
  <2>5. RowsTyped(N)'
    BY <1>5, CommittedTyped DEF Refresh, Inv, RowsTyped
  <2> QED
    BY <1>5, <2>4, <2>5, HandlerFrame DEF Refresh
<1> QED
  BY <1>2, <1>3, <1>4, <1>5 DEF Proceed

-----------------------------------------------------------------------------
(* Faults of the API, requests, workers and services.                      *)

\* Errors in a handler and crashes of an API process preserve the invariant.
LEMMA ApiFaultTyped ==
  ASSUME NEW N, NEW E, Closed(N, E), Inv(N, E), ApiFault
  PROVE  Inv(N, E)'
<1>1. PICK a \in Api : HandlerError(a) \/ ApiCrash(a)
  BY DEF ApiFault
<1>2. /\ a \in Thread /\ Http \in Thread /\ Http # a
      /\ \A x \in Thread : Idle \in ThreadRecord(N, E) /\ Consistent(x, Idle, E)
  BY IdleTyped, OrchestratorAssumption DEF Closed, Thread
<1>3. Unacked(a) \in Seq(E \cup {PlanCreated})
  <2>1. thread[a].pc # "idle" => thread[a].ev \in E \cup {PlanCreated}
    BY <1>2 DEF Inv, Threads, ThreadRecord, Consistent
  <2>2. pending \in Seq(E \cup {PlanCreated})
    BY DEF Inv, QueuesTyped
  <2> QED
    BY <2>1, <2>2, QueueTyped DEF Unacked
<1>4. used' \in [Disturbance -> Nat]
  BY <1>1, OrchestratorAssumption DEF HandlerError, ApiCrash, Disturb
<1>5. thread' \in Threads(N, E)
  <2>1. [thread EXCEPT ![a] = Idle] \in Threads(N, E)
    BY <1>2, ThreadsUpdate DEF Inv
  <2>2. CASE HandlerError(a)
    BY <2>1, <2>2 DEF HandlerError
  <2>3. CASE ApiCrash(a)
    <3> DEFINE h == IF job \in {"queued", "planning", "running"}
                    THEN [Idle EXCEPT !.pc = "dispatch"] ELSE Idle
    <3>1. h \in ThreadRecord(N, E) /\ Consistent(Http, h, E)
      BY <1>2, OrchestratorAssumption DEF Idle, ThreadRecord, Consistent, Pc
    <3>2. thread' = [[thread EXCEPT ![a] = Idle] EXCEPT ![Http] = h]
      BY <2>3 DEF ApiCrash
    <3> HIDE DEF h
    <3> QED
      BY <1>2, <2>1, <3>1, <3>2, ThreadsUpdate
  <2> QED
    BY <1>1, <2>2, <2>3
<1>6. inbox' \in [Api -> Seq(E)] /\ pending' \in Seq(E \cup {PlanCreated})
  <2>1. inbox \in [Api -> Seq(E)] /\ inbox[a] \in Seq(E \cup {PlanCreated})
    BY DEF Inv, QueuesTyped
  <2>2. Unacked(a) \o inbox[a] \in Seq(E \cup {PlanCreated})
    BY <1>3, <2>1, ConcatProperties
  <2>3. CASE HandlerError(a)
    BY <1>3, <2>1, <2>3 DEF HandlerError
  <2>4. CASE ApiCrash(a)
    <3>1. <<>> \in Seq(E)
      OBVIOUS
    <3>2. inbox' = [inbox EXCEPT ![a] = <<>>] /\ pending' = Unacked(a) \o inbox[a]
      BY <2>4 DEF ApiCrash
    <3> QED
      BY <2>1, <2>2, <3>1, <3>2
  <2> QED
    BY <1>1, <2>3, <2>4
<1>7. seen' \in Readings
  BY <1>1, <1>2, CommittedTyped DEF HandlerError, ApiCrash, Inv, RowsTyped, Readings
<1> QED
  BY <1>1, <1>4, <1>5, <1>6, <1>7
  DEF HandlerError, ApiCrash, Inv, RowsTyped, QueuesTyped, rows, queues, workers, services

\* The requests preserve the invariant.
LEMMA HttpRequestTyped ==
  ASSUME NEW N, NEW E, Closed(N, E), Inv(N, E), HttpRequest
  PROVE  Inv(N, E)'
<1>1. /\ thread \in Threads(N, E)
      /\ Http \in Thread /\ Http \notin Api
      /\ Idle \in ThreadRecord(N, E) /\ Idle.end = "idle"
  BY IdleTyped, OrchestratorAssumption DEF Closed, Thread, Idle, Inv
<1>2. used' \in [Disturbance -> Nat]
  BY OrchestratorAssumption
  DEF HttpRequest, CancelJob, ContinueJob, RetryJob, RetryFailedTasks, RetryTask, Request, Disturb
<1>3. CASE CancelJob
  <2>1. seen' \in Readings
    BY <1>1, <1>3, CommittedTyped DEF CancelJob, Inv, RowsTyped, Readings
  <2> QED
    BY <1>2, <1>3, <2>1
    DEF CancelJob, Inv, RowsTyped, QueuesTyped, queues, workers, services, JobStatus
<1>4. ASSUME GoDispatch(Http, Idle, 0) PROVE thread' \in Threads(N, E)
  BY <1>1, <1>4, GoDispatchTyped
<1>5. CASE ContinueJob
  <2>1. job' \in JobStatus /\ seen' \in Readings
    BY <1>1, <1>5, CommittedTyped DEF ContinueJob, Inv, JobStatus
  <2> QED
    BY <1>2, <1>4, <1>5, <2>1 DEF ContinueJob, Inv, RowsTyped, QueuesTyped, queues, workers, services
<1>6. ASSUME NEW S \in SUBSET Task, Reset(S) PROVE Inv(N, E)'
  <2>1. job' \in JobStatus /\ seen' \in Readings
    BY <1>1, <1>6, CommittedTyped DEF Reset, Inv, JobStatus
  <2>2. RowsTyped(N)'
    BY <1>6, <2>1 DEF Reset, Inv, RowsTyped, TaskStatus, Closed
  <2> QED
    BY <1>2, <1>4, <1>6, <2>2 DEF Reset, Inv, QueuesTyped, queues, workers, services
<1>7. CASE RetryJob \/ RetryFailedTasks \/ \E t \in Task : RetryTask(t)
  <2>1. \E S \in SUBSET Task : Reset(S)
    BY <1>7 DEF RetryJob, RetryFailedTasks, RetryTask, Failed
  <2> QED
    BY <1>6, <2>1
<1> QED
  BY <1>3, <1>5, <1>7 DEF HttpRequest

\* A worker begins with an entry.
LEMMA BeginTyped ==
  ASSUME NEW N, NEW E, Closed(N, E), QueuesTyped(E), NEW w \in Worker, NEW e \in E, Begin(w, e)
  PROVE  held' \in [Worker -> E \cup {NoEvent}] /\ stream' \in [Stream -> Seq(E)]
<1> DEFINE start == Mk("started", e.task, e.n, FALSE)
<1>1. start \in E
  BY DEF Closed, TaskEvent, EventType
<1>2. stream' = [stream EXCEPT !["tasks"] = Append(@, start)]
  BY DEF Begin
<1> HIDE DEF start
<1>3. stream' \in [Stream -> Seq(E)]
  BY <1>1, <1>2, QueueTyped DEF QueuesTyped, Stream
<1> QED
  BY <1>3 DEF Begin, QueuesTyped

\* The workers preserve the invariant.
LEMMA WorkerStepTyped ==
  ASSUME NEW N, NEW E, Closed(N, E), Inv(N, E), WorkerStep
  PROVE  Inv(N, E)'
<1> USE DEF Inv
<1>1. PICK w \in Worker : Take(w) \/ Claim(w) \/ Finish(w)
  BY DEF WorkerStep
<1>2. CASE Take(w)
  <2>1. Head(ready) \in E /\ ready' \in Seq(E)
    BY <1>2, QueueTyped DEF Take, QueuesTyped
  <2>2. held' \in [Worker -> E \cup {NoEvent}] /\ stream' \in [Stream -> Seq(E)]
    BY <1>2, <2>1, BeginTyped DEF Take
  <2> QED
    BY <1>2, <2>1, <2>2 DEF Take, RowsTyped, QueuesTyped, rows, queues, services
<1>3. CASE Claim(w)
  <2>1. Head(orphaned) \in E /\ orphaned' \in Seq(E)
    BY <1>3, QueueTyped DEF Claim, QueuesTyped
  <2>2. held' \in [Worker -> E \cup {NoEvent}] /\ stream' \in [Stream -> Seq(E)]
    BY <1>3, <2>1, BeginTyped DEF Claim
  <2> QED
    BY <1>3, <2>1, <2>2 DEF Claim, RowsTyped, QueuesTyped, rows, queues, services
<1>4. CASE Complete(w)
  <2> DEFINE done == Mk("completed", held[w].task, held[w].n, FALSE)
  <2>1. held[w] \in E
    BY <1>4 DEF Complete, QueuesTyped
  <2>2. done \in E
    BY <2>1 DEF Closed, TaskEvent, EventType
  <2>3. /\ stream' = [stream EXCEPT !["tasks"] = Append(@, done)]
        /\ toCritic' = IF Critic THEN Append(toCritic, done) ELSE toCritic
    BY <1>4 DEF Complete
  <2> HIDE DEF done
  <2>4. stream' \in [Stream -> Seq(E)] /\ toCritic' \in Seq(E)
    BY <2>2, <2>3, QueueTyped DEF QueuesTyped, Stream
  <2>5. held' \in [Worker -> E \cup {NoEvent}]
    BY <1>4 DEF Complete, QueuesTyped
  <2> QED
    BY <1>4, <2>4, <2>5 DEF Complete, RowsTyped, QueuesTyped, rows
<1>5. ASSUME NEW kind \in ErrorKind, Fail(w, kind) PROVE Inv(N, E)'
  <2> DEFINE retry  == Mk("ready", held[w].task, held[w].n + 1, FALSE)
             failed == Mk("failed", held[w].task, held[w].n, kind = "transient")
  <2>1. held[w] \in E
    BY <1>5 DEF Fail, QueuesTyped
  <2>2. IF ShouldRetry(kind, held[w].n) THEN retry \in E ELSE failed \in E
    BY <2>1 DEF Closed, TaskEvent, EventType
  <2>3. \/ /\ ShouldRetry(kind, held[w].n)
           /\ ready' = Append(ready, retry) /\ UNCHANGED stream
        \/ /\ ~ShouldRetry(kind, held[w].n)
           /\ stream' = [stream EXCEPT !["tasks"] = Append(@, failed)] /\ UNCHANGED ready
    BY <1>5 DEF Fail
  <2> HIDE DEF retry, failed
  <2>4. stream' \in [Stream -> Seq(E)] /\ ready' \in Seq(E)
    <3>1. CASE ShouldRetry(kind, held[w].n)
      BY <2>2, <2>3, <3>1, QueueTyped DEF QueuesTyped
    <3>2. CASE ~ShouldRetry(kind, held[w].n)
      <4>1. failed \in E /\ stream' = [stream EXCEPT !["tasks"] = Append(@, failed)]
        BY <2>2, <2>3, <3>2
      <4>2. stream' \in [Stream -> Seq(E)]
        BY <4>1, QueueTyped DEF QueuesTyped, Stream
      <4> QED
        BY <2>3, <3>2, <4>2 DEF QueuesTyped
    <3> QED
      BY <3>1, <3>2
  <2>5. held' \in [Worker -> E \cup {NoEvent}]
    BY <1>5 DEF Fail, QueuesTyped
  <2> QED
    BY <1>5, <2>4, <2>5 DEF Fail, RowsTyped, QueuesTyped, rows, queues, services
<1> QED
  BY <1>1, <1>2, <1>3, <1>4, <1>5 DEF Finish

\* Crashes, late claims and lost results of workers preserve the invariant.
LEMMA WorkerFaultTyped ==
  ASSUME NEW N, NEW E, Closed(N, E), Inv(N, E), WorkerFault
  PROVE  Inv(N, E)'
<1> USE DEF Inv
<1>1. used' \in [Disturbance -> Nat]
  BY OrchestratorAssumption DEF WorkerFault, WorkerCrash, LoseResult, Steal, Disturb
<1>2. ASSUME NEW w \in Worker, WorkerCrash(w) PROVE Inv(N, E)'
  <2>1. orphaned' \in Seq(E)
    BY <1>2, QueueTyped DEF WorkerCrash, QueuesTyped
  <2>2. held' \in [Worker -> E \cup {NoEvent}]
    BY <1>2 DEF WorkerCrash, QueuesTyped
  <2> QED
    BY <1>1, <1>2, <2>1, <2>2 DEF WorkerCrash, RowsTyped, QueuesTyped, rows, queues, services
<1>3. ASSUME NEW w \in Worker, LoseResult(w) PROVE Inv(N, E)'
  BY <1>1, <1>3 DEF LoseResult, RowsTyped, QueuesTyped, rows, queues, services
<1>4. ASSUME NEW w \in Worker, NEW v \in Worker, Steal(w, v) PROVE Inv(N, E)'
  <2>1. held[v] \in E
    BY <1>4 DEF Steal, QueuesTyped
  <2>2. held' \in [Worker -> E \cup {NoEvent}] /\ stream' \in [Stream -> Seq(E)]
    BY <1>4, <2>1, BeginTyped DEF Steal
  <2> QED
    BY <1>1, <1>4, <2>2 DEF Steal, RowsTyped, QueuesTyped, rows, queues, services
<1> QED
  BY <1>2, <1>3, <1>4 DEF WorkerFault

\* The policy service and the critic preserve the invariant, their deaths included.
LEMMA ServiceStepTyped ==
  ASSUME NEW N, NEW E, Closed(N, E), Inv(N, E), ServiceStep
  PROVE  Inv(N, E)'
<1> USE DEF Inv
<1>1. \A type \in EventType, e \in E : Mk(type, e.task, 0, FALSE) \in E
  BY DEF Closed, TaskEvent
<1>2. CASE DecidePolicy
  <2>1. Head(toPolicy) \in E /\ toPolicy' \in Seq(E)
    BY <1>2, QueueTyped DEF DecidePolicy, QueuesTyped
  <2>2. PICK d \in {"allow", "deny"} :
          stream' = [stream EXCEPT !["policy"] = Append(@, Mk(d, Head(toPolicy).task, 0, FALSE))]
    BY <1>2 DEF DecidePolicy
  <2>3. Mk(d, Head(toPolicy).task, 0, FALSE) \in E
    BY <1>1, <2>1 DEF EventType
  <2>4. stream' \in [Stream -> Seq(E)]
    BY <2>2, <2>3, QueueTyped DEF QueuesTyped, Stream
  <2> QED
    BY <1>2, <2>1, <2>4 DEF DecidePolicy, RowsTyped, QueuesTyped, rows, queues, workers
<1>3. CASE Review
  <2>1. Head(toCritic) \in E /\ toCritic' \in Seq(E)
    BY <1>3, QueueTyped DEF Review, QueuesTyped
  <2>2. PICK d \in {"accepted", "rework_requested"} :
          stream' = [stream EXCEPT !["critic"] = Append(@, Mk(d, Head(toCritic).task, 0, FALSE))]
    BY <1>3 DEF Review
  <2>3. Mk(d, Head(toCritic).task, 0, FALSE) \in E
    BY <1>1, <2>1 DEF EventType
  <2>4. stream' \in [Stream -> Seq(E)]
    BY <2>2, <2>3, QueueTyped DEF QueuesTyped, Stream
  <2> QED
    BY <1>3, <2>1, <2>4 DEF Review, RowsTyped, QueuesTyped, rows, queues, workers
<1>4. CASE LoseCheck
  <2>1. used' \in [Disturbance -> Nat] /\ toPolicy' \in Seq(E)
    BY <1>4, OrchestratorAssumption, QueueTyped DEF LoseCheck, Disturb, QueuesTyped
  <2> QED
    BY <1>4, <2>1 DEF LoseCheck, RowsTyped, QueuesTyped, rows, queues, workers
<1>5. CASE LoseReview
  <2>1. used' \in [Disturbance -> Nat] /\ toCritic' \in Seq(E)
    BY <1>5, OrchestratorAssumption, QueueTyped DEF LoseReview, Disturb, QueuesTyped
  <2> QED
    BY <1>5, <2>1 DEF LoseReview, RowsTyped, QueuesTyped, rows, queues, workers
<1> QED
  BY <1>2, <1>3, <1>4, <1>5 DEF ServiceStep

-----------------------------------------------------------------------------
(* The inductive invariant and what follows from it.                       *)

\* The invariant holds when a plan has just been stored.
LEMMA InitTyped ==
  ASSUME NEW N, NEW E, Closed(N, E), Init
  PROVE  Inv(N, E)
<1>1. RowsTyped(N)
  BY DEF Init, RowsTyped, Readings, Unread, NoCount, Closed, JobStatus, TaskStatus
<1>2. QueuesTyped(E)
  BY DEF Init, QueuesTyped
<1>3. thread \in Threads(N, E)
  <2>1. PICK a \in Api :
          thread = [x \in Thread |->
                     IF x = a THEN [Handle(PlanCreated) EXCEPT !.pc = "dispatch", !.refreshes = 1]
                     ELSE Idle]
    BY DEF Init
  <2> DEFINE first == [Handle(PlanCreated) EXCEPT !.pc = "dispatch", !.refreshes = 1]
  <2>2. \A x \in Thread : /\ Idle \in ThreadRecord(N, E)
                          /\ Consistent(x, Idle, E)
                          /\ first \in ThreadRecord(N, E)
                          /\ Consistent(x, first, E)
    BY OrchestratorAssumption
    DEF Idle, Handle, ThreadRecord, Consistent, Pc, End, NoCount, Closed
  <2> HIDE DEF first
  <2>3. thread = [x \in Thread |-> IF x = a THEN first ELSE Idle]
    BY <2>1 DEF first
  <2> QED
    BY <2>2, <2>3 DEF Threads
<1> QED
  BY <1>1, <1>2, <1>3 DEF Inv

\* Every step preserves the invariant.
LEMMA NextTyped ==
  ASSUME NEW N, NEW E, Closed(N, E), Inv(N, E), [Next]_vars
  PROVE  Inv(N, E)'
<1>1. CASE ApiStep
  BY <1>1, DeliverTyped, HandleEventTyped, ProceedTyped DEF ApiStep, Loop
<1>2. CASE ApiFault
  BY <1>2, ApiFaultTyped
<1>3. CASE HttpRequest
  BY <1>3, HttpRequestTyped
<1>4. CASE WorkerStep
  BY <1>4, WorkerStepTyped
<1>5. CASE WorkerFault
  BY <1>5, WorkerFaultTyped
<1>6. CASE ServiceStep
  BY <1>6, ServiceStepTyped
<1>7. CASE Reading
  BY <1>7, ReadingTyped
<1>8. CASE UNCHANGED vars
  BY <1>8 DEF Inv, RowsTyped, QueuesTyped, vars, rows, queues, workers, services
<1> QED
  BY <1>1, <1>2, <1>3, <1>4, <1>5, <1>6, <1>7, <1>8 DEF Next

\* The invariant implies the typing of every variable.
LEMMA InvTyped ==
  ASSUME NEW N, NEW E, Inv(N, E)
  PROVE  Typed(N, E)
BY DEF Inv, RowsTyped, Readings, QueuesTyped, Threads, ThreadRecord, Typed

\* Every variable of the orchestrator, its workers and services keeps to its type, for every
\* plan, any number of replicas and workers and any disturbances.
THEOREM TypeCorrect == Spec => []TypeOK
<1>1. Closed(Nat, TaskEvent)
  BY OrchestratorAssumption
  DEF Closed, TaskEvent, Mk, EventType, RetriesSameStep, ShouldRetry
<1>2. Init => Inv(Nat, TaskEvent)
  BY <1>1, InitTyped
<1>3. Inv(Nat, TaskEvent) /\ [Next]_vars => Inv(Nat, TaskEvent)'
  BY <1>1, NextTyped
<1>4. Inv(Nat, TaskEvent) => TypeOK
  BY InvTyped DEF TypeOK
<1> QED
  BY <1>2, <1>3, <1>4, PTL DEF Spec

\* The events of a run whose workers retry: none is numbered above max_attempts, and an error
\* that _classify_task_error calls retryable is that of a last attempt, since the worker has
\* used the others up (_should_retry_task).
BoundedEvent ==
  {e \in TaskEvent : e.n <= MaxAttempts /\ (e.retryable => e.n = MaxAttempts)}

\* No task is ever numbered above max_attempts, by whichever of the four writers of
\* attempts, and whatever is redelivered, retried, stolen or lost, provided that the workers
\* retry transient errors themselves: only then does the API's retry of the same step, which
\* counts on from the row and not from the event, find nothing left to retry.
THEOREM RetriesBounded ==
  ASSUME RetryPolicy # "none"
  PROVE  Spec => []RetriesAreBounded
<1> DEFINE N == 0 .. MaxAttempts
<1>1. Closed(N, BoundedEvent)
  BY OrchestratorAssumption
  DEF Closed, BoundedEvent, TaskEvent, Mk, EventType, RetriesSameStep, ShouldRetry
<1> HIDE DEF N
<1>2. Init => Inv(N, BoundedEvent)
  BY <1>1, InitTyped
<1>3. Inv(N, BoundedEvent) /\ [Next]_vars => Inv(N, BoundedEvent)'
  BY <1>1, NextTyped
<1>4. Inv(N, BoundedEvent) => RetriesAreBounded
  BY OrchestratorAssumption DEF N, Inv, RowsTyped, QueuesTyped, BoundedEvent, RetriesAreBounded
<1> QED
  BY <1>2, <1>3, <1>4, PTL DEF Spec
=============================================================================
