-------------------------- MODULE OneReplicaProofs --------------------------
(***************************************************************************)
(* What holds of Orchestrator while one API replica handles one run of a   *)
(* plan, without requests and without the critic, even when handlers raise *)
(* and their entries are handled again: no task is in flight twice         *)
(* (OneCopy), and the outcome of the job is final (OutcomeFinal).          *)
(*                                                                         *)
(* Tidy is the invariant of the copies. A copy of a task is an entry, or   *)
(* an execution, that can still have an effect; each task has at most one, *)
(* at one of ten places. A task nobody has handed out has none, and the    *)
(* batch of a dispatch is of such tasks: this is why a dispatch, which     *)
(* reads and commits in two steps, cannot hand a task out twice. Sunk says *)
(* why a failed job cannot be taken for a running one: the task that       *)
(* failed it has no copy left that could move it on. With nobody to        *)
(* overtake it, what the replica has read of the job is what the row holds.*)
(***************************************************************************)
EXTENDS DeliveryProofs

-----------------------------------------------------------------------------
(* Where the copies of a task are.                                         *)

\* The API's only replica.
Replica == CHOOSE a \in Api : TRUE

\* Handlers may raise, and their entries be handled again.
Redelivers == \E f \in Faults : f["apiError"] > 0

\* What is assumed: one replica, no critic, no request, no crash of the API, and no claim of an
\* entry that is still executed.  Workers and services may crash and results be lost; handlers
\* may raise if there is no policy gate and the workers retry themselves.
Calm ==
  /\ Api = {Replica}
  /\ ~Critic
  /\ \A f \in Faults : f["request"] = 0 /\ f["apiCrash"] = 0 /\ f["steal"] = 0
  /\ Redelivers => ~PolicyGate /\ RetryPolicy # "none"

\* The entries that InFlight counts; and those of them that can still change the row of a task
\* that has failed.
Copies == Of({"ready", "completed", "failed", "policy_check", "allow", "deny"})
Open   == {e \in Copies : e.type = "failed" => RetriesSameStep(e)}

\* The entry in the replica's hand, as long as it may be handled (again).
InHandOf(K) ==
  IF thread[Replica].pc = "handle" \/ (Redelivers /\ thread[Replica].pc # "idle")
  THEN One(K, thread[Replica].ev) ELSE {}

Place == {"ready", "held", "orphaned", "policy", "tasks", "decisions", "inbox", "pending",
          "hand", "emit"}

\* The tasks with a copy of K at place p.
At(K, p) ==
  CASE p = "ready"     -> About(K, ready)
    [] p = "held"      -> About(K, held)
    [] p = "orphaned"  -> About(K, orphaned)
    [] p = "policy"    -> About(K, toPolicy)
    [] p = "tasks"     -> About(K, stream["tasks"])
    [] p = "decisions" -> About(K, stream["policy"])
    [] p = "inbox"     -> About(K, inbox[Replica])
    [] p = "pending"   -> About(K, pending)
    [] p = "hand"      -> InHandOf(K)
    [] p = "emit"      -> AboutAny(K, thread[Replica].out)

All(K) == UNION {At(K, p) : p \in Place}

\* No task has copies at two places.
Separate == \A p, q \in Place : p # q => At(Copies, p) \cap At(Copies, q) = {}

\* No task has two copies at one place.
OnceEach ==
  /\ Once(Copies, ready) /\ Once(Copies, held) /\ Once(Copies, orphaned)
  /\ Once(Copies, toPolicy) /\ Once(Copies, stream["tasks"]) /\ Once(Copies, stream["policy"])
  /\ Once(Copies, inbox[Replica]) /\ Once(Copies, pending)
  /\ \A e, f \in thread[Replica].out : e.task = f.task => e = f

\* A task that was never handed out has no copy, and a batch is of such tasks.
Untouched ==
  /\ \A t \in Task : task[t] = "pending" => t \notin All(Copies)
  /\ \A t \in thread[Replica].batch : task[t] = "pending"

\* With redelivery, what a worker reports as failed is not retried by the API.
Limited == Redelivers => Inv(0 .. MaxAttempts, BoundedEvent)

\* The inductive invariant of the copies.
Tidy ==
  /\ thread[Http].pc = "idle"
  /\ seen = [x \in Thread |-> Unread]
  /\ Limited
  /\ Separate
  /\ OnceEach
  /\ Untouched

-----------------------------------------------------------------------------
(* Places.                                                                 *)

\* The replica is the API's only one; what was assumed of the faults.
LEMMA CalmMeans ==
  ASSUME Calm
  PROVE  /\ Replica \in Api /\ Replica \in Thread /\ Replica # Http /\ Http \in Thread
         /\ \A a \in Api : a = Replica
         /\ \A x \in Thread : x = Replica \/ x = Http
BY OrchestratorAssumption DEF Calm, Thread

\* A transaction that nobody overtakes validates against the row, and derives from the rows.
LEMMA CommitsWhatIs ==
  ASSUME Tidy, NEW x \in Thread
  PROVE  /\ \A s : Committed(x, s) = SetJobStatus(job, s)
         /\ StatusRead(x) = DerivedJobStatus({task[t] : t \in Task})
<1>1. seen[x].job = "unread" /\ seen[x].derived = "unread"
  BY DEF Tidy, Unread
<1>2. JobRead(x) = job
  BY <1>1 DEF JobRead
<1>3. ASSUME NEW s PROVE Committed(x, s) = SetJobStatus(job, s)
  BY <1>2 DEF Committed
<1> QED
  BY <1>1, <1>3 DEF StatusRead, DerivedStatus

\* What there is at each place.
LEMMA AtIs ==
  ASSUME NEW K
  PROVE  /\ At(K, "ready")     = About(K, ready)
         /\ At(K, "held")      = About(K, held)
         /\ At(K, "orphaned")  = About(K, orphaned)
         /\ At(K, "policy")    = About(K, toPolicy)
         /\ At(K, "tasks")     = About(K, stream["tasks"])
         /\ At(K, "decisions") = About(K, stream["policy"])
         /\ At(K, "inbox")     = About(K, inbox[Replica])
         /\ At(K, "pending")   = About(K, pending)
         /\ At(K, "hand")      = InHandOf(K)
         /\ At(K, "emit")      = AboutAny(K, thread[Replica].out)
BY DEF At

\* And after a step.
LEMMA AtWillBe ==
  ASSUME NEW K
  PROVE  /\ At(K, "ready")'     = About(K, ready')
         /\ At(K, "held")'      = About(K, held')
         /\ At(K, "orphaned")'  = About(K, orphaned')
         /\ At(K, "policy")'    = About(K, toPolicy')
         /\ At(K, "tasks")'     = About(K, stream'["tasks"])
         /\ At(K, "decisions")' = About(K, stream'["policy"])
         /\ At(K, "inbox")'     = About(K, inbox'[Replica])
         /\ At(K, "pending")'   = About(K, pending')
         /\ At(K, "hand")'      = InHandOf(K)'
         /\ At(K, "emit")'      = AboutAny(K, thread'[Replica].out)
BY DEF At

\* A step moves the copies about the tasks m from p to q, or loses them, and leaves the others.
Shifts(K, p, q, m) ==
  /\ m \subseteq At(K, p)
  /\ At(K, q)' \subseteq At(K, q) \cup m
  /\ \A r \in Place : r # q => At(K, r)' \subseteq At(K, r)

\* Place by place.
LEMMA ShiftsByPlace ==
  ASSUME NEW K, NEW p \in Place, NEW q \in Place, NEW m,
         m \subseteq At(K, p), At(K, q)' \subseteq At(K, q) \cup m,
         q # "ready"     => About(K, ready') \subseteq About(K, ready),
         q # "held"      => About(K, held') \subseteq About(K, held),
         q # "orphaned"  => About(K, orphaned') \subseteq About(K, orphaned),
         q # "policy"    => About(K, toPolicy') \subseteq About(K, toPolicy),
         q # "tasks"     => About(K, stream'["tasks"]) \subseteq About(K, stream["tasks"]),
         q # "decisions" => About(K, stream'["policy"]) \subseteq About(K, stream["policy"]),
         q # "inbox"     => About(K, inbox'[Replica]) \subseteq About(K, inbox[Replica]),
         q # "pending"   => About(K, pending') \subseteq About(K, pending),
         q # "hand"      => InHandOf(K)' \subseteq InHandOf(K),
         q # "emit"      => AboutAny(K, thread'[Replica].out) \subseteq AboutAny(K, thread[Replica].out)
  PROVE  Shifts(K, p, q, m)
BY AtIs, AtWillBe DEF Shifts, Place

\* What a step that hands no task out leaves as it was.
Kept ==
  /\ Separate'
  /\ OnceEach'
  /\ All(Copies)' \subseteq All(Copies)
  /\ All(Open)' \subseteq All(Open)

\* Nothing is added.
LEMMA ShiftAll ==
  ASSUME NEW K, NEW p \in Place, NEW q \in Place, NEW m, Shifts(K, p, q, m)
  PROVE  All(K)' \subseteq All(K)
BY DEF All, Shifts

\* What has moved is at its new place only.
LEMMA ShiftSeparate ==
  ASSUME NEW p \in Place, NEW q \in Place, p # q, NEW m, Shifts(Copies, p, q, m),
         m \cap At(Copies, p)' = {}, Separate
  PROVE  Separate'
<1> SUFFICES ASSUME NEW r \in Place, NEW s \in Place, r # s, s # q
             PROVE  At(Copies, r)' \cap At(Copies, s)' = {}
  BY DEF Separate
<1>1. At(Copies, s)' \subseteq At(Copies, s) /\ At(Copies, r) \cap At(Copies, s) = {}
  BY DEF Shifts, Separate
<1>2. CASE r # q
  BY <1>1, <1>2 DEF Shifts
<1>3. CASE r = q
  <2>1. m \cap At(Copies, s)' = {}
    BY <1>1, <1>3 DEF Shifts, Separate
  <2> QED
    BY <1>1, <1>3, <2>1 DEF Shifts
<1> QED
  BY <1>2, <1>3

\* A step that moves copies, of either kind, keeps what there is to keep.
LEMMA ShiftKeeps ==
  ASSUME Tidy, NEW p \in Place, NEW q \in Place, p # q, NEW m, NEW k,
         Shifts(Copies, p, q, m), Shifts(Open, p, q, k), m \cap At(Copies, p)' = {}, OnceEach'
  PROVE  Kept
<1>1. Separate'
  BY ShiftSeparate DEF Tidy
<1>2. All(Copies)' \subseteq All(Copies)
  BY ShiftAll
<1>3. All(Open)' \subseteq All(Open)
  BY ShiftAll
<1> QED
  BY <1>1, <1>2, <1>3 DEF Kept

\* Which events are copies.
LEMMA CopiesAre ==
  ASSUME NEW K \in {Copies, Open}
  PROVE  /\ \A e \in TaskEvent : One(K, e) \subseteq {e.task}
         /\ \A e \in Of({"started"}) : One(K, e) = {}
         /\ \A e \in Of({"ready", "completed", "policy_check", "allow", "deny"}) : One(K, e) = {e.task}
         /\ One(K, NoEvent) = {} /\ One(K, PlanCreated) = {}
<1>1. NoEvent \notin TaskEvent /\ PlanCreated \notin TaskEvent
  BY OrchestratorAssumption DEF PlanCreated, Mk, TaskEvent, EventType
<1>2. /\ \A e \in Of({"started"}) : e \notin Copies
      /\ \A e \in Of({"ready", "completed", "policy_check", "allow", "deny"}) : e \in Copies /\ e \in Open
      /\ Copies \subseteq TaskEvent /\ Open \subseteq Copies
  BY DEF Copies, Open, Of
<1> QED
  BY <1>1, <1>2 DEF One

\* A queue loses its first entry.
LEMMA FirstTaken ==
  ASSUME NEW K, NEW S, NEW s \in Seq(S), s # <<>>
  PROVE  One(K, Head(s)) \subseteq About(K, s) /\ About(K, Tail(s)) \subseteq About(K, s)
<1> DEFINE h == Head(s)
           u == Tail(s)
<1>1. h \in S /\ u \in Seq(S)
  BY FirstAndRest
<1>2. s = Single(h) \o u
  BY FirstAndRest
<1> HIDE DEF h, u
<1>3. About(K, Single(h) \o u) = One(K, h) \cup About(K, u)
  BY <1>1, AboutFirst
<1> QED
  BY <1>2, <1>3 DEF h, u

\* The first of a queue of different tasks.
LEMMA FirstOnce ==
  ASSUME NEW K, NEW S, NEW s \in Seq(S), s # <<>>, Once(K, s)
  PROVE  Once(K, Tail(s)) /\ One(K, Head(s)) \cap About(K, Tail(s)) = {}
<1> DEFINE h == Head(s)
           u == Tail(s)
<1>1. h \in S /\ u \in Seq(S) /\ s = Single(h) \o u
  BY FirstAndRest
<1> HIDE DEF h, u
<1>2. Once(K, u) /\ One(K, h) \cap About(K, u) = {}
  BY <1>1, OnceFirst
<1> QED
  BY <1>2 DEF h, u

\* A worker takes an entry up,
LEMMA TakesUp ==
  ASSUME State, NEW K \in {Copies, Open}, NEW w \in Worker, NEW e \in TaskEvent,
         held' = [held EXCEPT ![w] = e]
  PROVE  About(K, held') \subseteq About(K, held) \cup One(K, e)
<1>1. held \in [Worker -> TaskEvent \cup {NoEvent}]
  BY DEF State, Inv, QueuesTyped
<1> DEFINE E == TaskEvent \cup {NoEvent}
<1>2. e \in E
  OBVIOUS
<1> HIDE DEF E
<1>3. ASSUME NEW f \in [Worker -> E]
      PROVE  About(K, [f EXCEPT ![w] = e]) \subseteq About(K, f) \cup One(K, e)
  BY <1>2, AboutUpdate
<1> QED
  BY <1>1, <1>3 DEF E

\* which is not one that is executed already;
LEMMA TakesUpOnce ==
  ASSUME State, NEW w \in Worker, NEW e \in TaskEvent,
         held' = [held EXCEPT ![w] = e],
         Once(Copies, held), One(Copies, e) \cap About(Copies, held) = {}
  PROVE  Once(Copies, held')
<1>1. held \in [Worker -> TaskEvent \cup {NoEvent}]
  BY DEF State, Inv, QueuesTyped
<1> DEFINE E == TaskEvent \cup {NoEvent}
<1>2. e \in E
  OBVIOUS
<1> HIDE DEF E
<1>3. ASSUME NEW f \in [Worker -> E], Once(Copies, f), One(Copies, e) \cap About(Copies, f) = {}
      PROVE  Once(Copies, [f EXCEPT ![w] = e])
  <2>1. One(Copies, e) \cap About(Copies, f) \subseteq One(Copies, f[w])
    BY <1>3
  <2> QED
    BY <1>2, <1>3, <2>1, OnceUpdate
<1> QED
  BY <1>1, <1>3 DEF E

\* or puts one down,
LEMMA PutsDown ==
  ASSUME State, NEW K \in {Copies, Open}, NEW w \in Worker, held' = [held EXCEPT ![w] = NoEvent]
  PROVE  About(K, held') \subseteq About(K, held) /\ One(K, held[w]) \subseteq About(K, held)
<1>1. held \in [Worker -> TaskEvent \cup {NoEvent}]
  BY DEF State, Inv, QueuesTyped
<1> DEFINE E == TaskEvent \cup {NoEvent}
<1>0. NoEvent \in E
  OBVIOUS
<1> HIDE DEF E
<1>2. ASSUME NEW f \in [Worker -> E]
      PROVE  About(K, [f EXCEPT ![w] = NoEvent]) \subseteq About(K, f) \cup One(K, NoEvent)
  BY <1>0, AboutUpdate
<1>3. One(K, NoEvent) = {}
  BY CopiesAre
<1>4. One(K, held[w]) \subseteq About(K, held)
  BY <1>1 DEF About
<1> QED
  BY <1>1, <1>2, <1>3, <1>4 DEF E

\* and then nobody executes it.
LEMMA PutsDownOnce ==
  ASSUME State, NEW w \in Worker, held' = [held EXCEPT ![w] = NoEvent], Once(Copies, held)
  PROVE  Once(Copies, held') /\ One(Copies, held[w]) \cap About(Copies, held') = {}
<1>1. held \in [Worker -> TaskEvent \cup {NoEvent}]
  BY DEF State, Inv, QueuesTyped
<1>2. One(Copies, NoEvent) = {}
  BY CopiesAre
<1> DEFINE E == TaskEvent \cup {NoEvent}
<1>0. NoEvent \in E
  OBVIOUS
<1> HIDE DEF E
<1>3. ASSUME NEW f \in [Worker -> E], Once(Copies, f)
      PROVE  /\ Once(Copies, [f EXCEPT ![w] = NoEvent])
             /\ One(Copies, f[w]) \cap About(Copies, [f EXCEPT ![w] = NoEvent]) \subseteq One(Copies, NoEvent)
  <2>1. One(Copies, NoEvent) \cap About(Copies, f) \subseteq One(Copies, f[w])
    BY <1>2
  <2> QED
    BY <1>0, <1>3, <2>1, OnceUpdate
<1> QED
  BY <1>1, <1>2, <1>3 DEF E

\* A queue of task events gains an entry.
LEMMA Gained ==
  ASSUME NEW K, NEW s \in Seq(TaskEvent), NEW e \in TaskEvent
  PROVE  About(K, Append(s, e)) = About(K, s) \cup One(K, e)
BY AboutAppend

\* A queue of any kind.
LEMMA GainedBy ==
  ASSUME NEW S, NEW s \in Seq(S), NEW e \in S, NEW K
  PROVE  About(K, Append(s, e)) = About(K, s) \cup One(K, e)
BY AboutAppend

\* An event comes onto the tasks stream,
LEMMA TasksGain ==
  ASSUME State, NEW K \in {Copies, Open}, NEW e \in TaskEvent,
         stream' = [stream EXCEPT !["tasks"] = Append(@, e)]
  PROVE  About(K, stream'["tasks"]) = About(K, stream["tasks"]) \cup One(K, e)
<1> DEFINE T == stream["tasks"]
<1>1. T \in Seq(TaskEvent) /\ stream'["tasks"] = Append(T, e)
  BY DEF State, Inv, QueuesTyped, Stream
<1> HIDE DEF T
<1>2. About(K, Append(T, e)) = About(K, T) \cup One(K, e)
  BY <1>1, Gained
<1> QED
  BY <1>1, <1>2 DEF T

\* about another task than those there are.
LEMMA TasksGainOnce ==
  ASSUME State, NEW e \in TaskEvent, stream' = [stream EXCEPT !["tasks"] = Append(@, e)],
         Once(Copies, stream["tasks"]), One(Copies, e) \cap About(Copies, stream["tasks"]) = {}
  PROVE  Once(Copies, stream'["tasks"])
<1> DEFINE T == stream["tasks"]
<1>1. T \in Seq(TaskEvent) /\ stream'["tasks"] = Append(T, e)
  BY DEF State, Inv, QueuesTyped, Stream
<1> HIDE DEF T
<1>2. Once(Copies, Append(T, e))
  BY <1>1, OnceAppend DEF T
<1> QED
  BY <1>1, <1>2 DEF T

\* A worker begins with the first entry of a queue q, at place p.
LEMMA BeginKept ==
  ASSUME State, Calm, Tidy, NEW w \in Worker, NEW q \in Seq(Of({"ready"})), q # <<>>,
         NEW p \in {"ready", "orphaned"},
         \A K \in {Copies, Open} : At(K, p) = About(K, q) /\ At(K, p)' = About(K, Tail(q)),
         Once(Copies, q), Begin(w, Head(q)), Once(Copies, ready'), Once(Copies, orphaned'),
         \A K \in {Copies, Open}, r \in {"ready", "orphaned"} : r # p => At(K, r)' = At(K, r),
         UNCHANGED <<rows, thread, inbox, pending, services, used>>
  PROVE  Kept
<1> DEFINE h == Head(q)
           start == Mk("started", h.task, h.n, FALSE)
<1>1. h \in Of({"ready"}) /\ h \in TaskEvent
  BY HeadTailProperties DEF Of
<1>2. held' = [held EXCEPT ![w] = h] /\ stream' = [stream EXCEPT !["tasks"] = Append(@, start)]
  BY DEF Begin
<1>3. start \in Of({"started"}) /\ start \in TaskEvent
  BY <1>1 DEF Mk, Of, TaskEvent, EventType
<1>4. ASSUME NEW K \in {Copies, Open}
      PROVE  One(K, h) \subseteq At(K, p) /\ At(K, p)' \subseteq At(K, p)
  <2>1. One(K, Head(q)) \subseteq About(K, q) /\ About(K, Tail(q)) \subseteq About(K, q)
    BY FirstTaken
  <2> QED
    BY <2>1
<1>5. Once(Copies, Tail(q)) /\ One(Copies, h) \cap About(Copies, Tail(q)) = {}
  BY FirstOnce
<1>6. stream'["policy"] = stream["policy"]
  BY <1>2 DEF State, Inv, QueuesTyped, Stream
<1> HIDE DEF h, start
<1>7. ASSUME NEW K \in {Copies, Open} PROVE Shifts(K, p, "held", One(K, h))
  <2>0. One(K, start) = {}
    BY <1>3, CopiesAre
  <2>1. About(K, stream'["tasks"]) = About(K, stream["tasks"])
    BY <1>2, <1>3, <2>0, TasksGain
  <2>2. About(K, held') \subseteq About(K, held) \cup One(K, h)
    BY <1>1, <1>2, TakesUp
  <2>3. InHandOf(K)' = InHandOf(K)
    BY DEF InHandOf
  <2> QED
    BY <1>4, <1>6, <2>1, <2>2, <2>3, AtIs, AtWillBe DEF Shifts, Place, services
<1>8. One(Copies, h) \cap About(Copies, held) = {}
  BY <1>4, AtIs DEF Tidy, Separate, Place
<1>9. OnceEach'
  <2>1. Once(Copies, held')
    BY <1>1, <1>2, <1>8, TakesUpOnce DEF Tidy, OnceEach
  <2>2. One(Copies, start) = {}
    BY <1>3, CopiesAre
  <2>3. Once(Copies, stream'["tasks"])
    BY <1>2, <1>3, <2>2, TasksGainOnce DEF Tidy, OnceEach
  <2> QED
    BY <1>6, <2>1, <2>3 DEF Tidy, OnceEach, services
<1>10. One(Copies, h) \cap At(Copies, p)' = {}
  BY <1>5 DEF h
<1>11. Shifts(Copies, p, "held", One(Copies, h)) /\ Shifts(Open, p, "held", One(Open, h))
  BY <1>7
<1> QED
  BY <1>9, <1>10, <1>11, ShiftKeeps DEF Place

\* What a worker holds is a copy of both kinds.
LEMMA HeldIsCopy ==
  ASSUME State, NEW w \in Worker, held[w] # NoEvent
  PROVE  /\ held[w] \in Of({"ready"}) /\ held[w] \in TaskEvent
         /\ held[w].task \in Task /\ held[w].n \in Nat
         /\ \A K \in {Copies, Open} : One(K, held[w]) = {held[w].task}
<1>1. held[w] \in Of({"ready"})
  BY DEF State, Kinds
<1>2. held[w] \in TaskEvent /\ held[w].task \in Task /\ held[w].n \in Nat
        /\ held[w] \in Of({"ready", "completed", "policy_check", "allow", "deny"})
  BY <1>1 DEF Of, TaskEvent
<1> QED
  BY <1>1, <1>2, CopiesAre

\* A worker reports.
LEMMA ReportKept ==
  ASSUME State, Calm, Tidy, NEW w \in Worker, held[w] # NoEvent, NEW e \in TaskEvent,
         e.task = held[w].task, held' = [held EXCEPT ![w] = NoEvent],
         stream' = [stream EXCEPT !["tasks"] = Append(@, e)],
         UNCHANGED <<rows, thread, inbox, pending, ready, orphaned, toPolicy>>
  PROVE  Kept
<1> DEFINE h == held[w]
<1>1. \A K \in {Copies, Open} : One(K, e) \subseteq One(K, h) /\ One(K, h) \subseteq About(K, held)
  BY HeldIsCopy, CopiesAre, PutsDown
<1> HIDE DEF h
<1>2. stream'["policy"] = stream["policy"]
  BY DEF State, Inv, QueuesTyped, Stream
<1>3. ASSUME NEW K \in {Copies, Open} PROVE Shifts(K, "held", "tasks", One(K, h))
  <2>1. About(K, stream'["tasks"]) = About(K, stream["tasks"]) \cup One(K, e)
    BY TasksGain
  <2>2. About(K, held') \subseteq About(K, held)
    BY PutsDown
  <2>3. InHandOf(K)' = InHandOf(K)
    BY DEF InHandOf
  <2>4. One(K, h) \subseteq At(K, "held")
    BY <1>1, AtIs
  <2>5. At(K, "tasks")' \subseteq At(K, "tasks") \cup One(K, h)
    BY <1>1, <2>1, AtIs, AtWillBe
  <2> QED
    BY <1>2, <2>2, <2>3, <2>4, <2>5, ShiftsByPlace DEF Place
<1>4. Once(Copies, held') /\ One(Copies, h) \cap About(Copies, held') = {}
  BY PutsDownOnce DEF Tidy, OnceEach, h
<1>5. OnceEach'
  <2>1. About(Copies, held) \cap About(Copies, stream["tasks"]) = {}
    BY AtIs DEF Tidy, Separate, Place
  <2>2. Once(Copies, stream'["tasks"])
    BY <1>1, <2>1, TasksGainOnce DEF Tidy, OnceEach
  <2> QED
    BY <1>2, <1>4, <2>2 DEF Tidy, OnceEach
<1>6. One(Copies, h) \cap At(Copies, "held")' = {}
  BY <1>4, AtWillBe
<1>7. Shifts(Copies, "held", "tasks", One(Copies, h)) /\ Shifts(Open, "held", "tasks", One(Open, h))
  BY <1>3
<1> QED
  BY <1>5, <1>6, <1>7, ShiftKeeps DEF Place

\* A worker lets an entry go, to a queue q at place p.
LEMMA ReleaseKept ==
  ASSUME State, Calm, Tidy, NEW w \in Worker, held[w] # NoEvent, NEW e \in TaskEvent,
         e.task = held[w].task, held' = [held EXCEPT ![w] = NoEvent],
         NEW q \in Seq(TaskEvent), NEW p \in {"ready", "orphaned"}, Once(Copies, q),
         \A K \in {Copies, Open} : At(K, p) = About(K, q) /\ At(K, p)' = About(K, Append(q, e)),
         Once(Copies, Append(q, e)) => Once(Copies, ready') /\ Once(Copies, orphaned'),
         \A K \in {Copies, Open}, r \in {"ready", "orphaned"} : r # p => At(K, r)' = At(K, r),
         UNCHANGED <<rows, thread, queues, services>>
  PROVE  Kept
<1> DEFINE h == held[w]
<1>1. \A K \in {Copies, Open} : One(K, e) \subseteq One(K, h) /\ One(K, h) \subseteq About(K, held)
  BY HeldIsCopy, CopiesAre, PutsDown
<1> HIDE DEF h
<1>3. ASSUME NEW K \in {Copies, Open} PROVE Shifts(K, "held", p, One(K, h))
  <2>1. About(K, Append(q, e)) = About(K, q) \cup One(K, e)
    BY Gained
  <2>2. About(K, held') \subseteq About(K, held)
    BY PutsDown
  <2>3. InHandOf(K)' = InHandOf(K)
    BY DEF InHandOf
  <2>4. One(K, h) \subseteq At(K, "held")
    BY <1>1, AtIs
  <2>5. At(K, p)' \subseteq At(K, p) \cup One(K, h)
    BY <1>1, <2>1
  <2>6. /\ "ready" # p => About(K, ready') \subseteq About(K, ready)
        /\ "orphaned" # p => About(K, orphaned') \subseteq About(K, orphaned)
    BY AtIs, AtWillBe
  <2> QED
    BY <2>2, <2>3, <2>4, <2>5, <2>6, ShiftsByPlace DEF Place, queues, services
<1>4. Once(Copies, held') /\ One(Copies, h) \cap About(Copies, held') = {}
  BY PutsDownOnce DEF Tidy, OnceEach, h
<1>5. OnceEach'
  <2>1. At(Copies, "held") \cap At(Copies, p) = {}
    BY DEF Tidy, Separate, Place
  <2>2. One(Copies, e) \cap About(Copies, q) = {}
    BY <1>1, <2>1, AtIs
  <2>3. Once(Copies, Append(q, e))
    BY <2>2, OnceAppend
  <2> QED
    BY <1>4, <2>3 DEF Tidy, OnceEach, queues, services
<1>6. One(Copies, h) \cap At(Copies, "held")' = {}
  BY <1>4, AtWillBe
<1>7. Shifts(Copies, "held", p, One(Copies, h)) /\ Shifts(Open, "held", p, One(Open, h))
  BY <1>3
<1> QED
  BY <1>5, <1>6, <1>7, ShiftKeeps DEF Place

\* Copies are lost.
LEMMA LossKept ==
  ASSUME Tidy, OnceEach', NEW p \in Place, NEW q \in Place, p # q,
         \A K \in {Copies, Open} : Shifts(K, p, q, {})
  PROVE  Kept
BY ShiftKeeps

\* The workers move one copy each time, or lose it.
LEMMA WorkersKept ==
  ASSUME State, Calm, Tidy, WorkerStep \/ WorkerFault
  PROVE  Kept
<1>1. /\ ready \in Seq(Of({"ready"})) /\ orphaned \in Seq(Of({"ready"}))
      /\ ready \in Seq(TaskEvent) /\ orphaned \in Seq(TaskEvent)
      /\ Once(Copies, ready) /\ Once(Copies, orphaned) /\ OnceEach
      /\ used \in [Disturbance -> Nat]
  BY DEF State, Inv, QueuesTyped, Kinds, Tidy, OnceEach
<1>2. ASSUME NEW w \in Worker, Take(w) PROVE Kept
  <2>1. /\ ready # <<>> /\ Begin(w, Head(ready)) /\ ready' = Tail(ready)
        /\ UNCHANGED <<rows, thread, inbox, pending, orphaned, services, used>>
    BY <1>2 DEF Take
  <2>2. Once(Copies, ready') /\ Once(Copies, orphaned')
    BY <1>1, <2>1, FirstOnce
  <2>3. \A K \in {Copies, Open} : /\ At(K, "ready") = About(K, ready)
                                  /\ At(K, "ready")' = About(K, Tail(ready))
                                  /\ At(K, "orphaned")' = At(K, "orphaned")
    BY <2>1, AtIs, AtWillBe
  <2>4. \A K \in {Copies, Open}, r \in {"ready", "orphaned"} : r # "ready" => At(K, r)' = At(K, r)
    BY <2>3
  <2> QED
    BY <1>1, <2>1, <2>2, <2>3, <2>4, BeginKept
<1>3. ASSUME NEW w \in Worker, Claim(w) PROVE Kept
  <2>1. /\ orphaned # <<>> /\ Begin(w, Head(orphaned)) /\ orphaned' = Tail(orphaned)
        /\ UNCHANGED <<rows, thread, inbox, pending, ready, services, used>>
    BY <1>3 DEF Claim
  <2>2. Once(Copies, ready') /\ Once(Copies, orphaned')
    BY <1>1, <2>1, FirstOnce
  <2>3. \A K \in {Copies, Open} : /\ At(K, "orphaned") = About(K, orphaned)
                                  /\ At(K, "orphaned")' = About(K, Tail(orphaned))
                                  /\ At(K, "ready")' = At(K, "ready")
    BY <2>1, AtIs, AtWillBe
  <2>4. \A K \in {Copies, Open}, r \in {"ready", "orphaned"} : r # "orphaned" => At(K, r)' = At(K, r)
    BY <2>3
  <2> QED
    BY <1>1, <2>1, <2>2, <2>3, <2>4, BeginKept
<1>4. ASSUME NEW w \in Worker, Complete(w) PROVE Kept
  <2> DEFINE e == Mk("completed", held[w].task, held[w].n, FALSE)
  <2>1. /\ held[w] # NoEvent /\ held' = [held EXCEPT ![w] = NoEvent]
        /\ stream' = [stream EXCEPT !["tasks"] = Append(@, e)]
        /\ UNCHANGED <<rows, thread, inbox, pending, ready, orphaned, toPolicy>>
    BY <1>4 DEF Complete
  <2>2. e \in TaskEvent /\ e.task = held[w].task
    BY <2>1, HeldIsCopy DEF Mk, TaskEvent, EventType
  <2> HIDE DEF e
  <2> QED
    BY <2>1, <2>2, ReportKept
<1>5. ASSUME NEW w \in Worker, NEW kind \in ErrorKind, Fail(w, kind) PROVE Kept
  <2> DEFINE retry  == Mk("ready", held[w].task, held[w].n + 1, FALSE)
             failed == Mk("failed", held[w].task, held[w].n, kind = "transient")
  <2>1. /\ held[w] # NoEvent /\ held' = [held EXCEPT ![w] = NoEvent]
        /\ UNCHANGED <<rows, thread, inbox, pending, orphaned, services>>
        /\ \/ ready' = Append(ready, retry) /\ UNCHANGED stream
           \/ stream' = [stream EXCEPT !["tasks"] = Append(@, failed)] /\ UNCHANGED ready
    BY <1>5 DEF Fail
  <2>2. /\ failed \in TaskEvent /\ failed.task = held[w].task
        /\ retry \in TaskEvent /\ retry.task = held[w].task
    <3>1. held[w].task \in Task /\ held[w].n \in Nat
      BY <2>1, HeldIsCopy
    <3>2. \A b \in BOOLEAN : Mk("failed", held[w].task, held[w].n, b) \in TaskEvent
      BY <3>1 DEF Mk, TaskEvent, EventType
    <3>3. (kind = "transient") \in BOOLEAN
      OBVIOUS
    <3> QED
      BY <3>1, <3>2, <3>3 DEF Mk, TaskEvent, EventType
  <2> HIDE DEF retry, failed
  <2>3. CASE ready' = Append(ready, retry) /\ UNCHANGED stream
    <3>1. \A K \in {Copies, Open} : /\ At(K, "ready") = About(K, ready)
                                    /\ At(K, "ready")' = About(K, Append(ready, retry))
                                    /\ At(K, "orphaned")' = At(K, "orphaned")
      BY <2>1, <2>3, AtIs, AtWillBe
    <3>2. \A K \in {Copies, Open}, r \in {"ready", "orphaned"} : r # "ready" => At(K, r)' = At(K, r)
      BY <3>1
    <3> QED
      BY <1>1, <2>1, <2>2, <2>3, <3>1, <3>2, ReleaseKept DEF queues
  <2>4. CASE stream' = [stream EXCEPT !["tasks"] = Append(@, failed)] /\ UNCHANGED ready
    BY <2>1, <2>2, <2>4, ReportKept DEF services
  <2> QED
    BY <2>1, <2>3, <2>4
<1>6. ASSUME NEW w \in Worker, WorkerCrash(w) PROVE Kept
  <2> DEFINE e == held[w]
  <2>1. /\ e # NoEvent /\ held' = [held EXCEPT ![w] = NoEvent]
        /\ orphaned' = Append(orphaned, e)
        /\ UNCHANGED <<rows, thread, queues, ready, services>>
    BY <1>6 DEF WorkerCrash
  <2>2. e \in TaskEvent /\ e.task = held[w].task
    BY <2>1, HeldIsCopy
  <2>3. \A K \in {Copies, Open} : /\ At(K, "orphaned") = About(K, orphaned)
                                  /\ At(K, "orphaned")' = About(K, Append(orphaned, e))
                                  /\ At(K, "ready")' = At(K, "ready")
    BY <2>1, AtIs, AtWillBe
  <2>4. \A K \in {Copies, Open}, r \in {"ready", "orphaned"} : r # "orphaned" => At(K, r)' = At(K, r)
    BY <2>3
  <2> QED
    BY <1>1, <2>1, <2>2, <2>3, <2>4, ReleaseKept
<1>7. ASSUME NEW w \in Worker, LoseResult(w) PROVE Kept
  <2>1. /\ held[w] # NoEvent /\ held' = [held EXCEPT ![w] = NoEvent]
        /\ UNCHANGED <<rows, thread, queues, ready, orphaned, services>>
    BY <1>7 DEF LoseResult
  <2>2. OnceEach'
    BY <1>1, <2>1, PutsDownOnce DEF OnceEach, queues, services
  <2>3. ASSUME NEW K \in {Copies, Open} PROVE Shifts(K, "ready", "held", {})
    <3>1. About(K, held') \subseteq About(K, held)
      BY <2>1, PutsDown
    <3>2. InHandOf(K)' = InHandOf(K)
      BY <2>1 DEF InHandOf
    <3>3. At(K, "held")' \subseteq At(K, "held") \cup {}
      BY <3>1, AtIs, AtWillBe
    <3> QED
      BY <2>1, <3>1, <3>2, <3>3, ShiftsByPlace DEF Place, queues, services
  <2> QED
    BY <2>2, <2>3, LossKept DEF Place
<1>8. ASSUME NEW w \in Worker, NEW v \in Worker, Steal(w, v) PROVE FALSE
  <2>1. used'["steal"] = used["steal"] + 1 /\ used' \in Faults
    BY <1>1, <1>8 DEF Steal, Disturb, Disturbance
  <2>2. used["steal"] \in Nat /\ used'["steal"] = 0
    BY <1>1, <2>1 DEF Calm, Disturbance
  <2> QED
    BY <2>1, <2>2
<1> QED
  BY <1>2, <1>3, <1>4, <1>5, <1>6, <1>7, <1>8 DEF WorkerStep, WorkerFault, Finish

\* The policy gate answers, or loses, one check each time.
LEMMA ServicesKept ==
  ASSUME State, Calm, Tidy, ServiceStep
  PROVE  Kept
<1>1. /\ toPolicy \in Seq(Of(Checks)) /\ toPolicy \in Seq(TaskEvent)
      /\ stream \in [Stream -> Seq(TaskEvent)]
      /\ OnceEach /\ Once(Copies, toPolicy) /\ Once(Copies, stream["policy"])
  BY DEF State, Inv, QueuesTyped, Kinds, Tidy, OnceEach
<1>2. toCritic = <<>>
  <2>1. Of(IF Critic THEN {"completed"} ELSE {}) = {}
    BY DEF Calm, Of
  <2>2. toCritic \in Seq({})
    BY <2>1 DEF State, Kinds
  <2> QED
    BY <2>2, HeadTailProperties
<1>3. UNCHANGED <<rows, thread, inbox, pending, workers>>
  BY DEF ServiceStep, DecidePolicy, Review, LoseCheck, LoseReview, queues
<1>4. \A K \in {Copies, Open} : InHandOf(K)' = InHandOf(K)
  BY <1>3 DEF InHandOf
<1>5. CASE DecidePolicy
  <2> DEFINE h == Head(toPolicy)
             P == stream["policy"]
  <2>1. PICK d \in {"allow", "deny"} :
          stream' = [stream EXCEPT !["policy"] = Append(@, Mk(d, Head(toPolicy).task, 0, FALSE))]
    BY <1>5 DEF DecidePolicy
  <2> DEFINE e == Mk(d, Head(toPolicy).task, 0, FALSE)
  <2>2. toPolicy # <<>> /\ toPolicy' = Tail(toPolicy)
    BY <1>5 DEF DecidePolicy
  <2>3. h \in Of(Checks) /\ h \in TaskEvent /\ h.task \in Task
    BY <1>1, <2>2, HeadTailProperties DEF Of, TaskEvent
  <2>4. /\ h \in Of({"ready", "completed", "policy_check", "allow", "deny"})
        /\ e \in Of({"ready", "completed", "policy_check", "allow", "deny"})
        /\ e \in TaskEvent /\ e.task = h.task
    BY <2>3 DEF Mk, Of, TaskEvent, EventType, Checks
  <2>5. stream'["tasks"] = stream["tasks"] /\ stream'["policy"] = Append(P, e)
    BY <1>1, <2>1 DEF Stream
  <2>6. P \in Seq(TaskEvent)
    BY <1>1 DEF Stream
  <2>7. \A K \in {Copies, Open} : /\ One(K, h) \subseteq About(K, toPolicy)
                                  /\ About(K, toPolicy') \subseteq About(K, toPolicy)
    BY <1>1, <2>2, FirstTaken
  <2>8. Once(Copies, toPolicy') /\ One(Copies, h) \cap About(Copies, toPolicy') = {}
    BY <1>1, <2>2, FirstOnce
  <2> HIDE DEF h, e, P
  <2>9. \A K \in {Copies, Open} : One(K, e) = One(K, h)
    BY <2>4, CopiesAre
  <2>10. ASSUME NEW K \in {Copies, Open} PROVE Shifts(K, "policy", "decisions", One(K, h))
    <3>1. About(K, Append(P, e)) = About(K, P) \cup One(K, e)
      BY <2>4, <2>6, Gained
    <3>2. One(K, h) \subseteq At(K, "policy")
      BY <2>7, AtIs
    <3>3. At(K, "decisions")' \subseteq At(K, "decisions") \cup One(K, h)
      BY <2>5, <2>9, <3>1, AtIs, AtWillBe DEF P
    <3> QED
      BY <1>3, <1>4, <2>5, <2>7, <3>2, <3>3, ShiftsByPlace DEF Place, workers
  <2>11. OnceEach'
    <3>1. One(Copies, e) \cap About(Copies, P) = {}
      <4>1. About(Copies, toPolicy) \cap About(Copies, P) = {}
        BY AtIs DEF Tidy, Separate, Place, P
      <4> QED
        BY <2>7, <2>9, <4>1
    <3>2. Once(Copies, Append(P, e))
      BY <1>1, <2>4, <2>6, <3>1, OnceAppend DEF P
    <3> QED
      BY <1>1, <1>3, <2>5, <2>8, <3>2 DEF OnceEach, workers
  <2>12. One(Copies, h) \cap At(Copies, "policy")' = {}
    BY <2>8, AtWillBe
  <2>13. /\ Shifts(Copies, "policy", "decisions", One(Copies, h))
         /\ Shifts(Open, "policy", "decisions", One(Open, h))
    BY <2>10
  <2> QED
    BY <2>11, <2>12, <2>13, ShiftKeeps DEF Place
<1>6. CASE LoseCheck
  <2>1. toPolicy # <<>> /\ toPolicy' = Tail(toPolicy) /\ stream' = stream
    BY <1>6 DEF LoseCheck, queues
  <2>2. OnceEach'
    <3>1. Once(Copies, toPolicy')
      BY <1>1, <2>1, FirstOnce
    <3> QED
      BY <1>1, <1>3, <2>1, <3>1 DEF OnceEach, workers
  <2>3. ASSUME NEW K \in {Copies, Open} PROVE Shifts(K, "ready", "policy", {})
    <3>1. About(K, toPolicy') \subseteq About(K, toPolicy)
      BY <1>1, <2>1, FirstTaken
    <3>2. At(K, "policy")' \subseteq At(K, "policy") \cup {}
      BY <3>1, AtIs, AtWillBe
    <3> QED
      BY <1>3, <1>4, <2>1, <3>2, ShiftsByPlace DEF Place, workers
  <2> QED
    BY <2>2, <2>3, LossKept DEF Place
<1> QED
  BY <1>2, <1>5, <1>6 DEF ServiceStep, Review, LoseReview

\* The replica takes an entry in hand.
LEMMA PicksUp ==
  ASSUME State, Calm, NEW e, Picks(Replica, e), NEW K \in {Copies, Open}
  PROVE  /\ InHandOf(K) = {} /\ InHandOf(K)' = One(K, e)
         /\ AboutAny(K, thread'[Replica].out) = {}
         /\ \A f, g \in thread'[Replica].out : f = g
<1>1. /\ thread[Replica].pc = "idle"
      /\ thread'[Replica].pc = "handle" /\ thread'[Replica].ev = e /\ thread'[Replica].out = {}
  BY DEF Picks, Becomes, Handle, Idle
<1> QED
  BY <1>1 DEF InHandOf, AboutAny

\* It takes the first entry of a queue q, at place p.
LEMMA PickKept ==
  ASSUME State, Calm, Tidy, NEW S, NEW q \in Seq(S), q # <<>>, Once(Copies, q),
         Picks(Replica, Head(q)), NEW p \in {"inbox", "pending"},
         \A K \in {Copies, Open} : At(K, p) = About(K, q) /\ At(K, p)' = About(K, Tail(q)),
         \A K \in {Copies, Open}, r \in {"inbox", "pending"} : r # p => At(K, r)' = At(K, r),
         Once(Copies, inbox'[Replica]), Once(Copies, pending'),
         UNCHANGED <<stream, workers, services>>
  PROVE  Kept
<1> DEFINE h == Head(q)
<1>1. \A K \in {Copies, Open} : One(K, h) \subseteq About(K, q) /\ About(K, Tail(q)) \subseteq About(K, q)
  BY FirstTaken
<1>2. One(Copies, h) \cap About(Copies, Tail(q)) = {}
  BY FirstOnce
<1>3. Picks(Replica, h)
  OBVIOUS
<1> HIDE DEF h
<1>4. ASSUME NEW K \in {Copies, Open} PROVE Shifts(K, p, "hand", One(K, h))
  <2>1. InHandOf(K)' = One(K, h) /\ AboutAny(K, thread'[Replica].out) = {}
    BY <1>3, PicksUp
  <2>2. At(K, "hand")' \subseteq At(K, "hand") \cup One(K, h)
    BY <2>1, AtWillBe
  <2>3. One(K, h) \subseteq At(K, p) /\ At(K, p)' \subseteq At(K, p)
    BY <1>1
  <2>4. /\ About(K, inbox'[Replica]) \subseteq About(K, inbox[Replica])
        /\ About(K, pending') \subseteq About(K, pending)
    BY <2>3, AtIs, AtWillBe
  <2> QED
    BY <2>1, <2>2, <2>3, <2>4, ShiftsByPlace DEF Place, workers, services
<1>5. OnceEach'
  <2>1. \A f, g \in thread'[Replica].out : f = g
    BY <1>3, PicksUp
  <2> QED
    BY <2>1 DEF Tidy, OnceEach, workers, services
<1>6. One(Copies, h) \cap At(Copies, p)' = {}
  BY <1>2
<1>7. Shifts(Copies, p, "hand", One(Copies, h)) /\ Shifts(Open, p, "hand", One(Open, h))
  BY <1>4
<1> QED
  BY <1>5, <1>6, <1>7, ShiftKeeps DEF Place

\* Copies move from two places to two that had none.
LEMMA SpreadSeparate ==
  ASSUME Separate, NEW m, m \subseteq At(Copies, "tasks") \cup At(Copies, "decisions"),
         m \cap (At(Copies, "tasks")' \cup At(Copies, "decisions")') = {},
         At(Copies, "inbox")' \subseteq m, At(Copies, "hand")' \subseteq m,
         At(Copies, "inbox")' \cap At(Copies, "hand")' = {},
         \A r \in Place : r \notin {"inbox", "hand"} => At(Copies, r)' \subseteq At(Copies, r)
  PROVE  Separate'
<1>1. ASSUME NEW r \in Place, r \notin {"inbox", "hand"} PROVE m \cap At(Copies, r)' = {}
  <2>1. CASE r \in {"tasks", "decisions"}
    BY <2>1
  <2>2. CASE r \notin {"tasks", "decisions"}
    <3>1. At(Copies, "tasks") \cap At(Copies, r) = {} /\ At(Copies, "decisions") \cap At(Copies, r) = {}
      BY <2>2 DEF Separate, Place
    <3> QED
      BY <1>1, <3>1
  <2> QED
    BY <2>1, <2>2
<1> SUFFICES ASSUME NEW r \in Place, NEW s \in Place, r # s
             PROVE  At(Copies, r)' \cap At(Copies, s)' = {}
  BY DEF Separate
<1>2. CASE r \notin {"inbox", "hand"} /\ s \notin {"inbox", "hand"}
  <2>1. At(Copies, r)' \subseteq At(Copies, r) /\ At(Copies, s)' \subseteq At(Copies, s)
    BY <1>2
  <2>2. At(Copies, r) \cap At(Copies, s) = {}
    BY DEF Separate
  <2> QED
    BY <2>1, <2>2
<1>3. CASE r \in {"inbox", "hand"} /\ s \notin {"inbox", "hand"}
  BY <1>1, <1>3
<1>4. CASE r \notin {"inbox", "hand"} /\ s \in {"inbox", "hand"}
  BY <1>1, <1>4
<1>5. CASE r \in {"inbox", "hand"} /\ s \in {"inbox", "hand"}
  BY <1>5
<1> QED
  BY <1>2, <1>3, <1>4, <1>5

\* Two sequences of task events in one.
LEMMA Joined ==
  ASSUME NEW K, NEW s \in Seq(TaskEvent), NEW u \in Seq(TaskEvent)
  PROVE  About(K, s \o u) = About(K, s) \cup About(K, u)
BY AboutConcat

\* Each event once, when each of the two has it once and they are about different tasks.
LEMMA JoinedOnce ==
  ASSUME NEW s \in Seq(TaskEvent), NEW u \in Seq(TaskEvent)
  PROVE  Once(Copies, s \o u)
           <=> Once(Copies, s) /\ Once(Copies, u) /\ About(Copies, s) \cap About(Copies, u) = {}
BY AboutConcat

\* A batch, once the critic is off: the tasks stream's share and the decisions' share, and the
\* first entry apart from the rest.
LEMMA BatchIs ==
  ASSUME State, Calm, NEW batch \in Seq(TaskEvent), batch # <<>>,
         batch = Oldest(stream["tasks"]) \o Oldest(stream["critic"]) \o Oldest(stream["policy"])
  PROVE  /\ Oldest(stream["tasks"]) \in Seq(TaskEvent) /\ Remaining(stream["tasks"]) \in Seq(TaskEvent)
         /\ Oldest(stream["policy"]) \in Seq(TaskEvent) /\ Remaining(stream["policy"]) \in Seq(TaskEvent)
         /\ stream["tasks"] = Oldest(stream["tasks"]) \o Remaining(stream["tasks"])
         /\ stream["policy"] = Oldest(stream["policy"]) \o Remaining(stream["policy"])
         /\ batch = Oldest(stream["tasks"]) \o Oldest(stream["policy"])
<1>1. \A q \in Stream : stream[q] \in Seq(TaskEvent)
  BY DEF State, Inv, QueuesTyped
<1>2. \A q \in Stream : /\ Oldest(stream[q]) \in Seq(TaskEvent)
                        /\ Remaining(stream[q]) \in Seq(TaskEvent)
                        /\ stream[q] = Oldest(stream[q]) \o Remaining(stream[q])
  BY <1>1, BatchSplits
<1>3. Oldest(stream["critic"]) = <<>>
  <2>1. Of(Reviews) = {}
    BY DEF Calm, Of, Reviews
  <2>2. stream["critic"] \in Seq({})
    BY <2>1 DEF State, Kinds
  <2>3. Oldest(stream["critic"]) \in Seq({})
    BY <2>2, BatchTyped
  <2> QED
    BY <2>3, HeadTailProperties
<1>4. Oldest(stream["tasks"]) \o <<>> = Oldest(stream["tasks"])
  BY <1>2 DEF Stream
<1> QED
  BY <1>2, <1>3, <1>4 DEF Stream

\* A sequence of task events, from its first one.
LEMMA FirstOf ==
  ASSUME NEW K, NEW h \in TaskEvent, NEW u \in Seq(TaskEvent)
  PROVE  About(K, Single(h) \o u) = One(K, h) \cup About(K, u)
BY AboutFirst

\* What the workers and the services have does not move.
LEMMA Untaken ==
  ASSUME NEW K, UNCHANGED <<ready, held, orphaned, toPolicy, pending>>
  PROVE  /\ At(K, "ready")' = At(K, "ready") /\ At(K, "held")' = At(K, "held")
         /\ At(K, "orphaned")' = At(K, "orphaned") /\ At(K, "policy")' = At(K, "policy")
         /\ At(K, "pending")' = At(K, "pending")
BY AtIs, AtWillBe

\* Reading a batch.
LEMMA DeliverKept ==
  ASSUME State, Calm, Tidy, NEW batch \in Seq(TaskEvent), batch # <<>>,
         batch = Oldest(stream["tasks"]) \o Oldest(stream["critic"]) \o Oldest(stream["policy"]),
         inbox[Replica] = <<>>, Picks(Replica, Head(batch)),
         inbox' = [inbox EXCEPT ![Replica] = Tail(batch)],
         stream' = [q \in Stream |-> Remaining(stream[q])],
         UNCHANGED <<pending, workers, services>>
  PROVE  Kept
<1> DEFINE O == Oldest(stream["tasks"])
           R == Remaining(stream["tasks"])
           P == Oldest(stream["policy"])
           Q == Remaining(stream["policy"])
           h == Head(batch)
           u == Tail(batch)
<1>0. O \in Seq(TaskEvent) /\ R \in Seq(TaskEvent) /\ P \in Seq(TaskEvent) /\ Q \in Seq(TaskEvent)
  BY BatchIs
<1>1. stream["tasks"] = O \o R /\ stream["policy"] = P \o Q /\ batch = O \o P
  BY BatchIs
<1>2. h \in TaskEvent /\ u \in Seq(TaskEvent)
  BY FirstAndRest
<1>20. batch = Single(h) \o u
  BY FirstAndRest
<1>3. /\ inbox'[Replica] = u /\ stream'["tasks"] = R /\ stream'["policy"] = Q
      /\ Picks(Replica, h)
  BY CalmMeans DEF State, Inv, QueuesTyped, Stream
<1> HIDE DEF O, R, P, Q, h, u
<1>4. ASSUME NEW K \in {Copies, Open}
      PROVE  /\ About(K, stream["tasks"]) = About(K, O) \cup About(K, R)
             /\ About(K, stream["policy"]) = About(K, P) \cup About(K, Q)
             /\ About(K, batch) = About(K, O) \cup About(K, P)
             /\ About(K, batch) = One(K, h) \cup About(K, u)
  <2>1. About(K, O \o R) = About(K, O) \cup About(K, R)
    BY <1>0, Joined
  <2>2. About(K, P \o Q) = About(K, P) \cup About(K, Q)
    BY <1>0, Joined
  <2>3. About(K, O \o P) = About(K, O) \cup About(K, P)
    BY <1>0, Joined
  <2>4. About(K, Single(h) \o u) = One(K, h) \cup About(K, u)
    BY <1>2, FirstOf
  <2> QED
    BY <1>1, <1>20, <2>1, <2>2, <2>3, <2>4
<1>5. About(Copies, stream["tasks"]) \cap About(Copies, stream["policy"]) = {}
  BY AtIs DEF Tidy, Separate, Place
<1>6. /\ Once(Copies, O) /\ Once(Copies, R) /\ About(Copies, O) \cap About(Copies, R) = {}
      /\ Once(Copies, P) /\ Once(Copies, Q) /\ About(Copies, P) \cap About(Copies, Q) = {}
  <2>1. Once(Copies, O \o R) /\ Once(Copies, P \o Q)
    BY <1>1 DEF Tidy, OnceEach
  <2> QED
    BY <1>0, <2>1, JoinedOnce
<1>7. Once(Copies, u) /\ One(Copies, h) \cap About(Copies, u) = {}
  <2>1. Once(Copies, O \o P)
    <3>1. About(Copies, O) \cap About(Copies, P) = {}
      BY <1>4, <1>5
    <3> QED
      BY <1>0, <1>6, <3>1, JoinedOnce
  <2>2. Once(Copies, Single(h) \o u)
    BY <1>1, <1>20, <2>1
  <2> QED
    BY <1>2, <2>2, OnceFirst
<1>8. ASSUME NEW K \in {Copies, Open}
      PROVE  /\ InHandOf(K) = {} /\ InHandOf(K)' = One(K, h)
             /\ AboutAny(K, thread'[Replica].out) = {} /\ \A f, g \in thread'[Replica].out : f = g
  BY <1>3, PicksUp
<1>9. OnceEach'
  BY <1>3, <1>6, <1>7, <1>8 DEF Tidy, OnceEach, workers, services
<1>10. ASSUME NEW K \in {Copies, Open}, NEW r \in Place, r \notin {"inbox", "hand"}
       PROVE  At(K, r)' \subseteq At(K, r)
  <2>1. /\ At(K, "tasks")' \subseteq At(K, "tasks")
        /\ At(K, "decisions")' \subseteq At(K, "decisions")
        /\ At(K, "emit")' \subseteq At(K, "emit")
    BY <1>3, <1>4, <1>8, AtIs, AtWillBe
  <2>2. /\ At(K, "ready")' = At(K, "ready") /\ At(K, "held")' = At(K, "held")
        /\ At(K, "orphaned")' = At(K, "orphaned") /\ At(K, "policy")' = At(K, "policy")
        /\ At(K, "pending")' = At(K, "pending")
    BY Untaken DEF workers, services
  <2> QED
    BY <1>10, <2>1, <2>2 DEF Place
<1>11. ASSUME NEW K \in {Copies, Open} PROVE All(K)' \subseteq All(K)
  <2>1. At(K, "inbox")' \cup At(K, "hand")' \subseteq At(K, "tasks") \cup At(K, "decisions")
    <3>1. At(K, "inbox")' = About(K, u) /\ At(K, "hand")' = One(K, h)
      BY <1>3, <1>8, AtWillBe
    <3>2. About(K, stream["tasks"]) = At(K, "tasks") /\ About(K, stream["policy"]) = At(K, "decisions")
      BY AtIs
    <3> QED
      BY <1>4, <3>1, <3>2
  <2> QED
    BY <1>10, <2>1 DEF All, Place
<1>12. /\ At(Copies, "inbox")' = About(Copies, u) /\ At(Copies, "hand")' = One(Copies, h)
       /\ At(Copies, "tasks")' = About(Copies, R) /\ At(Copies, "decisions")' = About(Copies, Q)
       /\ At(Copies, "tasks") = About(Copies, stream["tasks"])
       /\ At(Copies, "decisions") = About(Copies, stream["policy"])
  BY <1>3, <1>8, AtIs, AtWillBe
<1>13. /\ About(Copies, stream["tasks"]) = About(Copies, O) \cup About(Copies, R)
       /\ About(Copies, stream["policy"]) = About(Copies, P) \cup About(Copies, Q)
       /\ About(Copies, batch) = About(Copies, O) \cup About(Copies, P)
       /\ About(Copies, batch) = One(Copies, h) \cup About(Copies, u)
  BY <1>4
<1>14. Separate'
  <2> DEFINE m == About(Copies, batch)
  <2>1. m \subseteq At(Copies, "tasks") \cup At(Copies, "decisions")
    BY <1>12, <1>13
  <2>2. m \cap (At(Copies, "tasks")' \cup At(Copies, "decisions")') = {}
    BY <1>5, <1>6, <1>12, <1>13
  <2>3. At(Copies, "inbox")' \subseteq m /\ At(Copies, "hand")' \subseteq m
    BY <1>12, <1>13
  <2>4. At(Copies, "inbox")' \cap At(Copies, "hand")' = {}
    BY <1>7, <1>12
  <2> HIDE DEF m
  <2> QED
    BY <1>10, <2>1, <2>2, <2>3, <2>4, SpreadSeparate DEF Tidy
<1> QED
  BY <1>9, <1>11, <1>14 DEF Kept

\* The orchestrator's loop.
LEMMA LoopKept ==
  ASSUME State, Calm, Tidy, NEW a \in Api, Deliver(a) \/ NextEntry(a) \/ RecoverPending(a) \/ Ack(a)
  PROVE  Kept
<1>1. /\ a = Replica /\ inbox \in [Api -> Seq(TaskEvent)] /\ inbox[a] \in Seq(TaskEvent)
      /\ pending \in Seq(TaskEvent \cup {PlanCreated})
      /\ OnceEach /\ Once(Copies, inbox[Replica]) /\ Once(Copies, pending)
  BY CalmMeans DEF State, Inv, QueuesTyped, Tidy, OnceEach
<1>2. UNCHANGED <<rows, workers, services, used>>
  BY LoopIs
<1>3. CASE \E batch \in Seq(TaskEvent) :
             /\ batch = Oldest(stream["tasks"]) \o Oldest(stream["critic"])
                          \o Oldest(stream["policy"])
             /\ batch # <<>> /\ inbox[a] = <<>>
             /\ Picks(a, Head(batch)) /\ inbox' = [inbox EXCEPT ![a] = Tail(batch)]
             /\ stream' = [q \in Stream |-> Remaining(stream[q])]
             /\ pending' = pending
  BY <1>1, <1>2, <1>3, DeliverKept
<1>4. CASE /\ inbox[a] # <<>> /\ Picks(a, Head(inbox[a]))
           /\ inbox' = [inbox EXCEPT ![a] = Tail(@)]
           /\ UNCHANGED <<stream, pending>>
  <2> DEFINE q == inbox[a]
  <2>1. q # <<>> /\ Picks(Replica, Head(q)) /\ inbox'[Replica] = Tail(q) /\ Once(Copies, q)
          /\ q \in Seq(TaskEvent) /\ inbox[Replica] = q
    BY <1>1, <1>4
  <2> HIDE DEF q
  <2>2. Once(Copies, inbox'[Replica]) /\ Once(Copies, pending')
    BY <1>1, <1>4, <2>1, FirstOnce
  <2>3. \A K \in {Copies, Open} : /\ At(K, "inbox") = About(K, q)
                                  /\ At(K, "inbox")' = About(K, Tail(q))
                                  /\ At(K, "pending")' = At(K, "pending")
    BY <1>4, <2>1, AtIs, AtWillBe
  <2>4. \A K \in {Copies, Open}, r \in {"inbox", "pending"} : r # "inbox" => At(K, r)' = At(K, r)
    BY <2>3
  <2> QED
    BY <1>2, <1>4, <2>1, <2>2, <2>3, <2>4, PickKept
<1>5. CASE /\ inbox[a] = <<>> /\ pending # <<>> /\ Picks(a, Head(pending))
           /\ pending' = Tail(pending)
           /\ UNCHANGED <<stream, inbox>>
  <2>1. Picks(Replica, Head(pending))
    BY <1>1, <1>5
  <2>2. Once(Copies, inbox'[Replica]) /\ Once(Copies, pending')
    BY <1>1, <1>5, FirstOnce
  <2>3. \A K \in {Copies, Open} : /\ At(K, "pending") = About(K, pending)
                                  /\ At(K, "pending")' = About(K, Tail(pending))
                                  /\ At(K, "inbox")' = At(K, "inbox")
    BY <1>5, AtIs, AtWillBe
  <2>4. \A K \in {Copies, Open}, r \in {"inbox", "pending"} : r # "pending" => At(K, r)' = At(K, r)
    BY <2>3
  <2> QED
    BY <1>1, <1>2, <1>5, <2>1, <2>2, <2>3, <2>4, PickKept
<1>6. CASE thread[a].pc = "ack" /\ Becomes(a, Idle) /\ UNCHANGED queues
  <2>1. thread'[Replica].pc = "idle" /\ thread'[Replica].out = {}
    BY <1>1, <1>6 DEF Becomes, Idle
  <2>2. OnceEach'
    BY <1>1, <1>2, <1>6, <2>1 DEF OnceEach, queues, workers, services
  <2>3. ASSUME NEW K \in {Copies, Open} PROVE Shifts(K, "ready", "hand", {})
    <3>1. InHandOf(K)' = {} /\ AboutAny(K, thread'[Replica].out) = {}
      BY <2>1 DEF InHandOf, AboutAny
    <3>2. At(K, "hand")' \subseteq At(K, "hand") \cup {}
      BY <3>1, AtWillBe
    <3> QED
      BY <1>2, <1>6, <3>1, <3>2, ShiftsByPlace DEF Place, queues, workers, services
  <2> QED
    BY <2>2, <2>3, LossKept DEF Place
<1> QED
  BY <1>3, <1>4, <1>5, <1>6, LoopIs

\* A disturbance of a kind that no combination has does not happen.
LEMMA Spared ==
  ASSUME State, NEW kind \in Disturbance, \A f \in Faults : f[kind] = 0
  PROVE  ~Disturb(kind)
<1> SUFFICES ASSUME Disturb(kind) PROVE FALSE
  OBVIOUS
<1>1. used \in [Disturbance -> Nat]
  BY DEF State, Inv, QueuesTyped
<1>2. used'[kind] = used[kind] + 1 /\ used' \in Faults
  BY <1>1 DEF Disturb
<1>3. used'[kind] = 0
  BY <1>2
<1> QED
  BY <1>1, <1>2, <1>3

\* A handler that raises leaves its entry to be claimed.
LEMMA ErrorKept ==
  ASSUME State, Calm, Tidy, ApiFault
  PROVE  Kept /\ Redelivers /\ UNCHANGED <<rows, stream, inbox, workers, services>>
              /\ Becomes(Replica, Idle)
<1>1. used \in [Disturbance -> Nat] /\ Faults \subseteq [Disturbance -> Nat]
        /\ "apiError" \in Disturbance /\ "apiCrash" \in Disturbance
  BY OrchestratorAssumption DEF State, Inv, QueuesTyped, Disturbance
<1>2. \A a \in Api : ~ApiCrash(a)
  BY <1>1, Spared DEF Calm, ApiCrash
<1>3. HandlerError(Replica)
  BY <1>2, CalmMeans DEF ApiFault
<1>4. Redelivers
  <2>1. Disturb("apiError")
    BY <1>3 DEF HandlerError
  <2>2. PICK f \in Faults : f["apiError"] # 0
    BY <1>1, <2>1, Spared
  <2>3. f["apiError"] \in Nat
    BY <1>1, <2>2
  <2> QED
    BY <2>2, <2>3 DEF Redelivers
<1> DEFINE e == thread[Replica].ev
           E == TaskEvent \cup {PlanCreated}
<1>5. /\ thread[Replica].pc # "idle" /\ e \in E
      /\ thread \in Threads(Nat, TaskEvent) /\ pending \in Seq(E) /\ Replica \in Thread
      /\ pending' = Append(pending, e) /\ thread' = [thread EXCEPT ![Replica] = Idle]
      /\ UNCHANGED <<rows, stream, inbox, workers, services>>
  <2>1. thread[Replica].pc # "idle"
    BY <1>3 DEF HandlerError, MayRaise
  <2>2. Replica \in Api /\ Replica \in Thread /\ thread \in Threads(Nat, TaskEvent)
    BY CalmMeans DEF State, Inv
  <2>3. e \in E
    BY <2>1, <2>2 DEF Threads, Consistent, ThreadRecord
  <2> QED
    BY <1>3, <2>1, <2>2, <2>3 DEF HandlerError, Unacked, State, Inv, QueuesTyped
<1>6. Becomes(Replica, Idle)
  BY <1>5, BecomesUpdate
<1>7. thread'[Replica].pc = "idle" /\ thread'[Replica].out = {}
  BY <1>6 DEF Becomes, Idle
<1>8. ASSUME NEW K \in {Copies, Open}
      PROVE  InHandOf(K) = One(K, e) /\ InHandOf(K)' = {} /\ AboutAny(K, thread'[Replica].out) = {}
  BY <1>4, <1>5, <1>7 DEF InHandOf, AboutAny
<1> HIDE DEF e, E
<1>9. ASSUME NEW K \in {Copies, Open} PROVE Shifts(K, "hand", "pending", One(K, e))
  <2>0. pending \in Seq(E) /\ e \in E
    BY <1>5
  <2>1. About(K, Append(pending, e)) = About(K, pending) \cup One(K, e)
    BY <2>0, GainedBy
  <2>2. At(K, "pending")' \subseteq At(K, "pending") \cup One(K, e)
    BY <1>5, <2>1, AtIs, AtWillBe
  <2>3. One(K, e) \subseteq At(K, "hand")
    BY <1>8, AtIs
  <2> QED
    BY <1>5, <1>8, <2>2, <2>3, ShiftsByPlace DEF Place, workers, services
<1>10. OnceEach'
  <2>1. One(Copies, e) \cap About(Copies, pending) = {}
    BY <1>8, AtIs DEF Tidy, Separate, Place
  <2>2. Once(Copies, pending')
    BY <1>5, <2>1, OnceAppend DEF Tidy, OnceEach
  <2> QED
    BY <1>5, <1>7, <2>2 DEF Tidy, OnceEach, workers, services
<1>11. One(Copies, e) \cap At(Copies, "hand")' = {}
  BY <1>8, AtWillBe
<1>12. Shifts(Copies, "hand", "pending", One(Copies, e)) /\ Shifts(Open, "hand", "pending", One(Open, e))
  BY <1>9
<1>13. Kept
  BY <1>10, <1>11, <1>12, ShiftKeeps DEF Place
<1> QED
  BY <1>4, <1>5, <1>6, <1>13

\* What a handler will emit: at most one event, about the task of its entry, and only where its
\* entry cannot come back.
LEMMA HandlerOut ==
  ASSUME State, Calm, Tidy, HandleEvent(Replica)
  PROVE  \/ thread'[Replica].out = {}
         \/ /\ ~Redelivers /\ thread[Replica].pc = "handle"
            /\ \E e \in TaskEvent : thread'[Replica].out = {e} /\ e.task = thread[Replica].ev.task
            /\ \A K \in {Copies, Open} : One(K, thread[Replica].ev) = {thread[Replica].ev.task}
<1> DEFINE ev == thread[Replica].ev
<1>1. HandlerFrameOf(Replica) /\ HandlerEffect(Replica) /\ Replica \in Api /\ Replica \in Thread
  BY HandlerIs, CalmMeans
<1>2. ev \in TaskEvent => ev.task \in Task
  BY DEF TaskEvent
<1>3. \A type \in {"ready", "failed"}, n \in Nat :
        ev \in TaskEvent => /\ Mk(type, ev.task, n, FALSE) \in TaskEvent
                            /\ Mk(type, ev.task, n, FALSE).task = ev.task
  BY <1>2 DEF Mk, TaskEvent, EventType
<1>4. CASE thread'[Replica].out # {} /\ ev \in Of({"failed"}) /\ RetriesSameStep(ev)
             /\ thread[Replica].pc = "handle"
             /\ \E type \in {"ready", "failed"}, n \in Nat :
                  thread'[Replica].out = {Mk(type, ev.task, n, FALSE)}
  <2>1. ~Redelivers
    <3> SUFFICES ASSUME Redelivers PROVE FALSE
      OBVIOUS
    <3>1. ev \in BoundedEvent \cup {PlanCreated, NoEvent}
      BY <1>1 DEF Tidy, Limited, Inv, Threads, ThreadRecord
    <3>2. ev \in BoundedEvent
      BY <1>4, <3>1, OrchestratorAssumption DEF Of, PlanCreated, Mk, TaskEvent, EventType
    <3> QED
      BY <1>4, <3>2, OrchestratorAssumption DEF BoundedEvent, RetriesSameStep
  <2>2. ev \in TaskEvent /\ ev \in Copies /\ ev \in Open
    BY <1>4 DEF Of, Copies, Open
  <2> QED
    BY <1>3, <1>4, <2>1, <2>2 DEF One
<1>5. CASE thread'[Replica].out # {} /\ ev \in Of({"allow", "deny"})
             /\ thread[Replica].pc = "handle"
             /\ \E type \in {"ready", "failed"}, n \in Nat :
                  thread'[Replica].out = {Mk(type, ev.task, n, FALSE)}
  <2>1. PolicyGate
    <3>1. ev \in Of(Heard) \cup {PlanCreated, NoEvent}
      BY <1>1 DEF State, Kinds, Hand
    <3>2. ev.type \in Heard
      BY <1>5, <3>1, OrchestratorAssumption DEF Of, PlanCreated, Mk, TaskEvent, EventType
    <3> QED
      BY <1>5, <3>2 DEF Heard, Reports, Reviews, Decisions, Of, Calm
  <2>2. ~Redelivers
    BY <2>1 DEF Calm
  <2>3. ev \in TaskEvent /\ ev \in Copies /\ ev \in Open
    BY <1>5 DEF Of, Copies, Open
  <2> QED
    BY <1>3, <1>5, <2>2, <2>3 DEF One
<1> QED
  BY <1>1, <1>4, <1>5 DEF HandlerEffect, Writes

\* A handler turns its entry into the event it will emit.
LEMMA HandlerKept ==
  ASSUME State, Calm, Tidy, HandleEvent(Replica)
  PROVE  Kept
<1> DEFINE ev == thread[Replica].ev
           out == thread'[Replica].out
           m(K) == IF out = {} THEN {} ELSE One(K, ev)
<1>1. HandlerFrameOf(Replica)
  BY HandlerIs, CalmMeans
<1>2. /\ UNCHANGED <<queues, workers, services>>
      /\ thread[Replica].pc \in {"handle", "giveUp"} /\ thread'[Replica].ev = ev
      /\ thread'[Replica].pc \notin {"handle", "idle"}
  BY <1>1 DEF HandlerFrameOf
<1>3. \/ out = {}
      \/ /\ ~Redelivers /\ thread[Replica].pc = "handle"
         /\ \E e \in TaskEvent : out = {e} /\ e.task = ev.task
         /\ \A K \in {Copies, Open} : One(K, ev) = {ev.task}
  BY HandlerOut
<1>4. ASSUME NEW K \in {Copies, Open}
      PROVE  InHandOf(K)' = IF Redelivers THEN One(K, ev) ELSE {}
  BY <1>2 DEF InHandOf
<1>5. ASSUME NEW K \in {Copies, Open} PROVE m(K) \subseteq InHandOf(K)
  BY <1>3 DEF InHandOf
<1>6. ASSUME NEW K \in {Copies, Open} PROVE InHandOf(K)' \subseteq InHandOf(K)
  BY <1>2, <1>4 DEF InHandOf
<1>7. ASSUME NEW K \in {Copies, Open} PROVE AboutAny(K, out) \subseteq m(K)
  <2>1. CASE out = {}
    BY <2>1 DEF AboutAny
  <2>2. CASE out # {}
    <3>1. PICK e \in TaskEvent : out = {e} /\ e.task = ev.task /\ One(K, ev) = {ev.task}
      BY <1>3, <2>2
    <3>2. One(K, e) \subseteq {e.task}
      BY CopiesAre
    <3> QED
      BY <2>2, <3>1, <3>2 DEF AboutAny
  <2> QED
    BY <2>1, <2>2
<1>8. OnceEach'
  <2>1. \A e, f \in out : e = f
    BY <1>3
  <2> QED
    BY <1>2, <2>1 DEF Tidy, OnceEach, queues, workers, services
<1>9. m(Copies) \cap At(Copies, "hand")' = {}
  <2>1. out # {} => InHandOf(Copies)' = {}
    BY <1>3, <1>4
  <2> QED
    BY <2>1, AtWillBe
<1> HIDE DEF m, out
<1>10. ASSUME NEW K \in {Copies, Open} PROVE Shifts(K, "hand", "emit", m(K))
  <2>1. At(K, "emit")' \subseteq At(K, "emit") \cup m(K)
    BY <1>7, AtWillBe DEF out
  <2>2. m(K) \subseteq At(K, "hand")
    BY <1>5, AtIs
  <2> QED
    BY <1>2, <1>6, <2>1, <2>2, ShiftsByPlace DEF Place, queues, workers, services
<1>11. Shifts(Copies, "hand", "emit", m(Copies)) /\ Shifts(Open, "hand", "emit", m(Open))
  BY <1>10
<1> QED
  BY <1>8, <1>9, <1>11, ShiftKeeps DEF Place

\* Going on with a handler hands nothing to the replica.
LEMMA ProceedHand ==
  ASSUME State, Calm, ProceedFrameOf(Replica), thread[Replica].pc \notin {"handle", "idle"},
         NEW K \in {Copies, Open}
  PROVE  InHandOf(K)' \subseteq InHandOf(K)
<1>1. thread[Replica].end \in End
  BY CalmMeans DEF State, Inv, Threads, ThreadRecord
<1>2. thread'[Replica].ev = thread[Replica].ev /\ thread'[Replica].pc # "handle"
  BY <1>1 DEF ProceedFrameOf, End
<1> QED
  BY <1>2 DEF InHandOf

\* An event leaves the replica, for a place p.
LEMMA EmitKept ==
  ASSUME State, Calm, Tidy, NEW e \in thread[Replica].out,
         thread'[Replica].out = thread[Replica].out \ {e},
         \A K \in {Copies, Open} : InHandOf(K)' \subseteq InHandOf(K),
         NEW p \in {"ready", "policy", "tasks"},
         \A K \in {Copies, Open} : At(K, p)' = At(K, p) \cup One(K, e),
         \A K \in {Copies, Open}, r \in {"ready", "policy", "tasks"} : r # p => At(K, r)' = At(K, r),
         One(Copies, e) \cap At(Copies, p) = {} =>
           Once(Copies, ready') /\ Once(Copies, toPolicy') /\ Once(Copies, stream'["tasks"]),
         stream'["policy"] = stream["policy"], UNCHANGED <<inbox, pending, held, orphaned>>
  PROVE  Kept
<1>1. \A K \in {Copies, Open} : One(K, e) \subseteq At(K, "emit") /\ At(K, "emit")' \subseteq At(K, "emit")
  BY AtIs, AtWillBe DEF AboutAny
<1>2. ASSUME NEW K \in {Copies, Open} PROVE Shifts(K, "emit", p, One(K, e))
  <2>1. /\ p # "ready" => About(K, ready') \subseteq About(K, ready)
        /\ p # "policy" => About(K, toPolicy') \subseteq About(K, toPolicy)
        /\ p # "tasks" => About(K, stream'["tasks"]) \subseteq About(K, stream["tasks"])
    BY AtIs, AtWillBe
  <2>2. AboutAny(K, thread'[Replica].out) \subseteq AboutAny(K, thread[Replica].out)
    BY DEF AboutAny
  <2>3. One(K, e) \subseteq At(K, "emit") /\ At(K, p)' \subseteq At(K, p) \cup One(K, e)
    BY <1>1
  <2>4. /\ About(K, held') \subseteq About(K, held) /\ About(K, orphaned') \subseteq About(K, orphaned)
        /\ About(K, stream'["policy"]) \subseteq About(K, stream["policy"])
        /\ About(K, inbox'[Replica]) \subseteq About(K, inbox[Replica])
        /\ About(K, pending') \subseteq About(K, pending)
        /\ InHandOf(K)' \subseteq InHandOf(K)
    OBVIOUS
  <2>5. "emit" \in Place /\ p \in Place
    BY DEF Place
  <2>6. CASE p = "ready"
    BY <2>1, <2>2, <2>3, <2>4, <2>5, <2>6, ShiftsByPlace
  <2>7. CASE p = "policy"
    BY <2>1, <2>2, <2>3, <2>4, <2>5, <2>7, ShiftsByPlace
  <2>8. CASE p = "tasks"
    BY <2>1, <2>2, <2>3, <2>4, <2>5, <2>8, ShiftsByPlace
  <2> QED
    BY <2>6, <2>7, <2>8
<1>3. OnceEach'
  <2>1. One(Copies, e) \cap At(Copies, p) = {}
    BY <1>1 DEF Tidy, Separate, Place
  <2> QED
    BY <2>1 DEF Tidy, OnceEach
<1>4. One(Copies, e) \cap At(Copies, "emit")' = {}
  <2>1. \A f \in thread[Replica].out : e.task = f.task => e = f
    BY DEF Tidy, OnceEach
  <2> QED
    BY <2>1, AtWillBe DEF AboutAny, One
<1>5. Shifts(Copies, "emit", p, One(Copies, e)) /\ Shifts(Open, "emit", p, One(Open, e))
  BY <1>2
<1> QED
  BY <1>3, <1>4, <1>5, ShiftKeeps DEF Place

\* The replica goes on with a handler: it reads, emits or refreshes,
LEMMA ProceedKept ==
  ASSUME State, Calm, Tidy, ProceedFrameOf(Replica),
         ReadEffect(Replica) \/ EmitEffect(Replica) \/ RefreshEffect(Replica)
  PROVE  Kept
<1>1. \A K \in {Copies, Open} : InHandOf(K)' \subseteq InHandOf(K)
  BY ProceedHand DEF ReadEffect, EmitEffect, RefreshEffect
<1>2. CASE ReadEffect(Replica) \/ RefreshEffect(Replica)
  <2>1. thread'[Replica].out = {} /\ UNCHANGED <<queues, workers, services>>
    BY <1>2 DEF ReadEffect, RefreshEffect
  <2>2. OnceEach'
    BY <2>1 DEF Tidy, OnceEach, queues, workers, services
  <2>3. ASSUME NEW K \in {Copies, Open} PROVE Shifts(K, "ready", "hand", {})
    <3>1. InHandOf(K)' \subseteq InHandOf(K) /\ AboutAny(K, thread'[Replica].out) = {}
      BY <1>1, <2>1 DEF AboutAny
    <3>2. At(K, "hand")' \subseteq At(K, "hand") \cup {}
      BY <3>1, AtIs, AtWillBe
    <3> QED
      BY <2>1, <3>1, <3>2, ShiftsByPlace DEF Place, queues, workers, services
  <2> QED
    BY <2>2, <2>3, LossKept DEF Place
<1>3. CASE EmitEffect(Replica)
  <2>1. PICK e \in thread[Replica].out :
          /\ thread'[Replica].out = thread[Replica].out \ {e}
          /\ ready' = IF e.type = "ready" THEN Append(ready, e) ELSE ready
          /\ toPolicy' = IF e.type = "policy_check" THEN Append(toPolicy, e) ELSE toPolicy
          /\ stream' = IF e.type = "failed"
                       THEN [stream EXCEPT !["tasks"] = Append(@, e)] ELSE stream
    BY <1>3 DEF EmitEffect
  <2>2. /\ e \in TaskEvent /\ e.type \in {"ready", "failed", "policy_check"}
        /\ UNCHANGED <<inbox, pending, held, orphaned>>
        /\ stream \in [Stream -> Seq(TaskEvent)]
        /\ ready \in Seq(TaskEvent) /\ toPolicy \in Seq(TaskEvent)
        /\ Once(Copies, ready) /\ Once(Copies, toPolicy) /\ Once(Copies, stream["tasks"])
    <3>1. thread[Replica].out \subseteq Of(Emitted)
      BY CalmMeans DEF State, Kinds, Hand
    <3>2. e \in TaskEvent /\ e.type \in {"ready", "failed", "policy_check"}
      BY <3>1 DEF Of, Emitted, Checks
    <3> QED
      BY <3>2 DEF State, Inv, QueuesTyped, Tidy, OnceEach, ProceedFrameOf
  <2>3. stream'["policy"] = stream["policy"]
    BY <2>1, <2>2 DEF Stream
  <2>4. CASE e.type = "ready"
    <3>1. ready' = Append(ready, e) /\ toPolicy' = toPolicy /\ stream' = stream
      BY <2>1, <2>4
    <3>2. ASSUME NEW K \in {Copies, Open}
          PROVE  /\ At(K, "ready")' = At(K, "ready") \cup One(K, e)
                 /\ At(K, "policy")' = At(K, "policy") /\ At(K, "tasks")' = At(K, "tasks")
      <4>1. About(K, Append(ready, e)) = About(K, ready) \cup One(K, e)
        BY <2>2, Gained
      <4> QED
        BY <3>1, <4>1, AtIs, AtWillBe
    <3>3. \A K \in {Copies, Open}, r \in {"ready", "policy", "tasks"} : r # "ready" => At(K, r)' = At(K, r)
      BY <3>2
    <3>4. One(Copies, e) \cap At(Copies, "ready") = {} => Once(Copies, ready')
      <4>1. One(Copies, e) \cap At(Copies, "ready") = {} => Once(Copies, Append(ready, e))
        BY <2>2, AtIs, OnceAppend
      <4> QED
        BY <3>1, <4>1
    <3> QED
      BY <1>1, <2>1, <2>2, <2>3, <3>1, <3>2, <3>3, <3>4, EmitKept
  <2>5. CASE e.type = "policy_check"
    <3>1. ready' = ready /\ toPolicy' = Append(toPolicy, e) /\ stream' = stream
      BY <2>1, <2>5
    <3>2. ASSUME NEW K \in {Copies, Open}
          PROVE  /\ At(K, "policy")' = At(K, "policy") \cup One(K, e)
                 /\ At(K, "ready")' = At(K, "ready") /\ At(K, "tasks")' = At(K, "tasks")
      <4>1. About(K, Append(toPolicy, e)) = About(K, toPolicy) \cup One(K, e)
        BY <2>2, Gained
      <4> QED
        BY <3>1, <4>1, AtIs, AtWillBe
    <3>3. \A K \in {Copies, Open}, r \in {"ready", "policy", "tasks"} : r # "policy" => At(K, r)' = At(K, r)
      BY <3>2
    <3>4. One(Copies, e) \cap At(Copies, "policy") = {} => Once(Copies, toPolicy')
      <4>1. One(Copies, e) \cap At(Copies, "policy") = {} => Once(Copies, Append(toPolicy, e))
        BY <2>2, AtIs, OnceAppend
      <4> QED
        BY <3>1, <4>1
    <3> QED
      BY <1>1, <2>1, <2>2, <2>3, <3>1, <3>2, <3>3, <3>4, EmitKept
  <2>6. CASE e.type = "failed"
    <3>1. ready' = ready /\ toPolicy' = toPolicy
            /\ stream' = [stream EXCEPT !["tasks"] = Append(@, e)]
      BY <2>1, <2>6
    <3>2. ASSUME NEW K \in {Copies, Open}
          PROVE  /\ At(K, "tasks")' = At(K, "tasks") \cup One(K, e)
                 /\ At(K, "ready")' = At(K, "ready") /\ At(K, "policy")' = At(K, "policy")
      <4>1. About(K, stream'["tasks"]) = About(K, stream["tasks"]) \cup One(K, e)
        BY <2>2, <3>1, TasksGain
      <4> QED
        BY <3>1, <4>1, AtIs, AtWillBe
    <3>3. \A K \in {Copies, Open}, r \in {"ready", "policy", "tasks"} : r # "tasks" => At(K, r)' = At(K, r)
      BY <3>2
    <3>4. One(Copies, e) \cap At(Copies, "tasks") = {} => Once(Copies, stream'["tasks"])
      <4>1. One(Copies, e) \cap About(Copies, stream["tasks"]) = {} => Once(Copies, stream'["tasks"])
        BY <2>2, <3>1, TasksGainOnce
      <4> QED
        BY <4>1, AtIs
    <3> QED
      BY <1>1, <2>1, <2>2, <2>3, <3>1, <3>2, <3>3, <3>4, EmitKept
  <2> QED
    BY <2>2, <2>4, <2>5, <2>6
<1> QED
  BY <1>2, <1>3

\* or it hands out a batch, of tasks that had no copy.
LEMMA CommitCopies ==
  ASSUME State, Calm, Tidy, ProceedFrameOf(Replica), CommitEffect(Replica)
  PROVE  /\ Separate' /\ OnceEach'
         /\ \A K \in {Copies, Open} : All(K)' \subseteq All(K) \cup thread[Replica].batch
         /\ thread[Replica].batch \cap All(Copies) = {}
<1> DEFINE S == thread[Replica].batch
<1>1. /\ UNCHANGED <<queues, workers, services>>
      /\ \A e \in thread'[Replica].out : e \in TaskEvent /\ e.task \in S
      /\ \A e, f \in thread'[Replica].out : e.task = f.task => e = f
  BY DEF CommitEffect, Of
<1>2. S \cap All(Copies) = {}
  <2>1. S \subseteq Task
    BY DEF CommitEffect
  <2> QED
    BY <2>1 DEF Tidy, Untouched
<1>3. ASSUME NEW K \in {Copies, Open}
      PROVE  /\ At(K, "emit")' \subseteq S
             /\ \A r \in Place : r # "emit" => At(K, r)' \subseteq At(K, r)
  <2>1. AboutAny(K, thread'[Replica].out) \subseteq S
    <3>1. \A e \in thread'[Replica].out : One(K, e) \subseteq {e.task}
      BY <1>1, CopiesAre
    <3> QED
      BY <1>1, <3>1 DEF AboutAny
  <2>2. \A r \in Place : r # "emit" => At(K, r)' \subseteq At(K, r)
    <3>1. InHandOf(K)' \subseteq InHandOf(K)
      BY ProceedHand DEF CommitEffect
    <3>2. /\ At(K, "ready")' = At(K, "ready") /\ At(K, "held")' = At(K, "held")
          /\ At(K, "orphaned")' = At(K, "orphaned") /\ At(K, "policy")' = At(K, "policy")
          /\ At(K, "pending")' = At(K, "pending")
      BY <1>1, Untaken DEF queues, workers, services
    <3>3. /\ At(K, "tasks")' = At(K, "tasks") /\ At(K, "decisions")' = At(K, "decisions")
          /\ At(K, "inbox")' = At(K, "inbox") /\ At(K, "hand")' \subseteq At(K, "hand")
      BY <1>1, <3>1, AtIs, AtWillBe DEF queues
    <3> QED
      BY <3>2, <3>3 DEF Place
  <2> QED
    BY <2>1, <2>2, AtWillBe
<1>4. ASSUME NEW K \in {Copies, Open} PROVE All(K)' \subseteq All(K) \cup S
  BY <1>3 DEF All
<1>5. OnceEach'
  BY <1>1 DEF Tidy, OnceEach, queues, workers, services
<1>6. Separate'
  <2> SUFFICES ASSUME NEW r \in Place, NEW s \in Place, r # s, s # "emit"
               PROVE  At(Copies, r)' \cap At(Copies, s)' = {}
    BY DEF Separate
  <2>1. At(Copies, s)' \subseteq At(Copies, s) /\ At(Copies, s) \subseteq All(Copies)
    BY <1>3 DEF All
  <2>2. CASE r = "emit"
    BY <1>2, <1>3, <2>1, <2>2
  <2>3. CASE r # "emit"
    BY <1>3, <2>1, <2>3 DEF Tidy, Separate
  <2> QED
    BY <2>2, <2>3
<1> QED
  BY <1>2, <1>4, <1>5, <1>6

\* What a step changes that reads the job, or nothing.
Rests == UNCHANGED <<rows, thread, queues, workers, services>>

\* What can happen: the replica, the workers and the policy gate move; nobody else does.
LEMMA CalmStep ==
  ASSUME State, Calm, thread[Http].pc = "idle", [Next]_vars
  PROVE  /\ thread'[Http] = thread[Http]
         /\ \/ Deliver(Replica) \/ NextEntry(Replica) \/ RecoverPending(Replica) \/ Ack(Replica)
            \/ HandleEvent(Replica)
            \/ Proceed(Replica) /\ ProceedFrameOf(Replica) /\ ProceedEffect(Replica)
            \/ ApiFault
            \/ WorkerStep \/ WorkerFault
            \/ ServiceStep
            \/ Rests
<1>1. Replica \in Api /\ Http \in Thread /\ Replica # Http /\ \A a \in Api : a = Replica
  BY CalmMeans
<1>2. CASE ApiStep
  <2>1. CASE \E a \in Api : Loop(a)
    <3>1. \/ Deliver(Replica) \/ NextEntry(Replica) \/ RecoverPending(Replica) \/ Ack(Replica)
          \/ HandleEvent(Replica)
      BY <1>1, <2>1 DEF Loop
    <3>2. CASE HandleEvent(Replica)
      <4>1. Becomes(Replica, thread'[Replica])
        BY <1>1, <3>2, HandlerIs DEF HandlerFrameOf
      <4> QED
        BY <1>1, <3>2, <4>1 DEF Becomes
    <3>3. CASE Deliver(Replica) \/ NextEntry(Replica) \/ RecoverPending(Replica) \/ Ack(Replica)
      <4>1. \E r : Becomes(Replica, r)
        BY <1>1, <3>3, LoopIs DEF Picks
      <4> QED
        BY <1>1, <3>3, <4>1 DEF Becomes
    <3> QED
      BY <3>1, <3>2, <3>3
  <2>2. ASSUME NEW x \in Thread, Proceed(x)
        PROVE  /\ thread'[Http] = thread[Http]
               /\ Proceed(Replica) /\ ProceedFrameOf(Replica) /\ ProceedEffect(Replica)
    <3>1. ProceedFrameOf(x) /\ ProceedEffect(x)
      BY <2>2, ProceedIs
    <3>2. x # Http
      BY <3>1 DEF ProceedEffect, ReadEffect, CommitEffect, EmitEffect, RefreshEffect
    <3>3. x = Replica
      BY <3>2, CalmMeans
    <3> QED
      BY <1>1, <2>2, <3>1, <3>3 DEF ProceedFrameOf, Becomes
  <2> QED
    BY <1>2, <2>1, <2>2 DEF ApiStep
<1>3. CASE ApiFault
  <2>1. \A a \in Api : ~ApiCrash(a)
    BY Spared DEF Calm, ApiCrash, Disturbance
  <2>2. thread' = [thread EXCEPT ![Replica] = Idle]
    BY <1>1, <1>3, <2>1 DEF ApiFault, HandlerError
  <2> QED
    BY <1>1, <1>3, <2>2 DEF State, Inv, Threads
<1>4. ~HttpRequest
  BY Spared DEF Calm, HttpRequest, CancelJob, ContinueJob, RetryJob, RetryFailedTasks, RetryTask,
                Request, Disturbance
<1>5. CASE WorkerStep \/ WorkerFault
  BY <1>5 DEF WorkerStep, WorkerFault, Finish, Take, Claim, Complete, Fail, WorkerCrash,
              LoseResult, Steal
<1>6. CASE ServiceStep
  BY <1>6 DEF ServiceStep, DecidePolicy, Review, LoseCheck, LoseReview
<1>7. CASE Reading \/ UNCHANGED vars
  BY <1>7, ReadingRests DEF Rests
<1> QED
  BY <1>2, <1>3, <1>4, <1>5, <1>6, <1>7 DEF Next

\* Only the replica writes rows; the others leave its thread alone, too.
LEMMA OthersLeave ==
  ASSUME WorkerStep \/ WorkerFault \/ ServiceStep \/ Rests
  PROVE  UNCHANGED <<rows, thread>>
BY DEF WorkerStep, WorkerFault, Finish, Take, Claim, Complete, Fail, WorkerCrash, LoseResult, Steal,
       ServiceStep, DecidePolicy, Review, LoseCheck, LoseReview, Rests, rows

\* Without the critic nothing asks for rework.
LEMMA NoRework ==
  ASSUME State, Calm
  PROVE  thread[Replica].ev \notin Of({"accepted", "rework_requested"})
<1>1. thread[Replica].ev \in Of(Heard) \cup {PlanCreated, NoEvent}
  BY CalmMeans DEF State, Kinds, Hand
<1> QED
  BY <1>1, OrchestratorAssumption
  DEF Calm, Heard, Reports, Reviews, Decisions, Of, PlanCreated, Mk, TaskEvent, EventType

\* A handler makes no task pending, and has no batch.
LEMMA HandlerLeavesPending ==
  ASSUME State, Calm, HandleEvent(Replica)
  PROVE  /\ \A t \in Task : task'[t] = "pending" => task[t] = "pending"
         /\ thread[Replica].batch = {} /\ thread'[Replica].batch = {}
<1>1. HandlerFrameOf(Replica) /\ HandlerEffect(Replica)
  BY HandlerIs, CalmMeans
<1>2. thread[Replica].batch = {}
  BY <1>1, CalmMeans DEF HandlerFrameOf, State, Kinds, Hand
<1>3. task \in [Task -> TaskStatus]
  BY DEF State, Inv, RowsTyped
<1>4. \/ task' = task
      \/ \E s \in {"running", "completed", "ready", "failed"} :
           task' = [task EXCEPT ![thread[Replica].ev.task] = s]
  BY <1>1, NoRework DEF HandlerEffect, Writes, Of
<1> QED
  BY <1>1, <1>2, <1>3, <1>4 DEF HandlerFrameOf

\* Every step keeps or hands out.
LEMMA CalmKept ==
  ASSUME State, Calm, Tidy, [Next]_vars
  PROVE  \/ Kept /\ (\A t \in Task : task'[t] = "pending" => task[t] = "pending")
                 /\ (\A t \in thread'[Replica].batch : task'[t] = "pending")
         \/ ProceedFrameOf(Replica) /\ CommitEffect(Replica)
<1>0. thread[Http].pc = "idle" /\ Untouched
  BY DEF Tidy
<1>1. CASE Deliver(Replica) \/ NextEntry(Replica) \/ RecoverPending(Replica) \/ Ack(Replica)
  <2>1. Kept
    BY <1>1, LoopKept, CalmMeans
  <2>2. UNCHANGED rows /\ \E r : Becomes(Replica, r) /\ r.batch = {}
    <3>1. Idle.batch = {} /\ \A e : Handle(e).batch = {}
      BY DEF Idle, Handle
    <3> QED
      BY <1>1, <3>1, LoopIs, CalmMeans DEF Picks
  <2>3. thread'[Replica].batch = {}
    BY <2>2 DEF Becomes
  <2> QED
    BY <2>1, <2>2, <2>3 DEF rows
<1>2. CASE HandleEvent(Replica)
  BY <1>2, HandlerKept, HandlerLeavesPending
<1>3. CASE ProceedFrameOf(Replica) /\ ProceedEffect(Replica)
  <2>1. CASE ReadEffect(Replica)
    <3>1. UNCHANGED rows /\ \A t \in thread'[Replica].batch : task[t] = "pending"
      BY <2>1 DEF ReadEffect, ReadyTasks
    <3> QED
      BY <1>3, <2>1, <3>1, ProceedKept DEF rows
  <2>2. CASE EmitEffect(Replica) \/ RefreshEffect(Replica)
    <3>1. task' = task /\ thread'[Replica].batch = {}
      BY <2>2 DEF EmitEffect, RefreshEffect, rows
    <3> QED
      BY <1>3, <2>2, <3>1, ProceedKept
  <2> QED
    BY <1>3, <2>1, <2>2 DEF ProceedEffect
<1>4. CASE ApiFault
  <2>1. Kept /\ UNCHANGED rows /\ Becomes(Replica, Idle)
    BY <1>4, ErrorKept
  <2>2. thread'[Replica].batch = {}
    BY <2>1 DEF Becomes, Idle
  <2> QED
    BY <2>1, <2>2 DEF rows
<1>5. CASE WorkerStep \/ WorkerFault \/ ServiceStep
  <2>1. Kept
    BY <1>5, WorkersKept, ServicesKept
  <2>2. UNCHANGED <<rows, thread>>
    BY <1>5, OthersLeave
  <2> QED
    BY <1>0, <2>1, <2>2 DEF rows, Untouched
<1>6. CASE Rests
  <2>1. Kept
    <3>1. Separate' = Separate /\ OnceEach' = OnceEach /\ All(Copies)' = All(Copies) /\ All(Open)' = All(Open)
      BY <1>6 DEF Separate, OnceEach, All, At, InHandOf, Rests, queues, workers, services
    <3> QED
      BY <3>1 DEF Kept, Tidy
  <2> QED
    BY <1>0, <1>6, <2>1 DEF Untouched, Rests, rows
<1> QED
  BY <1>0, <1>1, <1>2, <1>3, <1>4, <1>5, <1>6, CalmStep

\* With redelivery, the numbers of attempts keep to their limit.
LEMMA NextLimited ==
  ASSUME Calm, Limited, [Next]_vars
  PROVE  Limited'
<1> SUFFICES ASSUME Redelivers PROVE Inv(0 .. MaxAttempts, BoundedEvent)'
  BY DEF Limited, Redelivers
<1> DEFINE N == 0 .. MaxAttempts
<1>1. Closed(N, BoundedEvent)
  BY OrchestratorAssumption
  DEF Calm, Closed, BoundedEvent, TaskEvent, Mk, EventType, RetriesSameStep, ShouldRetry
<1>2. Inv(N, BoundedEvent)
  BY DEF Limited
<1> HIDE DEF N
<1>3. Inv(N, BoundedEvent)'
  BY <1>1, <1>2, NextTyped
<1> QED
  BY <1>3 DEF N

\* The invariant of the copies is inductive.
LEMMA NextTidy ==
  ASSUME State, Calm, Tidy, [Next]_vars
  PROVE  Tidy'
<1>1. thread'[Http].pc = "idle" /\ seen' = [x \in Thread |-> Unread]
  BY NobodyOvertakes DEF Tidy, Calm
<1>2. Limited'
  BY NextLimited DEF Tidy
<1>3. CASE /\ Kept
           /\ \A t \in Task : task'[t] = "pending" => task[t] = "pending"
           /\ \A t \in thread'[Replica].batch : task'[t] = "pending"
  BY <1>1, <1>2, <1>3 DEF Kept, Tidy, Untouched
<1>4. CASE ProceedFrameOf(Replica) /\ CommitEffect(Replica)
  <2> DEFINE S == thread[Replica].batch
  <2>1. Separate' /\ OnceEach' /\ All(Copies)' \subseteq All(Copies) \cup S /\ S \cap All(Copies) = {}
    BY <1>4, CommitCopies
  <2>2. /\ thread'[Replica].batch = {}
        /\ \A t \in Task \ S : task'[t] = task[t]
        /\ \A t \in S : task'[t] # "pending"
    BY <1>4 DEF CommitEffect, StatusFor
  <2>3. Untouched'
    BY <2>1, <2>2 DEF Tidy, Untouched
  <2> QED
    BY <1>1, <1>2, <2>1, <2>3 DEF Tidy
<1> QED
  BY <1>3, <1>4, CalmKept

\* Nothing is about any task in a plan that was just stored.
LEMMA InitTidy ==
  ASSUME Calm, Init
  PROVE  Tidy
<1>1. /\ Replica \in Api /\ Replica \in Thread /\ Replica # Http /\ Http \in Thread
      /\ \A a \in Api : a = Replica
  BY CalmMeans
<1> DEFINE first == [Handle(PlanCreated) EXCEPT !.pc = "dispatch", !.refreshes = 1]
<1>2. PICK a \in Api : /\ thread = [x \in Thread |-> IF x = a THEN first ELSE Idle]
                      /\ seen = [x \in Thread |-> Unread]
  BY DEF Init
<1>3. /\ first.ev = PlanCreated /\ first.out = {} /\ first.batch = {} /\ first.pc = "dispatch"
      /\ Idle.pc = "idle"
  BY DEF Handle, Idle
<1> HIDE DEF first
<1>4. /\ thread[Replica].ev = PlanCreated /\ thread[Replica].out = {} /\ thread[Replica].batch = {}
      /\ thread[Replica].pc = "dispatch" /\ thread[Http].pc = "idle"
  BY <1>1, <1>2, <1>3
<1>5. Limited
  <2> SUFFICES ASSUME Redelivers PROVE Inv(0 .. MaxAttempts, BoundedEvent)
    BY DEF Limited
  <2> DEFINE N == 0 .. MaxAttempts
  <2>1. Closed(N, BoundedEvent)
    BY OrchestratorAssumption
    DEF Calm, Closed, BoundedEvent, TaskEvent, Mk, EventType, RetriesSameStep, ShouldRetry
  <2> HIDE DEF N
  <2>2. Inv(N, BoundedEvent)
    BY <2>1, InitTyped
  <2> QED
    BY <2>2 DEF N
<1>6. /\ ready = <<>> /\ orphaned = <<>> /\ toPolicy = <<>> /\ pending = <<>>
      /\ stream["tasks"] = <<>> /\ stream["policy"] = <<>> /\ inbox[Replica] = <<>>
      /\ held = [w \in Worker |-> NoEvent]
  BY <1>1 DEF Init, Stream
<1>7. \A K : About(K, <<>>) = {} /\ Once(K, <<>>)
  BY DEF About, Once
<1>8. One(Copies, NoEvent) = {} /\ One(Copies, PlanCreated) = {} /\ NoEvent \notin Copies
  BY CopiesAre, OrchestratorAssumption DEF Copies, Of
<1>9. About(Copies, held) = {} /\ Once(Copies, held)
  BY <1>6, <1>8 DEF About, Once
<1>10. InHandOf(Copies) = {} /\ AboutAny(Copies, thread[Replica].out) = {}
  BY <1>4, <1>8 DEF InHandOf, AboutAny
<1>11. \A p \in Place : At(Copies, p) = {}
  BY <1>6, <1>7, <1>9, <1>10, AtIs DEF Place
<1>12. Separate /\ OnceEach
  BY <1>4, <1>6, <1>7, <1>9, <1>11 DEF Separate, OnceEach
<1>13. Untouched
  BY <1>4, <1>11 DEF Untouched, All
<1> QED
  BY <1>2, <1>4, <1>5, <1>12, <1>13 DEF Tidy

-----------------------------------------------------------------------------
(* One copy is in flight.                                                  *)

\* The positions of InFlight at each place.
Positions(t, p) ==
  CASE p = "ready"     -> InSeq("ready", ready, t)
    [] p = "held"      -> {<<"held", w>> : w \in {v \in Worker : Speaks(held[v], t)}}
    [] p = "orphaned"  -> InSeq("orphaned", orphaned, t)
    [] p = "policy"    -> InSeq("policy", toPolicy, t)
    [] p = "tasks"     -> InSeq("tasks", stream["tasks"], t)
    [] p = "decisions" -> InSeq("decisions", stream["policy"], t)
    [] p = "inbox"     -> UNION {{<<"inbox", a, i>> :
                                    i \in {j \in DOMAIN inbox[a] : Speaks(inbox[a][j], t)}} : a \in Api}
    [] p = "pending"   -> InSeq("pending", pending, t)
    [] p = "hand"      -> {<<"handle", x>> : x \in {y \in Thread : /\ thread[y].pc = "handle"
                                                                  /\ Speaks(thread[y].ev, t)}}
    [] p = "emit"      -> UNION {{<<"emit", x, e>> : e \in {f \in thread[x].out : Speaks(f, t)}}
                                   : x \in Thread}

\* They are all there are.
LEMMA PositionsAre ==
  ASSUME NEW t, NEW x \in InFlight(t)
  PROVE  \E p \in Place : x \in Positions(t, p)
<1> DEFINE ofInbox  == UNION {{<<"inbox", b, i>> : i \in {j \in DOMAIN inbox[b] : Speaks(inbox[b][j], t)}}
                                : b \in Api}
           ofHeld   == {<<"held", w>> : w \in {v \in Worker : Speaks(held[v], t)}}
           ofHandle == {<<"handle", y>> : y \in {z \in Thread : thread[z].pc = "handle"
                                                             /\ Speaks(thread[z].ev, t)}}
           ofEmit   == UNION {{<<"emit", y, e>> : e \in {f \in thread[y].out : Speaks(f, t)}}
                                : y \in Thread}
           ofQueues == UNION {InSeq("ready", ready, t), InSeq("orphaned", orphaned, t),
                              InSeq("policy", toPolicy, t), InSeq("pending", pending, t),
                              InSeq("tasks", stream["tasks"], t),
                              InSeq("decisions", stream["policy"], t)}
<1>1. InFlight(t) = ofQueues \cup ofInbox \cup ofHeld \cup ofHandle \cup ofEmit
  BY Zenon DEF InFlight
<1>2. /\ Positions(t, "inbox") = ofInbox /\ Positions(t, "held") = ofHeld
      /\ Positions(t, "hand") = ofHandle /\ Positions(t, "emit") = ofEmit
      /\ Positions(t, "ready") = InSeq("ready", ready, t)
      /\ Positions(t, "orphaned") = InSeq("orphaned", orphaned, t)
      /\ Positions(t, "policy") = InSeq("policy", toPolicy, t)
      /\ Positions(t, "pending") = InSeq("pending", pending, t)
      /\ Positions(t, "tasks") = InSeq("tasks", stream["tasks"], t)
      /\ Positions(t, "decisions") = InSeq("decisions", stream["policy"], t)
  BY DEF Positions
<1> HIDE DEF ofInbox, ofHeld, ofHandle, ofEmit
<1> QED
  BY <1>1, <1>2 DEF Place

\* What speaks of a task is a copy.
LEMMA SpeaksIsCopy ==
  ASSUME NEW t \in Task, NEW e \in TaskEvent \cup {PlanCreated, NoEvent}, Speaks(e, t)
  PROVE  e \in Copies /\ One(Copies, e) = {t}
<1>1. e # NoEvent /\ e.task = t
  BY DEF Speaks
<1>2. e # PlanCreated
  BY <1>1, OrchestratorAssumption DEF PlanCreated, Mk
<1>3. e \in Copies
  BY <1>1, <1>2 DEF Speaks, Copies, Of, TaskEvent, EventType
<1> QED
  BY <1>1, <1>3 DEF One

\* The positions in a queue.
LEMMA PositionsInSeq ==
  ASSUME NEW t \in Task, NEW name, NEW s \in Seq(TaskEvent \cup {PlanCreated}), Once(Copies, s)
  PROVE  /\ InSeq(name, s, t) # {} => t \in About(Copies, s)
         /\ \A x, y \in InSeq(name, s, t) : x = y
<1>1. \A i \in DOMAIN s : Speaks(s[i], t) => s[i] \in Copies /\ s[i].task = t
  BY SpeaksIsCopy DEF Speaks
<1>2. InSeq(name, s, t) # {} => t \in About(Copies, s)
  BY <1>1, AboutIff DEF InSeq
<1>3. \A i, j \in DOMAIN s : Speaks(s[i], t) /\ Speaks(s[j], t) => i = j
  BY <1>1 DEF Once
<1>4. \A x, y \in InSeq(name, s, t) : x = y
  BY <1>3 DEF InSeq
<1> QED
  BY <1>2, <1>4

\* One position at each place, and only where there is a copy.
LEMMA OnePosition ==
  ASSUME State, Calm, Tidy, NEW t \in Task, NEW p \in Place
  PROVE  /\ Positions(t, p) # {} => t \in At(Copies, p)
         /\ \A x, y \in Positions(t, p) : x = y
<1> DEFINE E == TaskEvent \cup {PlanCreated}
<1>1. /\ ready \in Seq(E) /\ orphaned \in Seq(E) /\ toPolicy \in Seq(E) /\ pending \in Seq(E)
      /\ stream["tasks"] \in Seq(E) /\ stream["policy"] \in Seq(E) /\ inbox[Replica] \in Seq(E)
  BY CalmMeans DEF State, Inv, QueuesTyped, Stream
<1>2. /\ Once(Copies, ready) /\ Once(Copies, held) /\ Once(Copies, orphaned)
      /\ Once(Copies, toPolicy) /\ Once(Copies, stream["tasks"]) /\ Once(Copies, stream["policy"])
      /\ Once(Copies, inbox[Replica]) /\ Once(Copies, pending)
  BY DEF Tidy, OnceEach
<1>3. ASSUME NEW s, NEW name, s \in Seq(E), Once(Copies, s), At(Copies, p) = About(Copies, s),
             Positions(t, p) = InSeq(name, s, t)
      PROVE  /\ Positions(t, p) # {} => t \in At(Copies, p)
             /\ \A x, y \in Positions(t, p) : x = y
  BY <1>3, PositionsInSeq
<1>4. CASE p \in {"ready", "orphaned", "policy", "pending", "tasks", "decisions"}
  <2>1. \E name, s : /\ s \in Seq(E) /\ Once(Copies, s) /\ At(Copies, p) = About(Copies, s)
                     /\ Positions(t, p) = InSeq(name, s, t)
    <3> HIDE DEF E
    <3>1. CASE p = "ready"
      BY <1>1, <1>2, <3>1, AtIs DEF Positions
    <3>2. CASE p = "orphaned"
      BY <1>1, <1>2, <3>2, AtIs DEF Positions
    <3>3. CASE p = "policy"
      BY <1>1, <1>2, <3>3, AtIs DEF Positions
    <3>4. CASE p = "pending"
      BY <1>1, <1>2, <3>4, AtIs DEF Positions
    <3>5. CASE p = "tasks"
      BY <1>1, <1>2, <3>5, AtIs DEF Positions
    <3>6. CASE p = "decisions"
      BY <1>1, <1>2, <3>6, AtIs DEF Positions
    <3> QED
      BY <1>4, <3>1, <3>2, <3>3, <3>4, <3>5, <3>6
  <2> QED
    BY <1>3, <2>1
<1>5. CASE p = "held"
  <2>1. \A w \in Worker : Speaks(held[w], t) => held[w] \in Copies /\ held[w].task = t
    <3>1. \A w \in Worker : held[w] \in TaskEvent \cup {PlanCreated, NoEvent}
      BY DEF State, Inv, QueuesTyped
    <3> QED
      BY <3>1, SpeaksIsCopy DEF Speaks
  <2>2. Positions(t, p) = {<<"held", w>> : w \in {v \in Worker : Speaks(held[v], t)}}
    BY <1>5 DEF Positions
  <2>3. DOMAIN held = Worker
    BY DEF State, Inv, QueuesTyped
  <2>4. \A w, v \in Worker : Speaks(held[w], t) /\ Speaks(held[v], t) => w = v
    BY <1>2, <2>1, <2>3 DEF Once
  <2>5. \A w \in Worker : Speaks(held[w], t) => t \in About(Copies, held)
    BY <2>1, <2>3, AboutIff
  <2>6. At(Copies, p) = About(Copies, held)
    BY <1>5, AtIs
  <2> QED
    BY <2>2, <2>4, <2>5, <2>6
<1>6. CASE p = "inbox"
  <2> DEFINE s == inbox[Replica]
             at == {<<"inbox", Replica, i>> : i \in {j \in DOMAIN s : Speaks(s[j], t)}}
  <2>1. \A i \in DOMAIN s : Speaks(s[i], t) => s[i] \in Copies /\ s[i].task = t
    BY <1>1, SpeaksIsCopy DEF Speaks
  <2>2. Positions(t, p) = at
    <3>1. Api = {Replica}
      BY DEF Calm
    <3> QED
      BY <1>6, <3>1 DEF Positions
  <2>3. \A i, j \in DOMAIN s : Speaks(s[i], t) /\ Speaks(s[j], t) => i = j
    BY <1>2, <2>1 DEF Once
  <2>4. \A i \in DOMAIN s : Speaks(s[i], t) => t \in About(Copies, s)
    BY <2>1, AboutIff
  <2>5. At(Copies, p) = About(Copies, s)
    BY <1>6, AtIs
  <2> HIDE DEF s
  <2> QED
    BY <2>2, <2>3, <2>4, <2>5
<1>7. CASE p = "hand"
  <2>1. \A x \in Thread : thread[x].pc = "handle" => x = Replica
    BY CalmMeans DEF Tidy
  <2>2. thread[Replica].ev \in TaskEvent \cup {PlanCreated, NoEvent}
    BY CalmMeans DEF State, Inv, Threads, ThreadRecord
  <2>3. Positions(t, p) = {<<"handle", x>> : x \in {y \in Thread : /\ thread[y].pc = "handle"
                                                                  /\ Speaks(thread[y].ev, t)}}
    BY <1>7 DEF Positions
  <2>4. \A x \in Thread : thread[x].pc = "handle" /\ Speaks(thread[x].ev, t) => t \in InHandOf(Copies)
    BY <2>1, <2>2, SpeaksIsCopy DEF InHandOf
  <2>5. At(Copies, p) = InHandOf(Copies)
    BY <1>7, AtIs
  <2> QED
    BY <2>1, <2>3, <2>4, <2>5
<1>8. CASE p = "emit"
  <2>1. \A x \in Thread : thread[x].out # {} => x = Replica
    BY CalmMeans DEF Tidy, State, Kinds, Hand
  <2>2. thread[Replica].out \subseteq TaskEvent
    BY CalmMeans DEF State, Kinds, Hand, Of
  <2>3. Positions(t, p) = UNION {{<<"emit", x, e>> : e \in {f \in thread[x].out : Speaks(f, t)}}
                                   : x \in Thread}
    BY <1>8 DEF Positions
  <2>4. \A e \in thread[Replica].out : Speaks(e, t) => t \in AboutAny(Copies, thread[Replica].out)
    BY <2>2, SpeaksIsCopy DEF AboutAny
  <2>5. \A e, f \in thread[Replica].out : Speaks(e, t) /\ Speaks(f, t) => e = f
    BY DEF Tidy, OnceEach, Speaks
  <2>6. \A z \in Positions(t, p) : \E e \in thread[Replica].out : z = <<"emit", Replica, e>> /\ Speaks(e, t)
    BY <2>1, <2>3
  <2>7. At(Copies, p) = AboutAny(Copies, thread[Replica].out)
    BY <1>8, AtIs
  <2> QED
    BY <2>4, <2>5, <2>6, <2>7
<1> QED
  BY <1>4, <1>5, <1>6, <1>7, <1>8 DEF Place

\* A tidy state has one copy of a task in flight at most.
LEMMA TidyIsOneCopy ==
  ASSUME State, Calm, Tidy
  PROVE  OneCopyInFlight
<1> SUFFICES ASSUME NEW t \in Task, NEW x \in InFlight(t), NEW y \in InFlight(t)
             PROVE  x = y
  BY DEF OneCopyInFlight
<1>1. PICK p \in Place : x \in Positions(t, p)
  BY PositionsAre
<1>2. PICK q \in Place : y \in Positions(t, q)
  BY PositionsAre
<1>3. t \in At(Copies, p) /\ t \in At(Copies, q)
  BY <1>1, <1>2, OnePosition
<1>4. p = q
  BY <1>3 DEF Tidy, Separate
<1> QED
  BY <1>1, <1>2, <1>4, OnePosition

\* Under what Calm assumes, for every plan and any number of workers, no task is in flight
\* twice: its tool cannot run twice at once, and a result of an older execution cannot arrive
\* while a newer one runs, even when entries are handled again, workers die, or results are
\* lost.
THEOREM OneCopy ==
  ASSUME Calm
  PROVE  Spec => []OneCopyInFlight
<1> DEFINE IInv == State /\ Tidy
<1>1. Init => IInv
  BY InitState, InitTidy
<1>2. IInv /\ [Next]_vars => IInv'
  BY NextState, NextTidy
<1>3. IInv => OneCopyInFlight
  BY TidyIsOneCopy
<1> HIDE DEF IInv
<1> QED
  BY <1>1, <1>2, <1>3, PTL DEF Spec

-----------------------------------------------------------------------------
(* The outcome is final.                                                   *)

\* A task that has failed has no entry left that could change that, and so has one whose late
\* start was handled again after its failure; a job that has failed has such a task.  A handler
\* that is about to give a task up again has marked it failed before, and an entry is
\* acknowledged unless its handler finds that its retry has failed.
Sunk ==
  /\ \A t \in Task : task[t] = "failed" => t \notin All(Open)
  /\ job = "failed" => \E t \in Task \ All(Open) : task[t] \in {"failed", "running"}
  /\ thread[Replica].end = "giveUp" => task[thread[Replica].ev.task] = "failed"
  /\ thread[Replica].pc = "handle" => thread[Replica].end = "ack"

\* Where one copy of a task is, nothing else is open.
LEMMA OnlyOpenThere ==
  ASSUME Tidy, NEW t \in Task, NEW p \in Place, t \in At(Copies, p)
  PROVE  /\ \A q \in Place : q # p => t \notin At(Open, q)
         /\ t \notin At(Open, p) => t \notin All(Open)
<1>1. \A q \in Place : At(Open, q) \subseteq At(Copies, q)
  <2>1. Open \subseteq Copies
    BY DEF Open
  <2>2. \A f : About(Open, f) \subseteq About(Copies, f)
    BY <2>1 DEF About, One
  <2>3. \A S : AboutAny(Open, S) \subseteq AboutAny(Copies, S)
    BY <2>1 DEF AboutAny, One
  <2>4. InHandOf(Open) \subseteq InHandOf(Copies)
    BY <2>1 DEF InHandOf, One
  <2>5. Open \in {Copies, Open} /\ Copies \in {Copies, Open}
    OBVIOUS
  <2> QED
    BY <2>2, <2>3, <2>4, AtIs DEF Place
<1>2. \A q \in Place : q # p => t \notin At(Copies, q)
  BY DEF Tidy, Separate
<1> QED
  BY <1>1, <1>2 DEF All

\* A handler fails a task when the copy it handles was the last.
LEMMA HandlerFails ==
  ASSUME State, Calm, Tidy, Sunk, HandleEvent(Replica), NEW t \in Task,
         t = thread[Replica].ev.task, task'[t] = "failed"
  PROVE  t \notin All(Open)'
<1> DEFINE ev == thread[Replica].ev
<1>1. HandlerFrameOf(Replica) /\ HandlerEffect(Replica) /\ Kept
  BY HandlerIs, HandlerKept, CalmMeans
<1>2. task \in [Task -> TaskStatus] /\ ev \notin Of({"accepted", "rework_requested"})
  BY NoRework DEF State, Inv, RowsTyped
<1>3. CASE task[t] = "failed"
  BY <1>1, <1>3 DEF Sunk, Kept
<1>4. CASE thread[Replica].pc = "handle" /\ ev \in Of({"failed"}) /\ ~RetriesSameStep(ev)
  <2>1. ev \in Copies /\ ev \notin Open
    BY <1>4 DEF Copies, Open, Of
  <2>2. t \in At(Copies, "hand") /\ t \notin At(Open, "hand")
    BY <1>4, <2>1, AtIs DEF InHandOf, One
  <2> QED
    BY <1>1, <2>2, OnlyOpenThere DEF Place, Kept
<1>5. CASE \E n \in Nat : thread'[Replica].out = {Mk("failed", t, n, FALSE)}
  <2>1. PICK n \in Nat : thread'[Replica].out = {Mk("failed", t, n, FALSE)}
    BY <1>5
  <2>2. ~Redelivers /\ thread[Replica].pc = "handle" /\ One(Copies, ev) = {t}
    BY <2>1, HandlerOut
  <2>3. t \in At(Copies, "hand")
    BY <2>2, AtIs DEF InHandOf
  <2>4. \A q \in Place : q # "hand" => t \notin At(Open, q)
    BY <2>3, OnlyOpenThere DEF Place
  <2>5. At(Open, "hand")' = {}
    BY <1>1, <2>2, AtWillBe DEF InHandOf, HandlerFrameOf
  <2>6. At(Open, "emit")' = {}
    <3>1. ~RetriesSameStep(Mk("failed", t, n, FALSE)) /\ Mk("failed", t, n, FALSE).type = "failed"
      BY DEF RetriesSameStep, Mk
    <3>2. AboutAny(Open, {Mk("failed", t, n, FALSE)}) = {}
      BY <3>1 DEF AboutAny, One, Open
    <3> QED
      BY <2>1, <3>2, AtWillBe
  <2>7. \A q \in Place : q \notin {"hand", "emit"} => At(Open, q)' = At(Open, q)
    BY <1>1, AtIs, AtWillBe DEF HandlerFrameOf, queues, workers, services, Place
  <2> QED
    BY <2>4, <2>5, <2>6, <2>7 DEF All
<1>6. CASE thread[Replica].pc = "giveUp" /\ thread[Replica].end = "giveUp"
  BY <1>3, <1>6 DEF Sunk
<1>7. CASE task' = task
  BY <1>3, <1>7
<1>8. CASE \E s \in {"running", "completed", "ready"} : task' = [task EXCEPT ![t] = s]
  BY <1>2, <1>8
<1> QED
  <2>1. \/ task' = task
        \/ \E s \in {"running", "completed", "ready"} : task' = [task EXCEPT ![t] = s]
        \/ \E n \in Nat : thread'[Replica].out = {Mk("failed", t, n, FALSE)}
        \/ thread[Replica].pc = "handle" /\ ev \in Of({"failed"}) /\ ~RetriesSameStep(ev)
        \/ thread[Replica].pc = "giveUp" /\ thread[Replica].end = "giveUp"
    BY <1>1, <1>2 DEF HandlerEffect, Writes, Of
  <2> QED
    BY <1>4, <1>5, <1>6, <1>7, <1>8, <2>1

\* What a handler does to the rows of its task, and to the others: nothing open, no way back.
LEMMA HandlerSinks ==
  ASSUME State, Calm, Tidy, Sunk, HandleEvent(Replica)
  PROVE  /\ \A u \in Task : u # thread[Replica].ev.task => task'[u] = task[u]
         /\ \A u \in Task \ All(Open) : task'[u] \in {task[u], "running", "failed"}
         /\ \/ job' = job
            \/ job' = SetJobStatus(job, "running")
            \/ job' = SetJobStatus(job, "failed") /\ thread[Replica].ev.task \in Task
                 /\ task'[thread[Replica].ev.task] = "failed"
         /\ thread'[Replica].end = "giveUp" => task'[thread[Replica].ev.task] = "failed"
<1> DEFINE ev == thread[Replica].ev
<1>1. HandlerFrameOf(Replica) /\ HandlerEffect(Replica)
  BY HandlerIs, CalmMeans
<1>2. task \in [Task -> TaskStatus] /\ ev \notin Of({"accepted", "rework_requested"})
  BY NoRework DEF State, Inv, RowsTyped
<1>3. /\ thread[Replica].pc = "handle" /\ ev \in Open => ev.task \in All(Open)
      /\ ev \in TaskEvent => ev.task \in Task
  <2>1. thread[Replica].pc = "handle" /\ ev \in Open => ev.task \in At(Open, "hand")
    BY AtIs DEF InHandOf, One
  <2> QED
    BY <2>1 DEF All, Place, TaskEvent
<1>4. \/ task' = task
      \/ \E s \in {"running", "completed", "ready", "failed"} : task' = [task EXCEPT ![ev.task] = s]
  BY <1>1, <1>2 DEF HandlerEffect, Writes, Of
<1>5. /\ thread[Replica].pc = "handle" /\ ev \in Of({"completed", "allow", "deny"})
           => ev.task \in All(Open)
      /\ thread[Replica].pc = "handle" /\ ev \in Of({"failed"}) /\ RetriesSameStep(ev)
           => ev.task \in All(Open)
  BY <1>3 DEF Open, Copies, Of
<1>6. /\ thread[Replica].pc = "handle" => thread[Replica].end = "ack"
      /\ thread[Replica].pc = "giveUp" => thread[Replica].end = "giveUp"
  BY CalmMeans DEF Sunk, State, Inv, Threads, Consistent
<1>7. thread[Replica].end = "giveUp" => task[ev.task] = "failed" /\ ev \in TaskEvent
  BY CalmMeans DEF Sunk, State, Inv, Threads, Consistent
<1>8. \A s : Committed(Replica, s) = SetJobStatus(job, s)
  BY CommitsWhatIs, CalmMeans
<1> QED
  <2>1. \A u \in Task : u # ev.task => task'[u] = task[u]
    BY <1>2, <1>4
  <2>2. \A u \in Task \ All(Open) : task'[u] \in {task[u], "running", "failed"}
    <3>1. \/ task' = task
          \/ \E s \in {"running", "failed"} : task' = [task EXCEPT ![ev.task] = s]
          \/ thread[Replica].pc = "handle" /\ ev \in Of({"completed", "allow", "deny"})
          \/ thread[Replica].pc = "handle" /\ ev \in Of({"failed"}) /\ RetriesSameStep(ev)
      BY <1>1, <1>2 DEF HandlerEffect, Writes, Of
    <3>2. ev.task \in All(Open) => \A u \in Task \ All(Open) : task'[u] = task[u]
      BY <2>1
    <3>3. ASSUME NEW s, task' = [task EXCEPT ![ev.task] = s]
          PROVE  \A u \in Task : task'[u] \in {task[u], s}
      BY <1>2, <3>3
    <3>4. CASE task' = task
      BY <3>4
    <3>5. CASE \E s \in {"running", "failed"} : task' = [task EXCEPT ![ev.task] = s]
      BY <3>3, <3>5
    <3>6. CASE ev.task \in All(Open)
      BY <3>2, <3>6
    <3>7. CASE thread[Replica].pc = "handle" /\ ev \in Of({"completed", "allow", "deny"})
      BY <1>5, <3>6, <3>7
    <3>8. CASE thread[Replica].pc = "handle" /\ ev \in Of({"failed"}) /\ RetriesSameStep(ev)
      BY <1>5, <3>6, <3>8
    <3> QED
      BY <3>1, <3>4, <3>5, <3>7, <3>8
  <2>3. \/ job' = job
        \/ job' = SetJobStatus(job, "running")
        \/ job' = SetJobStatus(job, "failed") /\ ev.task \in Task /\ task'[ev.task] = "failed"
    <3>1. \/ job' = job
          \/ job' = SetJobStatus(job, "running")
          \/ /\ job' = SetJobStatus(job, "failed") /\ task' = [task EXCEPT ![ev.task] = "failed"]
             /\ ev # PlanCreated
      <4>1. \A types : Of(types) \subseteq TaskEvent
        BY DEF Of
      <4>2. ev \in TaskEvent => ev # PlanCreated
        BY OrchestratorAssumption DEF PlanCreated, Mk, TaskEvent, EventType
      <4> QED
        BY <1>1, <1>2, <1>7, <1>8, <4>1, <4>2 DEF HandlerEffect, Writes
    <3> QED
      BY <1>1, <1>2, <3>1 DEF HandlerFrameOf
  <2>4. thread'[Replica].end = "giveUp" => task'[ev.task] = "failed"
    BY <1>1, <1>2, <1>3, <1>6, <1>7 DEF HandlerEffect, HandlerFrameOf, Writes, Of
  <2> QED
    BY <2>1, <2>2, <2>3, <2>4

\* A job that has failed stays so, and gets its status back from the rows.
LEMMA JobStays ==
  ASSUME State, Sunk
  PROVE  /\ job = "failed" => /\ SetJobStatus(job, "running") = job
                              /\ SetJobStatus(job, "failed") = job
                              /\ SetJobStatus(job, DerivedJobStatus({task[t] : t \in Task})) = job
         /\ job = "succeeded" => \A s : SetJobStatus(job, s) = job
         /\ SetJobStatus(job, "running") = "failed" => job = "failed"
         /\ SetJobStatus(job, DerivedJobStatus({task[t] : t \in Task})) = "failed"
              => job = "failed" \/ \E t \in Task : task[t] = "failed"
<1> DEFINE statuses == {task[t] : t \in Task}
<1>1. job \in JobStatus
  BY DEF State, Inv, RowsTyped
<1>2. job = "failed" => \E s \in statuses : s \in {"failed", "running"}
  BY DEF Sunk
<1>3. "failed" \in statuses => \E t \in Task : task[t] = "failed"
  OBVIOUS
<1> HIDE DEF statuses
<1>4. job = "failed" => DerivedJobStatus(statuses) # "planning"
  BY <1>2 DEF DerivedJobStatus, Done
<1>5. DerivedJobStatus(statuses) = "failed" => "failed" \in statuses
  BY DEF DerivedJobStatus
<1>6. \A s : job = "succeeded" => SetJobStatus(job, s) = job
  BY DEF SetJobStatus, JobTransitions
<1>7. \A s : job = "failed" /\ s # "planning" => SetJobStatus(job, s) = job
  BY DEF SetJobStatus, JobTransitions
<1>8. \A s : SetJobStatus(job, s) \in {job, s}
  BY DEF SetJobStatus
<1> QED
  BY <1>3, <1>4, <1>5, <1>6, <1>7, <1>8 DEF statuses

\* What has failed stays failed.
LEMMA NextSunk ==
  ASSUME State, Calm, Tidy, Sunk, [Next]_vars
  PROVE  Sunk' /\ (Ended => job' = job)
<1>0. Replica \in Api /\ Replica \in Thread
  BY CalmMeans
<1>1. ASSUME All(Open)' \subseteq All(Open), job' = job, task' = task,
             \/ thread'[Replica] = thread[Replica]
             \/ thread'[Replica].end = "ack"
             \/ thread'[Replica].end # "giveUp" /\ thread'[Replica].pc # "handle"
      PROVE  Sunk' /\ (Ended => job' = job)
  BY <1>1 DEF Sunk
<1>2. CASE Deliver(Replica) \/ NextEntry(Replica) \/ RecoverPending(Replica) \/ Ack(Replica)
  <2>1. Kept
    BY <1>0, <1>2, LoopKept
  <2>2. UNCHANGED rows /\ \E r : Becomes(Replica, r) /\ (r = Idle \/ \E e : r = Handle(e))
    BY <1>0, <1>2, LoopIs DEF Picks
  <2>3. /\ Idle.end # "giveUp" /\ Idle.pc # "handle"
        /\ \A e : Handle(e).end = "ack"
    BY DEF Idle, Handle
  <2>4. \/ thread'[Replica].end = "ack"
        \/ thread'[Replica].end # "giveUp" /\ thread'[Replica].pc # "handle"
    BY <2>2, <2>3 DEF Becomes
  <2> QED
    BY <1>1, <2>1, <2>2, <2>4 DEF Kept, rows
<1>3. CASE HandleEvent(Replica)
  <2> DEFINE ev == thread[Replica].ev
  <2>1. HandlerFrameOf(Replica) /\ Kept
    BY <1>0, <1>3, HandlerIs, HandlerKept
  <2>2. /\ \A u \in Task : u # ev.task => task'[u] = task[u]
        /\ \A u \in Task \ All(Open) : task'[u] \in {task[u], "running", "failed"}
        /\ \/ job' = job
           \/ job' = SetJobStatus(job, "running")
           \/ /\ job' = SetJobStatus(job, "failed") /\ ev.task \in Task
              /\ task'[ev.task] = "failed"
        /\ thread'[Replica].end = "giveUp" => task'[ev.task] = "failed"
    BY <1>3, HandlerSinks
  <2>3. ASSUME NEW t \in Task, task'[t] = "failed" PROVE t \notin All(Open)'
    <3>1. CASE t = ev.task
      BY <1>3, <2>3, <3>1, HandlerFails
    <3>2. CASE t # ev.task
      BY <2>1, <2>2, <2>3, <3>2 DEF Sunk, Kept
    <3> QED
      BY <3>1, <3>2
  <2>4. Ended => job' = job
    BY <2>2, JobStays DEF Ended
  <2>5. job' = "failed" => job = "failed" \/ (ev.task \in Task /\ task'[ev.task] = "failed")
    BY <2>2, JobStays
  <2>6. ASSUME job' = "failed"
        PROVE  \E t \in Task \ All(Open)' : task'[t] \in {"failed", "running"}
    <3>1. CASE job = "failed"
      <4>1. PICK t \in Task \ All(Open) : task[t] \in {"failed", "running"}
        BY <3>1 DEF Sunk
      <4> QED
        BY <2>1, <2>2, <4>1 DEF Kept
    <3>2. CASE ev.task \in Task /\ task'[ev.task] = "failed"
      BY <2>3, <3>2
    <3> QED
      BY <2>5, <2>6, <3>1, <3>2
  <2>7. thread'[Replica].pc # "handle" /\ thread'[Replica].ev = ev
    BY <2>1 DEF HandlerFrameOf
  <2> QED
    BY <2>2, <2>3, <2>4, <2>6, <2>7 DEF Sunk
<1>4. CASE ProceedFrameOf(Replica) /\ ProceedEffect(Replica)
  <2>1. /\ thread'[Replica].ev = thread[Replica].ev /\ thread'[Replica].end = thread[Replica].end
        /\ thread'[Replica].pc # "handle"
    <3>1. thread[Replica].end \in End
      BY <1>0 DEF State, Inv, Threads, ThreadRecord
    <3> QED
      BY <1>4, <3>1 DEF ProceedFrameOf, End
  <2>2. CASE CommitEffect(Replica)
    <3> DEFINE S == thread[Replica].batch
    <3>1. /\ All(Open)' \subseteq All(Open) \cup S /\ S \cap All(Copies) = {}
          /\ \A t \in S : task[t] = "pending"
      BY <1>4, <2>2, CommitCopies DEF Tidy, Untouched
    <3>2. job' = job /\ \A t \in Task \ S : task'[t] = task[t]
      BY <2>2 DEF CommitEffect
    <3>3. \A t \in S : task'[t] = "failed" => t \notin All(Open)'
      <4> SUFFICES ASSUME NEW t \in S, task'[t] = "failed" PROVE t \notin All(Open)'
        OBVIOUS
      <4>1. PICK type \in Emitted, n \in Nat :
              Mk(type, t, n, FALSE) \in thread'[Replica].out /\ task'[t] = StatusFor(type)
        BY <2>2 DEF CommitEffect
      <4>2. type = "failed"
        BY <4>1 DEF StatusFor
      <4>3. \A e \in thread'[Replica].out : e.task = t => e = Mk(type, t, n, FALSE)
        BY <2>2, <4>1 DEF CommitEffect, Mk
      <4>4. ~RetriesSameStep(Mk(type, t, n, FALSE)) /\ Mk(type, t, n, FALSE).type = "failed"
        BY <4>2 DEF RetriesSameStep, Mk
      <4>5. t \notin AboutAny(Open, thread'[Replica].out)
        BY <4>3, <4>4 DEF AboutAny, One, Open
      <4>6. \A q \in Place : q # "emit" => At(Open, q)' \subseteq At(Open, q)
        <5>1. InHandOf(Open)' \subseteq InHandOf(Open)
          BY <1>4, <2>2, ProceedHand DEF CommitEffect
        <5> QED
          BY <2>2, <5>1, AtIs, AtWillBe DEF CommitEffect, Place, queues, workers, services
      <4>7. t \notin All(Open)
        <5>1. All(Open) \subseteq All(Copies)
          <6>1. Open \subseteq Copies
            BY DEF Open
          <6>2. \A f : About(Open, f) \subseteq About(Copies, f)
            BY <6>1 DEF About, One
          <6>3. \A s : AboutAny(Open, s) \subseteq AboutAny(Copies, s)
            BY <6>1 DEF AboutAny, One
          <6>4. InHandOf(Open) \subseteq InHandOf(Copies)
            BY <6>1 DEF InHandOf, One
          <6>5. \A q \in Place : At(Open, q) \subseteq At(Copies, q)
            BY <6>2, <6>3, <6>4, AtIs DEF Place
          <6> QED
            BY <6>5 DEF All
        <5> QED
          BY <3>1, <5>1
      <4> QED
        BY <4>5, <4>6, <4>7, AtWillBe DEF All
    <3>4. \A t \in Task : task[t] = "failed" => task'[t] = "failed" /\ t \notin All(Open)'
      BY <3>1, <3>2 DEF Sunk
    <3>5. \A t \in Task : task'[t] = "failed" => t \notin All(Open)'
      BY <3>2, <3>3, <3>4
    <3>6. job' = "failed" => \E t \in Task \ All(Open)' : task'[t] \in {"failed", "running"}
      <4> SUFFICES ASSUME job' = "failed"
                   PROVE  \E t \in Task \ All(Open)' : task'[t] \in {"failed", "running"}
        OBVIOUS
      <4>1. PICK t \in Task \ All(Open) : task[t] \in {"failed", "running"}
        BY <3>2 DEF Sunk
      <4>2. t \notin S
        BY <3>1, <4>1
      <4> QED
        BY <3>1, <3>2, <4>1, <4>2
    <3>7. thread'[Replica].end = "giveUp" => task'[thread'[Replica].ev.task] = "failed"
      <4> SUFFICES ASSUME thread[Replica].end = "giveUp"
                   PROVE  task'[thread[Replica].ev.task] = "failed"
        BY <2>1
      <4>1. task[thread[Replica].ev.task] = "failed" /\ thread[Replica].ev.task \in Task
        BY <1>0 DEF Sunk, State, Inv, Threads, Consistent, TaskEvent
      <4> QED
        BY <3>4, <4>1
    <3> QED
      BY <2>1, <3>2, <3>5, <3>6, <3>7 DEF Sunk
  <2>3. CASE ReadEffect(Replica) \/ EmitEffect(Replica)
    <3>1. Kept
      BY <1>4, <2>3, ProceedKept
    <3>2. UNCHANGED rows
      BY <2>3 DEF ReadEffect, EmitEffect
    <3> QED
      BY <2>1, <3>1, <3>2 DEF Sunk, Kept, rows
  <2>4. CASE RefreshEffect(Replica)
    <3>1. Kept
      BY <1>4, <2>4, ProceedKept
    <3>2. task' = task /\ job' = SetJobStatus(job, DerivedJobStatus({task[t] : t \in Task}))
      BY <1>0, <2>4, CommitsWhatIs DEF RefreshEffect
    <3>3. /\ Ended => job' = job
          /\ job' = "failed" => job = "failed" \/ \E t \in Task : task[t] = "failed"
      BY <3>2, JobStays DEF Ended
    <3>4. job' = "failed" => \E t \in Task \ All(Open) : task[t] \in {"failed", "running"}
      BY <3>3 DEF Sunk
    <3>5. /\ thread'[Replica].end = "giveUp" => task'[thread'[Replica].ev.task] = "failed"
          /\ thread'[Replica].pc = "handle" => thread'[Replica].end = "ack"
      BY <2>1, <3>2 DEF Sunk
    <3>6. /\ \A t \in Task : task'[t] = "failed" => t \notin All(Open)'
          /\ job' = "failed" => \E t \in Task \ All(Open)' : task'[t] \in {"failed", "running"}
      BY <3>1, <3>2, <3>4 DEF Sunk, Kept
    <3> QED
      BY <3>3, <3>5, <3>6 DEF Sunk
  <2> QED
    BY <1>4, <2>2, <2>3, <2>4 DEF ProceedEffect
<1>5. CASE ApiFault
  <2>1. Kept /\ UNCHANGED rows /\ Becomes(Replica, Idle)
    BY <1>5, ErrorKept
  <2>2. thread'[Replica].end # "giveUp" /\ thread'[Replica].pc # "handle"
    BY <2>1 DEF Becomes, Idle
  <2> QED
    BY <1>1, <2>1, <2>2 DEF Kept, rows
<1>6. CASE WorkerStep \/ WorkerFault \/ ServiceStep \/ Rests
  <2>1. UNCHANGED <<rows, thread>>
    BY <1>6, OthersLeave
  <2>2. All(Open)' \subseteq All(Open)
    <3>1. CASE WorkerStep \/ WorkerFault \/ ServiceStep
      BY <3>1, WorkersKept, ServicesKept DEF Kept
    <3>2. CASE Rests
      BY <3>2 DEF All, At, InHandOf, Rests, queues, workers, services
    <3> QED
      BY <1>6, <3>1, <3>2
  <2> QED
    BY <1>1, <2>1, <2>2 DEF rows
<1> QED
  BY <1>2, <1>3, <1>4, <1>5, <1>6, CalmStep DEF Tidy

\* No task has failed in a plan that was just stored.
LEMMA InitSunk ==
  ASSUME Calm, Init
  PROVE  Sunk
<1> DEFINE first == [Handle(PlanCreated) EXCEPT !.pc = "dispatch", !.refreshes = 1]
<1>1. PICK a \in Api : thread = [x \in Thread |-> IF x = a THEN first ELSE Idle]
  BY DEF Init
<1>2. first.end # "giveUp" /\ first.pc = "dispatch"
  BY DEF Handle, Idle
<1> HIDE DEF first
<1>3. thread[Replica].end # "giveUp" /\ thread[Replica].pc = "dispatch"
  BY <1>1, <1>2, CalmMeans
<1> QED
  BY <1>3 DEF Sunk, Init

\* Under what Calm assumes, the outcome of a job changes only when the user asks for a retry,
\* for every plan: whatever arrives late, is handled again, or was lost.  (A refresh derives
\* the status from the rows, and SetJobStatus lets a failed job plan again: what keeps it from
\* doing so is that the task that failed it has nothing in flight that could hide that.)
THEOREM OutcomeFinal ==
  ASSUME Calm
  PROVE  Spec => OutcomeIsFinal
<1> DEFINE IInv == State /\ Tidy /\ Sunk
           Stays == Ended => (job' = job \/ ResumedByRequest)
<1>1. Init => IInv
  BY InitState, InitTidy, InitSunk
<1>2. IInv /\ [Next]_vars => IInv'
  BY NextState, NextTidy, NextSunk
<1>3. IInv /\ [Next]_vars => [Stays]_vars
  BY NextSunk
<1>4. OutcomeIsFinal <=> [][Stays]_vars
  BY DEF OutcomeIsFinal
<1> HIDE DEF IInv, Stays
<1> QED
  BY <1>1, <1>2, <1>3, <1>4, PTL DEF Spec
=============================================================================
