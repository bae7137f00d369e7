--------------------------- MODULE PlanningProofs ---------------------------
(***************************************************************************)
(* Theorems about Planning, for every plan, any budget of replans, any     *)
(* number of plans and any combination of disturbances.  A request for a   *)
(* plan is counted when it is granted, and a plan is stored from what was  *)
(* read earlier: the invariants say what that reading is still worth when  *)
(* it is used.                                                             *)
(*                                                                         *)
(* PlanningInv is about requests and plans.  Beside it stand two           *)
(* invariants about the rows: Handover, that a plan that is replaced       *)
(* leaves nothing waiting, and Reported, that nothing done and handed out  *)
(* once has a report under way that says otherwise.  Both except the rows  *)
(* that were written over from an outdated reading, which Planning notes.  *)
(***************************************************************************)
EXTENDS Planning, SequenceTheorems, TLAPS

Event == PlanEvent \cup TaskEvent

-----------------------------------------------------------------------------
(* Types.                                                                  *)

\* The events that are written and handled are events.
LEMMA EventTyped ==
  /\ \A s \in PlanShape : [type |-> "plan_created", names |-> s] \in PlanEvent
  /\ [type |-> "plan_failed"] \in PlanEvent
  /\ \A e \in [type : {"completed"}, id : Id] : e \in TaskEvent /\ e.id \in Id
  /\ \A e \in [type : ErrorKind, id : Id] : e \in TaskEvent /\ e.id \in Id
<1>1. PlanShape \subseteq SUBSET Name /\ ErrorKind \subseteq Result
  BY PlanningAssumption
<1>2. \A s \in PlanShape : [type |-> "plan_created", names |-> s] \in PlanEvent
  BY <1>1 DEF PlanEvent
<1>3. [type |-> "plan_failed"] \in PlanEvent
  BY DEF PlanEvent
<1>4. \A e \in [type : {"completed"}, id : Id] : e \in TaskEvent /\ e.id \in Id
  BY DEF TaskEvent, Result
<1>5. \A e \in [type : ErrorKind, id : Id] : e \in TaskEvent /\ e.id \in Id
  BY <1>1 DEF TaskEvent
<1> QED
  BY <1>2, <1>3, <1>4, <1>5

PcType == {"idle", "handle", "dispatch", "commit", "refresh", "request", "report", "ack",
           "recover", "replan"}

\* A thread as a handler or a request begins it.
LEMMA ThreadTyped ==
  ASSUME NEW pc \in PcType, NEW ev \in Event \cup {NoEvent}, NEW p \in 0..MaxPlans
  PROVE  /\ Thread(pc, ev, p) \in Threads
         /\ \A ids \in SUBSET Id : [Thread(pc, ev, p) EXCEPT !.batch = ids] \in Threads
<1>1. [pending |-> "none", count |-> 0, active |-> 0] \in Meta
  BY PlanningAssumption DEF Meta
<1>2. "queued" \in JobStatus
  BY DEF JobStatus
<1> QED
  BY <1>1, <1>2 DEF Thread, Threads, Event, PcType

\* The parts of a thread.
LEMMA ThreadIs ==
  ASSUME NEW pc, NEW ev, NEW p
  PROVE  /\ Thread(pc, ev, p).pc = pc /\ Thread(pc, ev, p).ev = ev /\ Thread(pc, ev, p).plan = p
         /\ Thread(pc, ev, p).batch = {}
         /\ \A ids : LET t == [Thread(pc, ev, p) EXCEPT !.batch = ids]
                     IN  t.pc = pc /\ t.ev = ev /\ t.batch = ids
BY DEF Thread

\* A thread with nothing in hand.
LEMMA IdleTyped == Idle \in Threads
BY ThreadTyped, PlanningAssumption DEF Idle, PcType

\* A change of the place a thread is at.
LEMMA PcTyped ==
  ASSUME NEW r \in Threads, NEW pc \in PcType
  PROVE  [r EXCEPT !.pc = pc] \in Threads
BY DEF Threads, PcType

\* The active plan is one of the plans.
LEMMA ActivePlanTyped ==
  ASSUME plans \in 0..MaxPlans, NEW m \in Meta
  PROVE  ActivePlan(m) \in 0..MaxPlans
BY DEF ActivePlan, Meta

\* A reading of the job, and its parts.
LEMMA ReadTyped ==
  ASSUME TypeOK, NEW pc \in PcType, NEW ev \in Event \cup {NoEvent}
  PROVE  Read(pc, ev) \in Threads
<1>1. /\ job \in JobStatus /\ meta \in Meta /\ ActivePlan(meta) \in 0..MaxPlans
  BY ActivePlanTyped DEF TypeOK
<1>2. Thread(pc, ev, ActivePlan(meta)) \in Threads
  BY <1>1, ThreadTyped
<1>3. Unfinished(ActivePlan(meta)) \in SUBSET Id
  BY DEF Unfinished, RowsOf
<1> QED
  BY <1>1, <1>2, <1>3 DEF Read, Threads

LEMMA ReadIs ==
  ASSUME NEW pc, NEW ev
  PROVE  /\ Read(pc, ev).pc = pc /\ Read(pc, ev).ev = ev /\ Read(pc, ev).job = job
         /\ Read(pc, ev).meta = meta /\ Read(pc, ev).plan = ActivePlan(meta)
         /\ Read(pc, ev).batch = Unfinished(ActivePlan(meta))
BY DEF Read, Thread

\* A status that is written is a status of a job.
LEMMA SetJobStatusTyped ==
  ASSUME NEW s \in JobStatus, NEW n \in JobStatus
  PROVE  SetJobStatus(s, n) \in JobStatus
BY DEF SetJobStatus, JobStatus

\* So is the one derived from the tasks.
LEMMA RefreshedTyped ==
  ASSUME job \in JobStatus
  PROVE  Refreshed \in JobStatus
<1>1. \A S : DerivedJobStatus(S) \in JobStatus
  BY DEF DerivedJobStatus, JobStatus, Done
<1>2. "planning" \in JobStatus
  BY DEF JobStatus
<1> QED
  BY <1>1, <1>2, SetJobStatusTyped DEF Refreshed

RowType == [plan : 0..MaxPlans, status : TaskStatus]

\* A row of a plan.
LEMMA NewRowTyped ==
  ASSUME NEW p \in 0..MaxPlans
  PROVE  NewRow(p) \in RowType
BY PlanningAssumption DEF NewRow, NoRow, RowType, TaskStatus

\* A row whose status is changed.
LEMMA StatusTyped ==
  ASSUME NEW r \in RowType, NEW s \in TaskStatus
  PROVE  [r EXCEPT !.status = s] \in RowType
BY DEF RowType

\* What a dispatch writes.
LEMMA DispatchTyped ==
  ASSUME TypeOK, NEW ids \in SUBSET Id, DispatchRows(ids)
  PROVE  /\ rows' \in [Id -> RowType]
         /\ exec' \in [Id -> Nat] /\ handed' \in [Id -> Nat] /\ overtaken' \in SUBSET Id
<1>1. /\ rows \in [Id -> RowType] /\ exec \in [Id -> Nat] /\ handed \in [Id -> Nat]
      /\ overtaken \in SUBSET Id
  BY DEF TypeOK, RowType
<1>2. "ready" \in TaskStatus
  BY DEF TaskStatus
<1>3. \A id \in Id : exec[id] + 1 \in Nat /\ handed[id] + 1 \in Nat
  BY <1>1
<1> QED
  BY <1>1, <1>2, <1>3, StatusTyped DEF DispatchRows

\* The rows that superseding writes.
LEMMA CanceledTyped ==
  ASSUME TypeOK, NEW ids
  PROVE  Canceled(ids) \in [Id -> RowType]
<1>1. rows \in [Id -> RowType] /\ "canceled" \in TaskStatus
  BY DEF TypeOK, RowType, TaskStatus
<1> QED
  BY <1>1, StatusTyped DEF Canceled

\* The rows that storing a plan writes.
LEMMA StoredTyped ==
  ASSUME TypeOK, NEW p \in 0..MaxPlans, NEW names, NEW kept
  PROVE  StoredRows(p, names, kept) \in [Id -> RowType]
<1>1. rows \in [Id -> RowType]
  BY DEF TypeOK, RowType
<1>2. \A id \in Id : [rows[id] EXCEPT !.plan = p] \in RowType
  BY <1>1 DEF RowType
<1> QED
  BY <1>1, <1>2, NewRowTyped DEF StoredRows

\* Rows are rows of tasks.
LEMMA DisplacedTyped ==
  \A p : Displaced(p) \in SUBSET Id
BY DEF Displaced, RowsOf

\* What is written back.
LEMMA WriteBackTyped ==
  ASSUME TypeOK, NEW x, NEW m \in Meta, WriteBack(x, m)
  PROVE  meta' \in Meta /\ overtaken' \in SUBSET Id
BY DisplacedTyped DEF WriteBack, TypeOK

\* A replan keeps the types.
LEMMA ReplanTyped ==
  ASSUME TypeOK, NEW x \in Threads, NEW strategy \in Strategy, RequestReplan(x, strategy)
  PROVE  /\ job' \in JobStatus /\ meta' \in Meta /\ plans' = plans
         /\ rows' \in [Id -> RowType] /\ overtaken' \in SUBSET Id /\ granted' \in Nat
<1>1. x.meta \in Meta /\ granted \in Nat /\ x.batch \in SUBSET Id /\ overtaken \in SUBSET Id
  BY DEF TypeOK, Threads
<1>2. x.meta.count + 1 \in Nat /\ strategy \in Strategy \cup {"none"}
  BY <1>1 DEF Meta
<1>3. meta' = [x.meta EXCEPT !.pending = strategy, !.count = x.meta.count + 1]
  BY DEF RequestReplan
<1>4. meta' \in Meta
  BY <1>1, <1>2, <1>3 DEF Meta
<1>5. overtaken' \in SUBSET Id
  BY <1>1, DisplacedTyped DEF RequestReplan
<1>6. job' \in JobStatus
  BY DEF RequestReplan, TypeOK, JobStatus
<1> QED
  BY <1>1, <1>4, <1>5, <1>6, CanceledTyped DEF RequestReplan, Superseded

\* What is left of the streams and the executions when an event has been taken.
LEMMA TakeTyped ==
  ASSUME TypeOK
  PROVE  /\ \A e : TakePlanEvent(e) =>
               planStream' \in Seq(PlanEvent) /\ redo' \in SUBSET (PlanEvent \cup TaskEvent)
         /\ \A e : e.id \in Id /\ TakeResult(e) =>
               exec' \in [Id -> Nat] /\ redo' \in SUBSET (PlanEvent \cup TaskEvent)
<1>1. /\ planStream \in Seq(PlanEvent) /\ redo \in SUBSET (PlanEvent \cup TaskEvent)
      /\ exec \in [Id -> Nat]
  BY DEF TypeOK
<1>2. planStream # <<>> => Tail(planStream) \in Seq(PlanEvent)
  BY <1>1, HeadTailProperties
<1>3. ASSUME NEW e, TakePlanEvent(e)
      PROVE  planStream' \in Seq(PlanEvent) /\ redo' \in SUBSET (PlanEvent \cup TaskEvent)
  BY <1>1, <1>2, <1>3 DEF TakePlanEvent
<1>4. ASSUME NEW e, e.id \in Id, TakeResult(e)
      PROVE  exec' \in [Id -> Nat] /\ redo' \in SUBSET (PlanEvent \cup TaskEvent)
  <2>1. exec[e.id] \in Nat
    BY <1>1, <1>4
  <2>2. exec[e.id] > 0 => exec[e.id] - 1 \in Nat
    BY <2>1
  <2> QED
    BY <1>1, <1>4, <2>2 DEF TakeResult
<1> QED
  BY <1>3, <1>4

\* Disturbances are counted within Faults.
LEMMA DisturbTyped ==
  ASSUME NEW k, Disturb(k)
  PROVE  used' \in Faults \cup {[i \in Disturbance |-> 0]}
BY DEF Disturb

\* A request that is sent, or refused by Redis.
LEMMA EmitTyped ==
  ASSUME TypeOK, NEW lost \in BOOLEAN, Emit(lost)
  PROVE  /\ requests' \in Nat /\ dropped' \in BOOLEAN
         /\ used' \in Faults \cup {[i \in Disturbance |-> 0]}
<1>1. requests \in Nat /\ used \in Faults \cup {[k \in Disturbance |-> 0]}
  BY DEF TypeOK
<1>2. CASE lost
  BY <1>1, <1>2, DisturbTyped DEF Emit
<1>3. CASE ~lost
  <2>1. requests' = requests + 1 /\ dropped' = FALSE /\ used' = used
    BY <1>3, Zenon DEF Emit
  <2>2. requests' \in Nat /\ dropped' \in BOOLEAN
    <3>1. requests \in Nat /\ requests' = requests + 1
      BY <1>1, <2>1, Zenon
    <3>2. requests' \in Nat
      BY <3>1, SMT
    <3> QED
      BY <2>1, <3>2, Zenon
  <2>3. used' \in Faults \cup {[i \in Disturbance |-> 0]}
    BY <1>1, <2>1, Zenon
  <2> QED
    BY <2>2, <2>3
<1> QED
  BY <1>2, <1>3

\* A plan event written to the stream.
LEMMA AppendTyped ==
  ASSUME TypeOK, NEW e \in PlanEvent
  PROVE  Append(planStream, e) \in Seq(PlanEvent) /\ Append(planStream, e) # <<>>
BY DEF TypeOK

\* Every step keeps the types.
LEMMA TypeStep ==
  ASSUME TypeOK, [Next]_vars
  PROVE  TypeOK'
<1> USE DEF record, streams, history
<1>1. /\ job \in JobStatus /\ meta \in Meta /\ plans \in 0..MaxPlans
      /\ rows \in [Id -> RowType] /\ exec \in [Id -> Nat]
      /\ orch \in Threads /\ http \in Threads /\ requests \in Nat /\ planner \in BOOLEAN
      /\ planStream \in Seq(PlanEvent) /\ redo \in SUBSET (PlanEvent \cup TaskEvent)
      /\ handed \in [Id -> Nat] /\ overtaken \in SUBSET Id
      /\ granted \in Nat /\ dropped \in BOOLEAN
      /\ used \in Faults \cup {[k \in Disturbance |-> 0]} /\ MaxPlans \in Nat
  BY PlanningAssumption DEF TypeOK, RowType
<1>2. /\ orch.ev \in Event \cup {NoEvent} /\ orch.job \in JobStatus /\ orch.meta \in Meta
      /\ orch.plan \in 0..MaxPlans /\ orch.batch \in SUBSET Id /\ http.batch \in SUBSET Id
      /\ http.plan \in 0..MaxPlans
  BY <1>1 DEF Threads, Event
<1>3. /\ "failed" \in JobStatus /\ "planning" \in JobStatus /\ "canceled" \in JobStatus
      /\ "completed" \in TaskStatus /\ "failed" \in TaskStatus
  BY DEF JobStatus, TaskStatus
<1>4. \A x, new : new \in JobStatus /\ WriteStatus(x, new) => job' \in JobStatus
  BY <1>1 DEF WriteStatus
<1>5. \A pc \in PcType, p \in 0..MaxPlans : Thread(pc, orch.ev, p) \in Threads
  BY <1>2, ThreadTyped
<1>6. \A pc \in PcType, ev \in Event \cup {NoEvent} : Read(pc, ev) \in Threads
  BY ReadTyped
<1>7. /\ \A pc \in PcType : Thread(pc, NoEvent, 0) \in Threads
      /\ \A p : \A pc \in PcType : [Thread(pc, orch.ev, 0) EXCEPT !.batch = Ready(p)] \in Threads
      /\ \A p : \A pc \in PcType : [Thread(pc, NoEvent, 0) EXCEPT !.batch = Ready(p)] \in Threads
  <2>1. 0 \in 0..MaxPlans /\ NoEvent \in Event \cup {NoEvent}
    BY <1>1
  <2>2. \A p : Ready(p) \in SUBSET Id
    BY DEF Ready, RowsOf
  <2> QED
    BY <1>2, <2>1, <2>2, ThreadTyped
<1>8. {"idle", "handle", "dispatch", "commit", "refresh", "request", "report", "ack", "recover",
       "replan"} \subseteq PcType
  BY DEF PcType
<1>9. ASSUME Planner \/ PlannerDrops
      PROVE  TypeOK'
  <2>1. CASE PlannerReads
    <3>1. requests' \in Nat
      BY <1>1, <2>1 DEF PlannerReads
    <3> QED
      BY <1>1, <2>1, <3>1 DEF PlannerReads, TypeOK, RowType
  <2>2. CASE PlannerAnswers
    <3>1. planStream' \in Seq(PlanEvent) /\ planner' = FALSE
      BY <2>2, EventTyped, AppendTyped DEF PlannerAnswers
    <3> QED
      BY <1>1, <2>2, <3>1 DEF PlannerAnswers, TypeOK, RowType
  <2>3. CASE PlannerDrops
    <3>1. used' \in Faults \cup {[k \in Disturbance |-> 0]}
      BY <2>3, DisturbTyped DEF PlannerDrops
    <3> QED
      BY <1>1, <2>3, <3>1 DEF PlannerDrops, TypeOK, RowType
  <2> QED
    BY <1>9, <2>1, <2>2, <2>3 DEF Planner
<1>10. CASE ReadPlanEvent
  <2>1. PICK e \in PlanEvent : TakePlanEvent(e) /\ orch' = Read("handle", e)
    BY <1>10 DEF ReadPlanEvent
  <2>2. orch' \in Threads
    BY <1>6, <1>8, <2>1 DEF Event
  <2>3. planStream' \in Seq(PlanEvent) /\ redo' \in SUBSET (PlanEvent \cup TaskEvent)
    BY <2>1, TakeTyped
  <2> QED
    BY <1>1, <1>10, <2>2, <2>3 DEF ReadPlanEvent, TypeOK, RowType
<1>11. CASE ReadFailure
  <2>1. PICK e \in [type : ErrorKind, id : Id] : TakeResult(e) /\ orch' = Read("handle", e)
    BY <1>11 DEF ReadFailure
  <2>2. e \in TaskEvent /\ e.id \in Id
    BY EventTyped
  <2>3. orch' \in Threads
    BY <1>6, <1>8, <2>1, <2>2 DEF Event
  <2>4. exec' \in [Id -> Nat] /\ redo' \in SUBSET (PlanEvent \cup TaskEvent)
    BY <2>1, <2>2, TakeTyped
  <2> QED
    BY <1>1, <1>11, <2>3, <2>4 DEF ReadFailure, TypeOK, RowType
<1>12. CASE RejectPlan
  <2>1. job' \in JobStatus /\ orch' \in Threads
    BY <1>1, <1>3, <1>4, <1>5, <1>8, <1>12 DEF RejectPlan
  <2>2. meta' \in Meta /\ overtaken' \in SUBSET Id
    BY <1>2, <1>12, WriteBackTyped DEF RejectPlan
  <2> QED
    BY <1>1, <1>12, <2>1, <2>2 DEF RejectPlan, TypeOK, RowType
<1>13. CASE DiscardPlan
  <2>1. orch' \in Threads
    BY <1>2, <1>5, <1>8, <1>13 DEF DiscardPlan
  <2> QED
    BY <1>1, <1>13, <2>1 DEF DiscardPlan, TypeOK, RowType
<1>14. CASE StorePlan
  <2>1. plans + 1 \in 0..MaxPlans
    BY <1>1, <1>14 DEF StorePlan
  <2>2. orch' \in Threads
    BY <1>5, <1>8, <1>14, <2>1 DEF StorePlan
  <2>3. rows' \in [Id -> RowType]
    BY <1>14, <2>1, StoredTyped DEF StorePlan
  <2>4. meta' \in Meta
    BY <1>2, <1>14, <2>1 DEF StorePlan, Meta
  <2>5. job' \in JobStatus
    BY <1>3, <1>4, <1>14 DEF StorePlan
  <2>6. overtaken' \in SUBSET Id
    BY <1>1, <1>14, DisplacedTyped DEF StorePlan
  <2> QED
    BY <1>1, <1>14, <2>1, <2>2, <2>3, <2>4, <2>5, <2>6 DEF StorePlan, TypeOK, RowType
<1>15. CASE HandlePlanFailed
  <2>1. job' \in JobStatus /\ orch' \in Threads
    BY <1>1, <1>3, <1>4, <1>5, <1>8, <1>15 DEF HandlePlanFailed
  <2>2. meta' \in Meta /\ overtaken' \in SUBSET Id
    BY <1>2, <1>15, WriteBackTyped DEF HandlePlanFailed
  <2> QED
    BY <1>1, <1>15, <2>1, <2>2 DEF HandlePlanFailed, TypeOK, RowType
<1>16. CASE HandleTaskCompleted
  <2>1. PICK e \in [type : {"completed"}, id : Id] :
          /\ TakeResult(e)
          /\ rows' = [rows EXCEPT ![e.id].status = "completed"]
          /\ orch' = Thread("dispatch", e, rows[e.id].plan)
    BY <1>16 DEF HandleTaskCompleted
  <2>2. e \in Event /\ e.id \in Id
    BY EventTyped DEF Event
  <2>3. rows[e.id] \in RowType /\ rows[e.id].plan \in 0..MaxPlans
    BY <1>1, <2>2 DEF RowType
  <2>4. orch' \in Threads
    BY <1>8, <2>1, <2>2, <2>3, ThreadTyped
  <2>5. rows' \in [Id -> RowType]
    BY <1>1, <1>3, <2>1, <2>2, StatusTyped
  <2>6. exec' \in [Id -> Nat] /\ redo' \in SUBSET (PlanEvent \cup TaskEvent)
    BY <2>1, <2>2, TakeTyped
  <2> QED
    BY <1>1, <1>16, <2>4, <2>5, <2>6 DEF HandleTaskCompleted, TypeOK, RowType
<1>17. CASE ReplanAfterFailure
  <2>1. \E s \in Strategy : RequestReplan(orch, s)
    BY <1>17 DEF ReplanAfterFailure, Strategy, Suffix
  <2>2. /\ job' \in JobStatus /\ meta' \in Meta /\ plans' = plans
        /\ rows' \in [Id -> RowType] /\ overtaken' \in SUBSET Id /\ granted' \in Nat
    BY <1>1, <2>1, ReplanTyped
  <2>3. orch' \in Threads
    BY <1>1, <1>5, <1>8, <1>17 DEF ReplanAfterFailure
  <2> QED
    BY <1>1, <1>17, <2>2, <2>3 DEF ReplanAfterFailure, TypeOK, RowType
<1>18. CASE GiveTaskUp
  <2>1. job' \in JobStatus /\ orch' \in Threads
    BY <1>1, <1>3, <1>4, <1>5, <1>8, <1>18 DEF GiveTaskUp
  <2>2. meta' \in Meta /\ overtaken' \in SUBSET Id
    BY <1>2, <1>18, WriteBackTyped DEF GiveTaskUp
  <2>3. rows' \in [Id -> RowType]
    <3>1. \A id \in Id : [rows[id] EXCEPT !.status = "failed"] \in RowType
      BY <1>1, <1>3, StatusTyped
    <3> QED
      BY <1>1, <1>18, <3>1 DEF GiveTaskUp
  <2> QED
    BY <1>1, <1>18, <2>1, <2>2, <2>3 DEF GiveTaskUp, TypeOK, RowType
<1>19. CASE OrchQueries
  <2>1. [Thread("commit", orch.ev, 0) EXCEPT !.batch = Ready(orch.plan)] \in Threads
    BY <1>7, <1>8
  <2>2. Thread("refresh", orch.ev, 0) \in Threads
    BY <1>1, <1>5, <1>8
  <2>3. orch' \in Threads
    BY <1>19, <2>1, <2>2 DEF OrchQueries
  <2> QED
    BY <1>1, <1>19, <2>3 DEF OrchQueries, TypeOK, RowType
<1>20. CASE OrchDispatches
  <2>1. /\ rows' \in [Id -> RowType] /\ exec' \in [Id -> Nat] /\ handed' \in [Id -> Nat]
        /\ overtaken' \in SUBSET Id /\ orch' \in Threads
    BY <1>1, <1>2, <1>5, <1>8, <1>20, DispatchTyped DEF OrchDispatches
  <2> QED
    BY <1>1, <1>20, <2>1 DEF OrchDispatches, TypeOK, RowType
<1>21. CASE OrchRefreshes
  BY <1>1, <1>21, RefreshedTyped, IdleTyped DEF OrchRefreshes, TypeOK, RowType
<1>22. CASE OrchRequests
  <2>1. /\ requests' \in Nat /\ dropped' \in BOOLEAN
        /\ used' \in Faults \cup {[i \in Disturbance |-> 0]}
    BY <1>22, EmitTyped DEF OrchRequests
  <2>2. orch' \in Threads
    BY <1>1, <1>8, <1>22, PcTyped DEF OrchRequests, OrchAt
  <2> QED
    BY <1>1, <1>22, <2>1, <2>2 DEF OrchRequests, TypeOK, RowType
<1>23. CASE OrchReports
  <2>1. planStream' \in Seq(PlanEvent) /\ orch' \in Threads
    BY <1>1, <1>8, <1>23, EventTyped, AppendTyped, PcTyped DEF OrchReports, OrchAt
  <2> QED
    BY <1>1, <1>23, <2>1 DEF OrchReports, TypeOK, RowType
<1>24. CASE OrchAcks
  BY <1>1, <1>24, IdleTyped DEF OrchAcks, TypeOK, RowType
<1>25. CASE HttpRequests
  <2>1. /\ requests' \in Nat /\ dropped' \in BOOLEAN
        /\ used' \in Faults \cup {[i \in Disturbance |-> 0]}
    BY <1>25, EmitTyped DEF HttpRequests
  <2> QED
    BY <1>1, <1>25, <2>1, IdleTyped DEF HttpRequests, TypeOK, RowType
<1>26. CASE HttpQueries
  <2>1. http' \in Threads
    BY <1>7, <1>8, <1>26, IdleTyped DEF HttpQueries
  <2> QED
    BY <1>1, <1>26, <2>1 DEF HttpQueries, TypeOK, RowType
<1>27. CASE HttpDispatches
  <2>1. /\ rows' \in [Id -> RowType] /\ exec' \in [Id -> Nat] /\ handed' \in [Id -> Nat]
        /\ overtaken' \in SUBSET Id /\ http' \in Threads
    BY <1>2, <1>7, <1>8, <1>27, DispatchTyped DEF HttpDispatches
  <2> QED
    BY <1>1, <1>27, <2>1 DEF HttpDispatches, TypeOK, RowType
<1>28. CASE HttpRefreshes
  BY <1>1, <1>28, RefreshedTyped, IdleTyped DEF HttpRefreshes, TypeOK, RowType
<1>29. Thread("dispatch", NoEvent, ActivePlan(meta)) \in Threads
  BY <1>1, <1>8, ThreadTyped, ActivePlanTyped
<1>30. DispatchNext => http' \in Threads
  BY <1>29, IdleTyped DEF DispatchNext
<1>31. CASE ReplanJob
  <2>1. http' \in Threads
    BY <1>6, <1>8, <1>31 DEF ReplanJob
  <2>2. used' \in Faults \cup {[k \in Disturbance |-> 0]}
    BY <1>31, DisturbTyped DEF ReplanJob
  <2> QED
    BY <1>1, <1>31, <2>1, <2>2 DEF ReplanJob, TypeOK, RowType
<1>32. CASE HttpReplans
  <2>1. RequestReplan(http, "full_replan") /\ "full_replan" \in Strategy
    BY <1>32 DEF HttpReplans, Strategy
  <2>2. /\ job' \in JobStatus /\ meta' \in Meta /\ plans' = plans
        /\ rows' \in [Id -> RowType] /\ overtaken' \in SUBSET Id /\ granted' \in Nat
    BY <1>1, <2>1, ReplanTyped
  <2>3. http' \in Threads
    BY <1>7, <1>8, <1>32 DEF HttpReplans
  <2> QED
    BY <1>1, <1>32, <2>2, <2>3 DEF HttpReplans, TypeOK, RowType
<1>33. CASE CancelJob
  <2>1. used' \in Faults \cup {[k \in Disturbance |-> 0]}
    BY <1>33, DisturbTyped DEF CancelJob
  <2> QED
    BY <1>1, <1>3, <1>33, <2>1 DEF CancelJob, TypeOK, RowType
<1>34. CASE ContinueJob
  <2>1. used' \in Faults \cup {[k \in Disturbance |-> 0]} /\ http' \in Threads
    BY <1>30, <1>34, DisturbTyped DEF ContinueJob
  <2> QED
    BY <1>1, <1>3, <1>34, <2>1 DEF ContinueJob, TypeOK, RowType
<1>35. CASE RetryJob
  <2>1. used' \in Faults \cup {[k \in Disturbance |-> 0]} /\ http' \in Threads
    BY <1>30, <1>35, DisturbTyped DEF RetryJob
  <2>2. \A id \in Id : rows[id].plan \in 0..MaxPlans
    BY <1>1 DEF RowType
  <2>3. rows' \in [Id -> RowType]
    BY <1>1, <1>35, <2>2, NewRowTyped DEF RetryJob
  <2> QED
    BY <1>1, <1>3, <1>35, <2>1, <2>3 DEF RetryJob, TypeOK, RowType
<1>36. CASE CreatePlan
  <2>1. plans + 1 \in 0..MaxPlans
    BY <1>1, <1>36 DEF CreatePlan
  <2>2. used' \in Faults \cup {[k \in Disturbance |-> 0]}
    BY <1>36, DisturbTyped DEF CreatePlan
  <2>3. rows' \in [Id -> RowType] /\ planStream' \in Seq(PlanEvent)
    BY <1>36, <2>1, StoredTyped, EventTyped, AppendTyped DEF CreatePlan
  <2>4. meta' \in Meta
    BY <1>1, <1>36, <2>1 DEF CreatePlan, Meta
  <2>5. plans' \in 0..MaxPlans /\ granted' \in Nat
    BY <1>1, <1>36, <2>1 DEF CreatePlan
  <2> QED
    BY <1>1, <1>36, <2>2, <2>3, <2>4, <2>5 DEF CreatePlan, TypeOK, RowType
<1>37. CASE ApiCrash
  <2>1. used' \in Faults \cup {[k \in Disturbance |-> 0]}
    BY <1>37, DisturbTyped DEF ApiCrash
  <2>2. redo' \in SUBSET (PlanEvent \cup TaskEvent)
    BY <1>1, <1>2, <1>37 DEF ApiCrash, Event
  <2> QED
    BY <1>1, <1>7, <1>8, <1>37, <2>1, <2>2, IdleTyped DEF ApiCrash, TypeOK, RowType
<1>38. CASE RecoverJob
  <2>1. http' \in Threads /\ dropped' \in BOOLEAN
    BY <1>1, <1>7, <1>8, <1>29, <1>38, IdleTyped DEF RecoverJob
  <2> QED
    BY <1>1, <1>38, <2>1 DEF RecoverJob, TypeOK, RowType
<1>39. CASE UNCHANGED vars
  BY <1>1, <1>39 DEF vars, TypeOK, RowType
<1> QED
  BY <1>9, <1>10, <1>11, <1>12, <1>13, <1>14, <1>15, <1>16, <1>17, <1>18, <1>19, <1>20, <1>21,
     <1>22, <1>23, <1>24, <1>25, <1>26, <1>27, <1>28, <1>31, <1>32, <1>33, <1>34, <1>35, <1>36,
     <1>37, <1>38, <1>39
  DEF Next, Orchestrator, Requests, User

-----------------------------------------------------------------------------
(* How often a job is planned.                                             *)

\* Every pending replan was granted and has no plan yet: the one in the job's metadata, and the
\* one the orchestrator has read of it and will answer, or write back.
PlansCounted ==
  /\ plans <= 1 + granted
  /\ meta.pending # "none" => plans <= granted
  /\ orch.pc = "handle" /\ orch.meta.pending # "none" => plans <= granted
  /\ orch.pc = "handle" /\ orch.plan = 0 /\ plans # 0 => plans <= granted

\* The active plan is a plan, and so is the one a transaction has read as active.
ActiveStored ==
  /\ meta.active <= plans
  /\ orch.pc = "handle" => orch.meta.active <= plans /\ orch.plan <= plans
  /\ http.pc = "replan" => http.meta.active <= plans

-----------------------------------------------------------------------------
(* Who waits for a plan.                                                   *)

\* The job waits for a plan, whatever its status.
Waits == meta.pending # "none" \/ plans = 0

\* What ends the wait, the orchestrator's reading of an answer apart.
Coming ==
  \/ requests > 0 \/ planner \/ planStream # <<>>
  \/ orch.pc \in {"request", "report"}
  \/ \E e \in redo : IsPlanEvent(e)
  \/ http.pc \in {"request", "recover"}

\* An answer in hand that will be discarded ends no wait, and the handling of a failure may
\* write back a replan that was answered meanwhile: then another answer is coming.  A recovery
\* sees the metadata the orchestrator has read.
Remembered ==
  /\ Waits => Coming \/ (orch.pc = "handle" /\ IsPlanEvent(orch.ev)) \/ dropped
  /\ orch.pc = "handle" /\ ~IsPlanEvent(orch.ev) /\ orch.meta.pending # "none"
       => Coming \/ dropped
  /\ Waits /\ orch.pc = "handle" /\ orch.meta.pending = "none" /\ orch.plan # 0
       => Coming \/ dropped
  /\ orch.pc = "handle" /\ http.pc = "recover" => orch.meta = meta /\ orch.plan = ActivePlan(meta)

\* What is handled is an event.
InHand == orch.pc = "handle" => orch.ev \in Event

PlanningInv == TypeOK /\ PlansCounted /\ ActiveStored /\ Remembered /\ InHand

\* What the invariant says of the numbers and threads it compares.
LEMMA InvTypes ==
  ASSUME PlanningInv
  PROVE  /\ plans \in Nat /\ granted \in Nat /\ requests \in Nat
         /\ meta \in Meta /\ meta.active \in Nat /\ orch \in Threads /\ http \in Threads
         /\ orch.meta \in Meta /\ orch.meta.active \in Nat /\ orch.plan \in Nat
         /\ http.meta \in Meta /\ http.meta.active \in Nat
<1>1. MaxPlans \in Nat
  BY PlanningAssumption
<1>2. /\ plans \in 0..MaxPlans /\ granted \in Nat /\ requests \in Nat /\ meta \in Meta
      /\ orch \in Threads /\ http \in Threads
  BY DEF PlanningInv, TypeOK
<1>3. orch.meta \in Meta /\ http.meta \in Meta /\ orch.plan \in 0..MaxPlans
  BY <1>2 DEF Threads
<1> QED
  BY <1>1, <1>2, <1>3 DEF Meta

\* The orchestrator begins to handle an event: it reads the job and its active plan.
Reads ==
  /\ orch.pc = "idle" /\ orch'.pc = "handle" /\ orch'.ev \in Event
  /\ orch'.job = job /\ orch'.meta = meta /\ orch'.plan = ActivePlan(meta)
  /\ orch'.batch = Unfinished(ActivePlan(meta))
  /\ UNCHANGED <<record, http, requests, planner, history, used>>

\* What the steps of the orchestrator thread do to it.
LEMMA OrchSteps ==
  ASSUME PlanningInv
  PROVE  /\ ReadPlanEvent => Reads /\ IsPlanEvent(orch'.ev)
         /\ ReadFailure => Reads /\ ~IsPlanEvent(orch'.ev)
         /\ RejectPlan => orch'.pc = "report" /\ orch'.ev = orch.ev
         /\ DiscardPlan => orch'.pc = "dispatch" /\ orch'.ev = orch.ev
         /\ StorePlan => orch'.pc = "dispatch" /\ orch'.ev = orch.ev
         /\ HandlePlanFailed => orch'.pc = "ack" /\ orch'.ev = orch.ev
         /\ HandleTaskCompleted => orch.pc = "idle" /\ orch'.pc = "dispatch"
         /\ ReplanAfterFailure => orch'.pc = "request" /\ orch'.ev = orch.ev
         /\ GiveTaskUp => orch'.pc = "ack" /\ orch'.ev = orch.ev
         /\ OrchQueries => orch'.pc \in {"commit", "refresh"} /\ orch'.ev = orch.ev
         /\ OrchDispatches => orch'.pc = "refresh" /\ orch'.ev = orch.ev
         /\ OrchRefreshes => orch'.pc = "idle" /\ orch'.ev = NoEvent
         /\ OrchRequests => orch'.pc = "ack" /\ orch'.ev = orch.ev
         /\ OrchReports => orch'.pc = "ack" /\ orch'.ev = orch.ev
         /\ OrchAcks => orch'.pc = "idle" /\ orch'.ev = NoEvent
         /\ ApiCrash => orch'.pc = "idle" /\ orch'.ev = NoEvent
<1>1. orch \in Threads
  BY InvTypes
<1>2. \A pc : OrchAt(pc) => orch'.pc = pc /\ orch'.ev = orch.ev
  BY <1>1 DEF OrchAt, Threads
<1>3. ASSUME ReadPlanEvent
      PROVE  Reads /\ IsPlanEvent(orch'.ev)
  <2>1. PICK e \in PlanEvent : TakePlanEvent(e) /\ orch' = Read("handle", e)
    BY <1>3 DEF ReadPlanEvent
  <2>2. /\ orch'.ev = e /\ e.type \in {"plan_created", "plan_failed"} /\ e # NoEvent
        /\ e \in Event
    BY <2>1, ReadIs, PlanningAssumption DEF PlanEvent, Event
  <2>3. orch.pc = "idle"
    BY <2>1 DEF TakePlanEvent
  <2> QED
    BY <1>3, <2>1, <2>2, <2>3, ReadIs DEF Reads, IsPlanEvent, ReadPlanEvent
<1>4. ASSUME ReadFailure
      PROVE  Reads /\ ~IsPlanEvent(orch'.ev)
  <2>1. PICK e \in [type : ErrorKind, id : Id] : TakeResult(e) /\ orch' = Read("handle", e)
    BY <1>4 DEF ReadFailure
  <2>2. orch'.ev = e /\ e.type \notin {"plan_created", "plan_failed"} /\ e \in Event
    BY <2>1, ReadIs, EventTyped, PlanningAssumption DEF Result, Event
  <2>3. orch.pc = "idle"
    BY <2>1 DEF TakeResult
  <2> QED
    BY <1>4, <2>1, <2>2, <2>3, ReadIs DEF Reads, IsPlanEvent, ReadFailure
<1>5. HandleTaskCompleted => orch.pc = "idle" /\ orch'.pc = "dispatch"
  BY ThreadIs DEF HandleTaskCompleted, TakeResult
<1>6. OrchQueries => orch'.pc \in {"commit", "refresh"} /\ orch'.ev = orch.ev
  BY ThreadIs DEF OrchQueries
<1> QED
  BY <1>2, <1>3, <1>4, <1>5, <1>6, ThreadIs
  DEF RejectPlan, DiscardPlan, StorePlan, HandlePlanFailed, ReplanAfterFailure, GiveTaskUp,
      OrchDispatches, OrchRefreshes, OrchRequests, OrchReports, OrchAcks, ApiCrash, Idle

\* The places of the request thread.
LEMMA HttpSteps ==
  /\ HttpRequests => http'.pc = "idle"
  /\ HttpQueries => http'.pc \in {"commit", "idle"}
  /\ HttpDispatches => http'.pc = "refresh"
  /\ HttpRefreshes => http'.pc = "idle"
  /\ RecoverJob => http'.pc \in {"idle", "request", "dispatch"}
  /\ ReplanJob => http.pc = "idle" /\ http'.pc = "replan" /\ http'.meta = meta
                  /\ http'.plan = ActivePlan(meta) /\ http'.batch = Unfinished(ActivePlan(meta))
  /\ HttpReplans => http'.pc = "request"
  /\ ContinueJob \/ RetryJob => http'.pc \in {"idle", "dispatch"}
  /\ ApiCrash => http'.pc = "recover"
<1>1. Idle.pc = "idle" /\ Idle.ev = NoEvent
  BY ThreadIs DEF Idle
<1>2. DispatchNext => http'.pc \in {"idle", "dispatch"}
  BY <1>1, ThreadIs DEF DispatchNext
<1>3. /\ HttpRequests => http'.pc = "idle"
      /\ HttpDispatches => http'.pc = "refresh"
      /\ HttpRefreshes => http'.pc = "idle"
  BY <1>1, ThreadIs DEF HttpRequests, HttpDispatches, HttpRefreshes
<1>4. HttpQueries => http'.pc \in {"commit", "idle"}
  BY <1>1, ThreadIs DEF HttpQueries
<1>5. RecoverJob => http'.pc \in {"idle", "request", "dispatch"}
  BY <1>1, ThreadIs DEF RecoverJob
<1>6. ReplanJob => http.pc = "idle" /\ http'.pc = "replan" /\ http'.meta = meta
                  /\ http'.plan = ActivePlan(meta) /\ http'.batch = Unfinished(ActivePlan(meta))
  BY ReadIs DEF ReplanJob
<1>7. /\ HttpReplans => http'.pc = "request"
      /\ ApiCrash => http'.pc = "recover"
  BY ThreadIs DEF HttpReplans, ApiCrash
<1> QED
  BY <1>2, <1>3, <1>4, <1>5, <1>6, <1>7 DEF ContinueJob, RetryJob

\* What changes which plan the job has, or which it waits for.
LEMMA MetaSteps ==
  ASSUME PlanningInv, [Next]_vars
  PROVE  \/ Reads \/ CreatePlan \/ StorePlan
         \/ /\ RejectPlan \/ HandlePlanFailed \/ GiveTaskUp
            /\ WriteBack(orch, orch.meta) /\ UNCHANGED <<plans, granted, http>>
            /\ orch.pc = "handle" /\ orch'.pc # "handle"
         \/ ReplanAfterFailure \/ HttpReplans
         \/ /\ UNCHANGED <<meta, plans, granted>>
            /\ orch' = orch \/ orch'.pc # "handle"
            /\ http' = http \/ http'.pc # "replan" \/ ReplanJob
<1> USE DEF record, streams, history
<1>1. CASE Planner \/ PlannerDrops \/ Requests \/ CancelJob \/ ContinueJob \/ RetryJob \/ ReplanJob
  BY <1>1, HttpSteps DEF Planner, PlannerReads, PlannerAnswers, PlannerDrops, Requests,
     HttpRequests, HttpQueries, HttpDispatches, HttpRefreshes, RecoverJob, CancelJob, ContinueJob,
     RetryJob, ReplanJob
<1>2. CASE ReadPlanEvent \/ ReadFailure
  BY <1>2, OrchSteps
<1>3. CASE RejectPlan \/ HandlePlanFailed \/ GiveTaskUp
  BY <1>3, OrchSteps DEF RejectPlan, HandlePlanFailed, GiveTaskUp, Handles
<1>4. CASE DiscardPlan \/ HandleTaskCompleted \/ OrchQueries \/ OrchDispatches \/ OrchRefreshes
             \/ OrchRequests \/ OrchReports \/ OrchAcks \/ ApiCrash
  BY <1>4, OrchSteps, HttpSteps DEF DiscardPlan, HandleTaskCompleted, OrchQueries,
     OrchDispatches, OrchRefreshes, OrchRequests, OrchReports, OrchAcks, ApiCrash
<1>5. CASE UNCHANGED vars
  BY <1>5 DEF vars
<1> QED
  BY <1>1, <1>2, <1>3, <1>4, <1>5 DEF Next, Orchestrator, Requests, User

\* Every step keeps the count of plans and of replans granted.
LEMMA CountStep ==
  ASSUME PlanningInv, [Next]_vars
  PROVE  PlansCounted' /\ ActiveStored'
<1> USE DEF record, history
<1>1. /\ plans \in Nat /\ granted \in Nat /\ meta \in Meta /\ meta.active \in Nat
      /\ orch.meta \in Meta /\ orch.meta.active \in Nat /\ orch.plan \in Nat
      /\ http.meta \in Meta /\ http.meta.active \in Nat
      /\ PlansCounted /\ ActiveStored
  BY InvTypes DEF PlanningInv
<1>2. ASSUME UNCHANGED <<meta, plans, granted>>, orch' = orch \/ orch'.pc # "handle",
             http' = http \/ http'.pc # "replan" \/ ReplanJob
      PROVE  PlansCounted' /\ ActiveStored'
  <2>1. PlansCounted'
    BY <1>1, <1>2 DEF PlansCounted
  <2>2. ReplanJob => http'.meta.active <= plans
    BY <1>1, HttpSteps DEF ActiveStored
  <2> QED
    BY <1>1, <1>2, <2>1, <2>2 DEF ActiveStored
<1>3. ASSUME NEW x \in {orch, http}, NEW s \in Strategy, RequestReplan(x, s),
             x.meta.active <= plans,
             orch' = orch \/ orch'.pc # "handle", http' = http \/ http'.pc # "replan"
      PROVE  PlansCounted' /\ ActiveStored'
  <2>1. plans' = plans /\ granted' = granted + 1 /\ meta'.active = x.meta.active
    BY <1>1, <1>3 DEF RequestReplan, Meta
  <2>2. PlansCounted'
    BY <1>1, <1>3, <2>1 DEF PlansCounted
  <2>3. ActiveStored'
    BY <1>1, <1>3, <2>1 DEF ActiveStored
  <2> QED
    BY <2>2, <2>3
<1>4. CASE Reads
  <2>1. ActivePlan(meta) <= plans /\ (ActivePlan(meta) = 0 => plans = 0)
    BY <1>1 DEF ActivePlan, ActiveStored
  <2>2. PlansCounted'
    BY <1>1, <1>4, <2>1 DEF Reads, PlansCounted
  <2>3. ActiveStored'
    BY <1>1, <1>4, <2>1 DEF Reads, ActiveStored
  <2> QED
    BY <2>2, <2>3
<1>5. CASE /\ WriteBack(orch, orch.meta) /\ UNCHANGED <<plans, granted, http>>
           /\ orch.pc = "handle" /\ orch'.pc # "handle"
  <2>1. meta' = orch.meta
    BY <1>5 DEF WriteBack
  <2> QED
    BY <1>1, <1>5, <2>1 DEF PlansCounted, ActiveStored
<1>6. CASE StorePlan
  <2>1. /\ plans' = plans + 1 /\ granted' = granted /\ orch'.pc = "dispatch" /\ http' = http
        /\ meta'.pending = "none" /\ meta'.active = plans + 1 /\ orch.pc = "handle"
    BY <1>1, <1>6, OrchSteps DEF StorePlan, Meta, Handles, streams
  <2>2. orch.plan = 0 \/ orch.meta.pending # "none"
    BY <1>6 DEF StorePlan, IsWanted
  <2>3. plans <= granted
    BY <1>1, <2>1, <2>2 DEF PlansCounted
  <2>4. PlansCounted'
    BY <1>1, <2>1, <2>3 DEF PlansCounted
  <2> QED
    BY <1>1, <2>1, <2>4 DEF ActiveStored
<1>7. CASE ReplanAfterFailure
  <2>1. PICK s \in Strategy : RequestReplan(orch, s)
    BY <1>7 DEF ReplanAfterFailure, Strategy, Suffix
  <2>2. orch.pc = "handle" /\ http' = http
    BY <1>7 DEF ReplanAfterFailure, Handles
  <2> QED
    BY <1>1, <1>3, <1>7, <2>1, <2>2, OrchSteps DEF ActiveStored
<1>8. CASE HttpReplans
  <2>1. RequestReplan(http, "full_replan") /\ orch' = orch /\ http.pc = "replan"
    BY <1>8 DEF HttpReplans
  <2> QED
    BY <1>1, <1>3, <1>8, <2>1, HttpSteps DEF ActiveStored, Strategy
<1>9. CASE CreatePlan
  <2>1. /\ plans' = plans + 1 /\ granted' = granted + 1 /\ orch' = orch
        /\ meta'.pending = "none" /\ meta'.active = plans + 1
        /\ http' = http \/ http'.pc = "idle"
    BY <1>1, <1>9 DEF CreatePlan, Meta
  <2>2. PlansCounted'
    BY <1>1, <2>1 DEF PlansCounted
  <2> QED
    BY <1>1, <2>1, <2>2 DEF ActiveStored
<1> QED
  BY <1>2, <1>4, <1>5, <1>6, <1>7, <1>8, <1>9, MetaSteps

\* Every step handles an event it has taken.
LEMMA InHandStep ==
  ASSUME PlanningInv, [Next]_vars
  PROVE  InHand'
<1>1. Reads \/ orch' = orch \/ orch'.pc # "handle"
  <2>1. CASE CreatePlan \/ HttpReplans
    BY <2>1 DEF CreatePlan, HttpReplans
  <2>2. CASE StorePlan \/ ReplanAfterFailure
    BY <2>2, OrchSteps
  <2> QED
    BY <2>1, <2>2, MetaSteps
<1> QED
  BY <1>1 DEF Reads, InHand, PlanningInv

\* Sent is coming, and what is lost is noted.
LEMMA EmitComes ==
  ASSUME PlanningInv, NEW lost \in BOOLEAN, Emit(lost)
  PROVE  requests' > 0 \/ dropped'
<1>1. requests \in Nat
  BY InvTypes
<1>2. CASE lost
  BY <1>2 DEF Emit
<1>3. CASE ~lost
  <2>1. requests' = requests + 1
    BY <1>3, Zenon DEF Emit
  <2> QED
    BY <1>1, <2>1
<1> QED
  BY <1>2, <1>3

\* A result is no answer of the planner.
LEMMA ResultsAreNoPlans ==
  ASSUME NEW e, e.type \in Result, TakeResult(e)
  PROVE  (\E x \in redo : IsPlanEvent(x)) => \E x \in redo' : IsPlanEvent(x)
BY DEF TakeResult, IsPlanEvent, Result

\* The result that is taken when one is.
LEMMA ResultTaken ==
  ASSUME HandleTaskCompleted \/ ReadFailure
  PROVE  \E e : e.type \in Result /\ TakeResult(e)
<1>1. CASE HandleTaskCompleted
  <2>1. PICK e \in [type : {"completed"}, id : Id] : TakeResult(e)
    BY <1>1, Zenon DEF HandleTaskCompleted
  <2>2. e.type \in Result
    BY <2>1 DEF Result
  <2> QED
    BY <2>1, <2>2
<1>2. CASE ReadFailure
  <2>1. PICK e \in [type : ErrorKind, id : Id] : TakeResult(e)
    BY <1>2, Zenon DEF ReadFailure
  <2>2. e.type \in Result
    BY <2>1, PlanningAssumption
  <2> QED
    BY <2>1, <2>2
<1> QED
  BY <1>1, <1>2

\* Every step keeps what there is for a job that waits.
LEMMA RememberedStep ==
  ASSUME PlanningInv, [Next]_vars
  PROVE  Remembered'
<1> USE DEF record, streams, history
<1>1. /\ plans \in Nat /\ meta \in Meta /\ meta.active \in Nat /\ orch.meta \in Meta
      /\ orch.meta.active \in Nat /\ requests \in Nat /\ PlansCounted /\ ActiveStored
      /\ Remembered /\ planStream \in Seq(PlanEvent)
  BY InvTypes DEF PlanningInv, TypeOK
<1>2. ASSUME meta' = meta, plans' = plans, orch' = orch \/ orch'.pc # "handle",
             orch.pc = "handle" => orch' = orch,
             http'.pc = "recover" => http' = http,
             Coming \/ dropped => Coming' \/ dropped'
      PROVE  Remembered'
  <2>1. ActivePlan(meta)' = ActivePlan(meta)
    BY <1>2 DEF ActivePlan
  <2> QED
    BY <1>1, <1>2, <2>1 DEF Remembered, Waits
<1>3. ASSUME Coming' \/ dropped', http'.pc # "recover" \/ orch'.pc # "handle"
      PROVE  Remembered'
  BY <1>3 DEF Remembered
<1>4. ASSUME Coming' \/ dropped', meta' = meta, plans' = plans, orch' = orch, http' = http
      PROVE  Remembered'
  <2>1. ActivePlan(meta)' = ActivePlan(meta)
    BY <1>4 DEF ActivePlan
  <2> QED
    BY <1>1, <1>4, <2>1 DEF Remembered
<1>5. CASE Planner
  <2>1. planner' \/ planStream' # <<>>
    BY <1>1, <1>5, EventTyped, AppendTyped DEF Planner, PlannerReads, PlannerAnswers, PlanningInv
  <2>2. meta' = meta /\ plans' = plans /\ orch' = orch /\ http' = http
    BY <1>5 DEF Planner, PlannerReads, PlannerAnswers
  <2> QED
    BY <1>4, <2>1, <2>2 DEF Coming
<1>6. CASE PlannerDrops
  BY <1>4, <1>6 DEF PlannerDrops
<1>7. ASSUME Reads, IsPlanEvent(orch'.ev) \/ ~Waits \/ Coming' \/ dropped',
             ~IsPlanEvent(orch'.ev) /\ meta.pending # "none" => Coming' \/ dropped'
      PROVE  Remembered'
  <2>1. /\ orch'.pc = "handle" /\ orch'.meta = meta /\ orch'.plan = ActivePlan(meta)
        /\ meta' = meta /\ plans' = plans
    BY <1>7 DEF Reads
  <2>2. ActivePlan(meta)' = ActivePlan(meta)
    BY <2>1 DEF ActivePlan
  <2>3. Waits' /\ meta.pending = "none" => ActivePlan(meta) = 0
    BY <1>1, <2>1 DEF Waits, ActivePlan, ActiveStored
  <2>4. Waits' = Waits
    BY <2>1 DEF Waits
  <2> QED
    BY <1>7, <2>1, <2>2, <2>3, <2>4 DEF Remembered
<1>8. CASE ReadPlanEvent
  BY <1>7, <1>8, OrchSteps
<1>9. CASE ReadFailure
  <2>1. PICK e : e.type \in Result /\ TakeResult(e)
    BY <1>9, ResultTaken
  <2>2. /\ Reads /\ ~IsPlanEvent(orch'.ev) /\ planStream' = planStream
    BY <1>9, OrchSteps DEF ReadFailure
  <2>3. Coming \/ dropped => Coming' \/ dropped'
    BY <2>1, <2>2, ResultsAreNoPlans DEF Coming, Reads
  <2>4. Waits => Coming \/ dropped
    BY <1>1, <2>2 DEF Remembered, Reads
  <2> QED
    BY <1>7, <2>2, <2>3, <2>4 DEF Waits
<1>10. CASE RejectPlan \/ HandlePlanFailed
  <2>1. dropped' /\ orch'.pc # "handle"
    BY <1>10, OrchSteps DEF RejectPlan, HandlePlanFailed
  <2> QED
    BY <1>3, <2>1
<1>11. CASE DiscardPlan
  <2>1. /\ meta' = meta /\ plans' = plans /\ dropped' = dropped /\ orch'.pc = "dispatch"
        /\ orch.pc = "handle" /\ orch.meta.pending = "none" /\ orch.plan # 0
    BY <1>11, OrchSteps DEF DiscardPlan, Handles
  <2>2. Coming => Coming'
    BY <1>11, <2>1 DEF DiscardPlan, Coming
  <2> QED
    BY <1>1, <2>1, <2>2 DEF Remembered, Waits
<1>12. CASE StorePlan \/ CreatePlan
  <2>1. meta'.pending = "none" /\ plans' = plans + 1
    BY <1>1, <1>12 DEF StorePlan, CreatePlan, Meta
  <2>2. ~Waits'
    BY <1>1, <2>1 DEF Waits
  <2>3. CASE StorePlan
    BY <2>2, <2>3, OrchSteps DEF Remembered
  <2>4. CASE CreatePlan
    <3>1. orch' = orch /\ http' = http /\ http.pc = "idle"
      BY <2>4 DEF CreatePlan
    <3>2. planStream' # <<>>
      BY <2>4, EventTyped, AppendTyped DEF CreatePlan, PlanningInv
    <3> QED
      BY <1>3, <3>1, <3>2 DEF Coming
  <2> QED
    BY <1>12, <2>3, <2>4
<1>13. CASE HandleTaskCompleted
  <2>1. PICK e : e.type \in Result /\ TakeResult(e)
    BY <1>13, ResultTaken
  <2>2. /\ meta' = meta /\ plans' = plans /\ dropped' = dropped /\ orch.pc = "idle"
        /\ orch'.pc = "dispatch" /\ http' = http /\ planStream' = planStream
        /\ requests' = requests /\ planner' = planner
    BY <1>13, OrchSteps DEF HandleTaskCompleted
  <2>3. Coming => Coming'
    BY <2>1, <2>2, ResultsAreNoPlans DEF Coming
  <2> QED
    BY <1>2, <2>2, <2>3
<1>14. CASE GiveTaskUp
  <2>1. /\ meta' = orch.meta /\ plans' = plans /\ dropped' = dropped /\ orch'.pc = "ack"
        /\ orch.pc = "handle" /\ ~IsPlanEvent(orch.ev)
    BY <1>14, OrchSteps, PlanningAssumption
    DEF GiveTaskUp, WriteBack, Handles, IsPlanEvent, Result
  <2>2. Coming => Coming'
    BY <1>14, <2>1 DEF GiveTaskUp, Coming
  <2>3. Waits' => Coming \/ dropped
    BY <1>1, <2>1 DEF Remembered, Waits
  <2> QED
    BY <2>1, <2>2, <2>3 DEF Remembered
<1>15. CASE ReplanAfterFailure
  BY <1>3, <1>15, OrchSteps DEF Coming
<1>16. CASE OrchQueries \/ OrchDispatches \/ OrchRefreshes \/ OrchAcks
  <2>1. /\ meta' = meta /\ plans' = plans /\ dropped' = dropped /\ http' = http
        /\ orch.pc \in {"dispatch", "commit", "refresh", "ack"} /\ orch'.pc # "handle"
    BY <1>16, OrchSteps DEF OrchQueries, OrchDispatches, OrchRefreshes, OrchAcks
  <2>2. Coming => Coming'
    BY <1>16, <2>1 DEF OrchQueries, OrchDispatches, OrchRefreshes, OrchAcks, Coming
  <2> QED
    BY <1>2, <2>1, <2>2
<1>17. CASE OrchRequests
  <2>1. requests' > 0 \/ dropped'
    BY <1>17, EmitComes DEF OrchRequests
  <2> QED
    BY <1>3, <1>17, <2>1, OrchSteps DEF Coming
<1>18. CASE OrchReports
  <2>1. planStream' # <<>>
    BY <1>18, EventTyped, AppendTyped DEF OrchReports, PlanningInv
  <2> QED
    BY <1>3, <1>18, <2>1, OrchSteps DEF Coming
<1>19. CASE HttpRequests
  <2>1. requests' > 0 \/ dropped'
    BY <1>19, EmitComes DEF HttpRequests
  <2> QED
    BY <1>3, <1>19, <2>1, HttpSteps DEF Coming
<1>20. CASE HttpQueries \/ HttpDispatches \/ HttpRefreshes
  <2>1. /\ meta' = meta /\ plans' = plans /\ dropped' = dropped /\ orch' = orch
        /\ http.pc \in {"dispatch", "commit", "refresh"} /\ http'.pc # "recover"
    BY <1>20, HttpSteps DEF HttpQueries, HttpDispatches, HttpRefreshes
  <2>2. Coming => Coming'
    BY <1>20, <2>1 DEF HttpQueries, HttpDispatches, HttpRefreshes, Coming
  <2> QED
    BY <1>2, <2>1, <2>2
<1>21. CASE RecoverJob
  <2>1. /\ meta' = meta /\ plans' = plans /\ orch' = orch /\ http.pc = "recover"
        /\ http'.pc # "recover"
        /\ \/ dropped'
           \/ http'.pc = "request"
           \/ meta.pending = "none" /\ ActivePlan(meta) # 0
    BY <1>21, HttpSteps, ThreadIs DEF RecoverJob
  <2>2. CASE dropped' \/ http'.pc = "request"
    BY <1>3, <2>1, <2>2 DEF Coming
  <2>3. CASE meta.pending = "none" /\ ActivePlan(meta) # 0
    <3>1. ~Waits'
      BY <1>1, <2>1, <2>3 DEF Waits, ActivePlan, ActiveStored
    <3>2. orch.pc = "handle" => orch.meta.pending = "none"
      BY <1>1, <2>1, <2>3 DEF Remembered
    <3> QED
      BY <2>1, <3>1, <3>2 DEF Remembered
  <2> QED
    BY <2>1, <2>2, <2>3
<1>22. CASE HttpReplans \/ ApiCrash
  BY <1>3, <1>22, HttpSteps, OrchSteps DEF Coming
<1>23. CASE ReplanJob \/ CancelJob \/ ContinueJob \/ RetryJob
  <2>1. /\ meta' = meta /\ plans' = plans /\ dropped' = dropped /\ orch' = orch
        /\ http.pc = "idle" /\ http'.pc # "recover"
    BY <1>23, HttpSteps DEF ReplanJob, CancelJob, ContinueJob, RetryJob
  <2>2. Coming => Coming'
    BY <1>23, <2>1 DEF ReplanJob, CancelJob, ContinueJob, RetryJob, Coming
  <2> QED
    BY <1>2, <2>1, <2>2
<1>24. CASE UNCHANGED vars
  BY <1>2, <1>24 DEF vars, Coming
<1> QED
  BY <1>5, <1>6, <1>8, <1>9, <1>10, <1>11, <1>12, <1>13, <1>14, <1>15, <1>16, <1>17, <1>18,
     <1>19, <1>20, <1>21, <1>22, <1>23, <1>24
  DEF Next, Orchestrator, Requests, User

\* The invariant holds at first,
LEMMA InvInit == Init => PlanningInv
<1> SUFFICES ASSUME Init
             PROVE  PlanningInv
  OBVIOUS
<1>1. 0 \in 0..MaxPlans /\ NoEvent \in Event \cup {NoEvent}
  BY PlanningAssumption
<1>2. meta \in Meta /\ meta.pending = "none" /\ meta.active = 0
  BY <1>1 DEF Init, Meta
<1>3. rows \in [Id -> RowType]
  BY <1>1 DEF Init, NoRow, RowType, TaskStatus
<1>4. orch \in Threads /\ http \in Threads
  BY <1>1, ThreadTyped, IdleTyped DEF Init, PcType
<1>5. planStream \in Seq(PlanEvent) /\ planStream = <<>>
  BY DEF Init
<1>6. exec \in [Id -> Nat] /\ handed \in [Id -> Nat] /\ overtaken = {} /\ job \in JobStatus
  BY DEF Init, JobStatus
<1>7. used \in Faults \cup {[k \in Disturbance |-> 0]}
  BY DEF Init
<1>8. plans = 0 /\ granted = 0 /\ requests = 0 /\ planner = FALSE /\ redo = {} /\ dropped = FALSE
  BY DEF Init
<1>9. TypeOK
  BY <1>1, <1>2, <1>3, <1>4, <1>5, <1>6, <1>7, <1>8 DEF TypeOK, RowType
<1>10. http.pc = "request" /\ orch.pc = "idle"
  BY DEF Init, Thread, Idle
<1>11. PlansCounted /\ ActiveStored /\ Remembered /\ InHand
  BY <1>2, <1>8, <1>10 DEF PlansCounted, ActiveStored, Remembered, Coming, InHand
<1> QED
  BY <1>9, <1>11 DEF PlanningInv

\* and every step keeps it.
LEMMA InvStep == PlanningInv /\ [Next]_vars => PlanningInv'
<1> SUFFICES ASSUME PlanningInv, [Next]_vars
             PROVE  PlanningInv'
  OBVIOUS
<1>1. TypeOK'
  BY TypeStep DEF PlanningInv
<1> QED
  BY <1>1, CountStep, RememberedStep, InHandStep DEF PlanningInv

\* The invariant.
LEMMA Invariant == Spec => []PlanningInv
BY InvInit, InvStep, PTL DEF Spec

-----------------------------------------------------------------------------
(* The theorems.                                                           *)

\* Every variable keeps its type.
THEOREM PlanningTypeCorrect == Spec => []TypeOK
<1>1. PlanningInv => TypeOK
  BY DEF PlanningInv
<1> QED
  BY <1>1, Invariant, PTL

\* A job is planned only as often as plans were asked for.
THEOREM PlansRequested == Spec => []PlansAreRequested
<1>1. PlanningInv => PlansAreRequested
  BY DEF PlanningInv, PlansCounted, PlansAreRequested
<1> QED
  BY <1>1, Invariant, PTL

\* A job that waits for a plan is never forgotten.
THEOREM RequestRemembered == Spec => []NoRequestForgotten
<1>1. PlanningInv => NoRequestForgotten
  <2> SUFFICES ASSUME PlanningInv, Awaiting, ~dropped
               PROVE  UnderWay
    BY DEF NoRequestForgotten
  <2>1. Waits
    BY DEF Awaiting, Waits
  <2>2. Coming \/ (orch.pc = "handle" /\ IsPlanEvent(orch.ev))
    BY <2>1 DEF PlanningInv, Remembered
  <2> QED
    BY <2>2 DEF Coming, UnderWay
<1> QED
  BY <1>1, Invariant, PTL

-----------------------------------------------------------------------------
(* What steps do to the rows.                                              *)

\* A disturbance is counted.
LEMMA DisturbCounts ==
  ASSUME TypeOK
  PROVE  /\ \A k \in Disturbance : used[k] \in Nat
         /\ \A k \in Disturbance : Disturb(k) =>
              /\ used'[k] > used[k] /\ used'[k] > 0
              /\ \A i \in Disturbance : used[i] <= used'[i]
<1>1. used \in [Disturbance -> Nat]
  <2>1. used \in Faults \cup {[k \in Disturbance |-> 0]}
    BY DEF TypeOK
  <2> QED
    BY <2>1, PlanningAssumption
<1> QED
  BY <1>1 DEF Disturb

\* Each step disturbs once at most, and says so.
LEMMA UsedGrows ==
  ASSUME TypeOK, [Next]_vars
  PROVE  /\ \A k \in Disturbance : used[k] \in Nat /\ used'[k] \in Nat /\ used[k] <= used'[k]
         /\ RetryJob => used'["request"] > used["request"]
         /\ CreatePlan => used'["submit"] > used["submit"]
<1>1. \/ used' = used
      \/ \E k \in Disturbance : Disturb(k)
  <2>1. ASSUME Planner \/ Orchestrator \/ Requests
        PROVE  used' = used \/ Disturb("lost")
    <3>1. \A lost \in BOOLEAN : Emit(lost) => used' = used \/ Disturb("lost")
      BY DEF Emit
    <3> QED
      BY <2>1, <3>1 DEF Planner, Orchestrator, Requests, PlannerReads, PlannerAnswers,
        ReadPlanEvent, ReadFailure, RejectPlan, DiscardPlan, StorePlan, HandlePlanFailed,
        HandleTaskCompleted, ReplanAfterFailure, GiveTaskUp, OrchQueries, OrchDispatches,
        OrchRefreshes, OrchRequests, OrchReports, OrchAcks, HttpRequests, HttpQueries,
        HttpDispatches, HttpRefreshes, HttpReplans, RecoverJob
  <2>2. ASSUME User \/ PlannerDrops \/ ApiCrash
        PROVE  \E k \in Disturbance : Disturb(k)
    BY <2>2 DEF User, ReplanJob, CancelJob, ContinueJob, RetryJob, CreatePlan, PlannerDrops,
                ApiCrash, Disturbance
  <2>3. "lost" \in Disturbance
    BY DEF Disturbance
  <2> QED
    BY <2>1, <2>2, <2>3 DEF Next, vars
<1>2. {"request", "submit"} \subseteq Disturbance
  BY DEF Disturbance
<1>3. \A k \in Disturbance : used[k] \in Nat /\ used[k] <= used'[k]
  BY <1>1, DisturbCounts
<1>4. \A k \in Disturbance : used'[k] \in Nat
  BY TypeStep, DisturbCounts, <1>1, PlanningAssumption DEF TypeOK
<1> QED
  BY <1>2, <1>3, <1>4, DisturbCounts DEF RetryJob, CreatePlan

\* Nothing is read of the job to be written back later.
NoReading ==
  /\ orch' = orch \/ orch'.pc # "handle"
  /\ http' = http \/ http'.pc # "replan"

\* What steps do to the rows, and to what is read of the job.
LEMMA RowSteps ==
  ASSUME PlanningInv, [Next]_vars
  PROVE  \/ UNCHANGED <<rows, meta, plans, overtaken>> /\ NoReading
         \/ UNCHANGED <<rows, meta, plans, overtaken, http>> /\ Reads
         \/ UNCHANGED <<rows, meta, plans, overtaken, orch>> /\ ReplanJob
         \/ /\ WriteBack(orch, orch.meta) /\ orch.pc = "handle" /\ NoReading
            /\ UNCHANGED plans
            /\ rows' = rows \/ GiveTaskUp
         \/ HandleTaskCompleted /\ UNCHANGED <<meta, plans, overtaken>> /\ NoReading
         \/ StorePlan /\ NoReading
         \/ (RetryJob \/ CreatePlan) /\ NoReading
         \/ \E s \in Strategy : RequestReplan(orch, s) /\ orch.pc = "handle" /\ NoReading
         \/ \E s \in Strategy : RequestReplan(http, s) /\ http.pc = "replan" /\ NoReading
         \/ \E ids : DispatchRows(ids) /\ UNCHANGED <<meta, plans>> /\ NoReading
<1> USE DEF record, streams, history
<1>1. CASE Planner \/ PlannerDrops \/ HttpRequests \/ HttpQueries \/ HttpRefreshes \/ RecoverJob
             \/ CancelJob \/ ContinueJob
  BY <1>1, HttpSteps DEF Planner, PlannerReads, PlannerAnswers, PlannerDrops, HttpRequests,
     HttpQueries, HttpRefreshes, RecoverJob, CancelJob, ContinueJob, NoReading
<1>2. CASE ReadPlanEvent \/ ReadFailure
  BY <1>2, OrchSteps DEF ReadPlanEvent, ReadFailure
<1>3. CASE DiscardPlan \/ OrchQueries \/ OrchRefreshes \/ OrchRequests \/ OrchReports
             \/ OrchAcks \/ ApiCrash
  BY <1>3, OrchSteps, HttpSteps DEF DiscardPlan, OrchQueries, OrchRefreshes, OrchRequests,
     OrchReports, OrchAcks, ApiCrash, NoReading
<1>4. CASE RejectPlan \/ HandlePlanFailed \/ GiveTaskUp
  BY <1>4, OrchSteps DEF RejectPlan, HandlePlanFailed, GiveTaskUp, Handles, NoReading
<1>5. CASE HandleTaskCompleted
  BY <1>5, OrchSteps DEF HandleTaskCompleted, NoReading
<1>6. CASE StorePlan
  BY <1>6, OrchSteps DEF StorePlan, NoReading
<1>7. CASE ReplanAfterFailure
  <2>1. \E s \in Strategy : RequestReplan(orch, s)
    BY <1>7 DEF ReplanAfterFailure, Strategy, Suffix
  <2>2. orch.pc = "handle" /\ NoReading
    BY <1>7, OrchSteps DEF ReplanAfterFailure, Handles, NoReading
  <2> QED
    BY <2>1, <2>2
<1>8. CASE HttpReplans
  BY <1>8, HttpSteps DEF HttpReplans, Strategy, NoReading
<1>9. CASE ReplanJob
  BY <1>9 DEF ReplanJob
<1>10. CASE RetryJob \/ CreatePlan
  BY <1>10, HttpSteps DEF RetryJob, CreatePlan, NoReading
<1>11. CASE OrchDispatches \/ HttpDispatches
  <2>1. \E ids : DispatchRows(ids)
    BY <1>11 DEF OrchDispatches, HttpDispatches
  <2>2. UNCHANGED <<meta, plans>> /\ NoReading
    BY <1>11, OrchSteps, HttpSteps DEF OrchDispatches, HttpDispatches, NoReading
  <2> QED
    BY <2>1, <2>2
<1>12. CASE UNCHANGED vars
  BY <1>12 DEF vars, NoReading
<1> QED
  BY <1>1, <1>2, <1>3, <1>4, <1>5, <1>6, <1>7, <1>8, <1>9, <1>10, <1>11, <1>12
  DEF Next, Orchestrator, Requests, User

\* A result that is handled changes its own row only.
LEMMA ResultRows ==
  ASSUME PlanningInv
  PROVE  /\ HandleTaskCompleted =>
              \E e \in TaskEvent :
                /\ e.id \in Id /\ e.type = "completed" /\ TakeResult(e) /\ orch'.ev = e
                /\ rows' = [rows EXCEPT ![e.id].status = "completed"]
         /\ ReadFailure =>
              \E e \in TaskEvent :
                /\ e.id \in Id /\ e.type # "completed" /\ TakeResult(e) /\ orch'.ev = e
         /\ GiveTaskUp =>
              /\ orch.ev \in TaskEvent /\ orch.ev.id \in Id /\ orch.ev.type # "completed"
              /\ rows' = [rows EXCEPT ![orch.ev.id].status = "failed"]
<1>1. ASSUME HandleTaskCompleted
      PROVE  \E e \in TaskEvent :
                /\ e.id \in Id /\ e.type = "completed" /\ TakeResult(e) /\ orch'.ev = e
                /\ rows' = [rows EXCEPT ![e.id].status = "completed"]
  <2>1. PICK e \in [type : {"completed"}, id : Id] :
          /\ TakeResult(e)
          /\ rows' = [rows EXCEPT ![e.id].status = "completed"]
          /\ orch' = Thread("dispatch", e, rows[e.id].plan)
    BY <1>1 DEF HandleTaskCompleted
  <2>2. e \in TaskEvent /\ e.id \in Id /\ e.type = "completed" /\ orch'.ev = e
    BY <2>1, EventTyped, ThreadIs
  <2> QED
    BY <2>1, <2>2
<1>2. ASSUME ReadFailure
      PROVE  \E e \in TaskEvent :
                /\ e.id \in Id /\ e.type # "completed" /\ TakeResult(e) /\ orch'.ev = e
  <2>1. PICK e \in [type : ErrorKind, id : Id] : TakeResult(e) /\ orch' = Read("handle", e)
    BY <1>2 DEF ReadFailure
  <2>2. e \in TaskEvent /\ e.id \in Id /\ e.type # "completed" /\ orch'.ev = e
    BY <2>1, EventTyped, ReadIs, PlanningAssumption
  <2> QED
    BY <2>1, <2>2
<1>3. ASSUME GiveTaskUp
      PROVE  /\ orch.ev \in TaskEvent /\ orch.ev.id \in Id /\ orch.ev.type # "completed"
             /\ rows' = [rows EXCEPT ![orch.ev.id].status = "failed"]
  <2>1. orch.pc = "handle" /\ orch.ev.type \in ErrorKind
    BY <1>3 DEF GiveTaskUp, Handles
  <2>2. orch.ev \in TaskEvent
    BY <2>1, PlanningAssumption DEF PlanningInv, InHand, Event, PlanEvent, Result
  <2> QED
    BY <1>3, <2>1, <2>2, PlanningAssumption DEF GiveTaskUp, TaskEvent
<1> QED
  BY <1>1, <1>2, <1>3

-----------------------------------------------------------------------------
(* Whose tasks wait.                                                       *)

\* A task waits to be executed, and nobody has written over it from an outdated reading.
Waiting(id) ==
  rows[id].plan # 0 /\ rows[id].status \in {"pending", "ready"} /\ id \notin overtaken

\* Every row belongs to a plan.  Unless a user has overridden it, only tasks of the active plan
\* wait, none of them while a replan is pending; what was read of a plan to be written back
\* names all of its tasks that wait, and says that there are none if a replan was pending.
Handover ==
  /\ \A id \in Id : rows[id].plan \in 0..plans
  /\ http.pc = "replan" => http.plan <= plans
  /\ ~UserOverrode => \A id \in Id : Waiting(id) =>
       /\ rows[id].plan = ActivePlan(meta) /\ meta.pending = "none"
       /\ orch.pc = "handle" /\ rows[id].plan = orch.plan =>
            orch.meta.pending = "none" /\ id \in orch.batch
       /\ http.pc = "replan" /\ rows[id].plan = http.plan => id \in http.batch

\* What waits is of the active plan or was waiting before, and nothing is read of the job: then
\* a step keeps all of that.
LEMMA HandoverKept ==
  ASSUME PlanningInv, Handover, [Next]_vars, NoReading,
         plans' >= plans, plans' \in Nat, \A id \in Id : rows'[id].plan \in 0..plans',
         ~UserOverrode => \A id \in Id : Waiting(id)' =>
           /\ rows'[id].plan = ActivePlan(meta)' /\ meta'.pending = "none"
           /\ rows'[id].plan = plans + 1 \/ (Waiting(id) /\ rows'[id].plan = rows[id].plan)
  PROVE  Handover'
<1>1. /\ plans \in Nat /\ orch.plan \in Nat /\ http.plan \in Nat
      /\ orch.pc = "handle" => orch.plan <= plans
  BY InvTypes, PlanningAssumption DEF PlanningInv, TypeOK, Threads, ActiveStored
<1>2. ~UserOverrode' => ~UserOverrode
  BY UsedGrows DEF UserOverrode, Disturbance, PlanningInv
<1>3. http'.pc = "replan" => http' = http /\ http.plan <= plans
  BY DEF NoReading, Handover
<1>4. ASSUME ~UserOverrode', NEW id \in Id, Waiting(id)'
      PROVE  /\ rows'[id].plan = ActivePlan(meta)' /\ meta'.pending = "none"
             /\ orch'.pc = "handle" /\ rows'[id].plan = orch'.plan =>
                  orch'.meta.pending = "none" /\ id \in orch'.batch
             /\ http'.pc = "replan" /\ rows'[id].plan = http'.plan => id \in http'.batch
  <2>1. CASE rows'[id].plan = plans + 1
    BY <1>1, <1>2, <1>3, <1>4, <2>1 DEF NoReading
  <2>2. CASE Waiting(id) /\ rows'[id].plan = rows[id].plan
    <3>1. /\ orch.pc = "handle" /\ rows[id].plan = orch.plan =>
               orch.meta.pending = "none" /\ id \in orch.batch
          /\ http.pc = "replan" /\ rows[id].plan = http.plan => id \in http.batch
      BY <1>2, <1>4, <2>2 DEF Handover
    <3> QED
      BY <1>2, <1>4, <2>2, <3>1 DEF NoReading
  <2> QED
    BY <1>2, <1>4, <2>1, <2>2
<1>5. http'.pc = "replan" => http'.plan <= plans'
  BY <1>1, <1>3
<1>6. ~UserOverrode' => \A id \in Id : Waiting(id)' =>
        /\ rows'[id].plan = ActivePlan(meta)' /\ meta'.pending = "none"
        /\ orch'.pc = "handle" /\ rows'[id].plan = orch'.plan =>
             orch'.meta.pending = "none" /\ id \in orch'.batch
        /\ http'.pc = "replan" /\ rows'[id].plan = http'.plan => id \in http'.batch
  BY <1>4
<1> QED
  BY <1>5, <1>6 DEF Handover

\* A step that leaves the plans alone keeps it if it lets nothing wait that did not.
LEMMA HandoverRests ==
  ASSUME PlanningInv, Handover, [Next]_vars, NoReading, UNCHANGED <<meta, plans>>,
         \A id \in Id : rows'[id].plan = rows[id].plan /\ (Waiting(id)' => Waiting(id))
  PROVE  Handover'
<1>1. plans \in Nat /\ ActivePlan(meta)' = ActivePlan(meta)
  BY InvTypes DEF ActivePlan
<1>2. \A id \in Id : rows'[id].plan \in 0..plans'
  BY DEF Handover
<1>3. ~UserOverrode => \A id \in Id : Waiting(id)' =>
        /\ rows'[id].plan = ActivePlan(meta)' /\ meta'.pending = "none"
        /\ rows'[id].plan = plans + 1 \/ (Waiting(id) /\ rows'[id].plan = rows[id].plan)
  BY <1>1 DEF Handover
<1> QED
  BY <1>1, <1>2, <1>3, HandoverKept

\* A request for another plan leaves nothing waiting of the plan it replaces.
LEMMA ReplanHandsOver ==
  ASSUME PlanningInv, Handover, [Next]_vars, NoReading, NEW x, NEW s \in Strategy,
         RequestReplan(x, s),
         (x = orch /\ orch.pc = "handle") \/ (x = http /\ http.pc = "replan")
  PROVE  Handover'
<1>1. rows \in [Id -> RowType] /\ plans \in Nat /\ plans' = plans
  BY InvTypes DEF RequestReplan, PlanningInv, TypeOK, RowType
<1>2. \A id \in Id : /\ rows'[id].plan = rows[id].plan
                     /\ id \in x.batch => rows'[id].status = "canceled"
                     /\ id \notin x.batch => rows'[id] = rows[id]
  BY <1>1 DEF RequestReplan, Superseded, Canceled, RowType
<1>3. overtaken \subseteq overtaken' /\ Displaced(x.plan) \subseteq overtaken'
  BY DEF RequestReplan
<1>4. ASSUME ~UserOverrode, NEW id \in Id, Waiting(id)'
      PROVE  FALSE
  <2>1. /\ id \notin x.batch /\ rows'[id] = rows[id] /\ id \notin overtaken'
    BY <1>2, <1>4 DEF Waiting
  <2>2. Waiting(id) /\ rows[id].plan # 0
    BY <1>3, <1>4, <2>1 DEF Waiting
  <2>3. rows[id].plan = ActivePlan(meta) /\ rows[id].plan # x.plan
    BY <1>4, <2>1, <2>2 DEF Handover
  <2>4. id \in Displaced(x.plan)
    BY <2>2, <2>3 DEF Displaced, RowsOf
  <2> QED
    BY <1>3, <2>1, <2>4
<1>5. \A id \in Id : rows'[id].plan \in 0..plans'
  BY <1>1, <1>2 DEF Handover
<1> QED
  BY <1>1, <1>4, <1>5, HandoverKept

\* A plan that is stored is the active one, and no other has tasks that wait.
LEMMA StoringHandsOver ==
  ASSUME PlanningInv, Handover, [Next]_vars, NoReading, StorePlan
  PROVE  Handover'
<1>1. /\ rows \in [Id -> RowType] /\ meta \in Meta /\ orch.meta \in Meta /\ plans \in Nat
  BY InvTypes DEF PlanningInv, TypeOK, RowType
<1>2. /\ plans' = plans + 1 /\ meta'.active = plans + 1 /\ meta'.pending = "none"
      /\ orch.pc = "handle" /\ overtaken' = overtaken \cup Displaced(orch.plan)
  BY <1>1 DEF StorePlan, Meta, Handles
<1>3. ActivePlan(meta)' = plans + 1
  BY <1>1, <1>2 DEF ActivePlan
<1>4. \A id \in Id : rows'[id].plan = plans + 1 \/ rows'[id] = rows[id]
  BY <1>1 DEF StorePlan, StoredRows, NewRow, NoRow, RowType
<1>5. orch.plan = 0 \/ orch.meta.pending # "none"
  BY DEF StorePlan, IsWanted
<1>6. ASSUME ~UserOverrode, NEW id \in Id, Waiting(id)', rows'[id] = rows[id]
      PROVE  FALSE
  <2>1. Waiting(id) /\ rows[id].plan # 0 /\ id \notin overtaken'
    BY <1>2, <1>6 DEF Waiting
  <2>2. rows[id].plan = ActivePlan(meta) /\ rows[id].plan # orch.plan
    BY <1>2, <1>5, <1>6, <2>1 DEF Handover
  <2>3. id \in Displaced(orch.plan)
    BY <2>1, <2>2 DEF Displaced, RowsOf
  <2> QED
    BY <1>2, <2>1, <2>3
<1>7. \A id \in Id : rows'[id].plan \in 0..plans'
  BY <1>1, <1>2, <1>4 DEF Handover
<1>8. ~UserOverrode => \A id \in Id : Waiting(id)' =>
        /\ rows'[id].plan = ActivePlan(meta)' /\ meta'.pending = "none"
        /\ rows'[id].plan = plans + 1 \/ (Waiting(id) /\ rows'[id].plan = rows[id].plan)
  BY <1>2, <1>3, <1>4, <1>6
<1> QED
  BY <1>1, <1>2, <1>7, <1>8, HandoverKept

\* Metadata written back from an outdated reading names the plan that is active, or the tasks
\* of that are written over.
LEMMA WritingHandsOver ==
  ASSUME PlanningInv, Handover, [Next]_vars, NoReading, orch.pc = "handle",
         WriteBack(orch, orch.meta), plans' = plans,
         \A id \in Id : rows'[id].plan = rows[id].plan
                        /\ (rows'[id].status \in {"pending", "ready"} => rows'[id] = rows[id])
  PROVE  Handover'
<1>1. plans \in Nat
  BY InvTypes
<1>2. /\ meta' = orch.meta /\ ActivePlan(meta)' = ActivePlan(orch.meta)
      /\ overtaken' = overtaken \cup Displaced(orch.plan) \cup Displaced(ActivePlan(orch.meta))
  BY DEF WriteBack, ActivePlan
<1>3. ASSUME ~UserOverrode, NEW id \in Id, Waiting(id)'
      PROVE  /\ rows'[id].plan = ActivePlan(orch.meta) /\ orch.meta.pending = "none"
             /\ Waiting(id)
  <2>1. Waiting(id) /\ rows[id].plan # 0 /\ id \notin overtaken' /\ rows'[id] = rows[id]
    BY <1>2, <1>3 DEF Waiting
  <2>2. rows[id].plan = ActivePlan(meta)
    BY <1>3, <2>1 DEF Handover
  <2>3. \A p : id \notin Displaced(p) => p = ActivePlan(meta)
    BY <2>1, <2>2 DEF Displaced, RowsOf
  <2>4. orch.plan = ActivePlan(meta) /\ ActivePlan(orch.meta) = ActivePlan(meta)
    BY <1>2, <2>1, <2>3
  <2>5. orch.meta.pending = "none"
    BY <1>3, <2>1, <2>2, <2>4 DEF Handover
  <2> QED
    BY <2>1, <2>2, <2>4, <2>5
<1>4. \A id \in Id : rows'[id].plan \in 0..plans'
  BY DEF Handover
<1>5. ~UserOverrode => \A id \in Id : Waiting(id)' =>
        /\ rows'[id].plan = ActivePlan(meta)' /\ meta'.pending = "none"
        /\ rows'[id].plan = plans + 1 \/ (Waiting(id) /\ rows'[id].plan = rows[id].plan)
  BY <1>2, <1>3
<1> QED
  BY <1>1, <1>4, <1>5, HandoverKept

\* What is read of the job is what there is.
LEMMA ReadingHandsOver ==
  ASSUME PlanningInv, Handover, [Next]_vars, UNCHANGED <<rows, meta, plans, overtaken>>,
         (Reads /\ http' = http) \/ (ReplanJob /\ orch' = orch)
  PROVE  Handover'
<1>1. /\ plans \in Nat /\ ActivePlan(meta) <= plans /\ ActivePlan(meta)' = ActivePlan(meta)
  BY InvTypes DEF ActivePlan, PlanningInv, ActiveStored
<1>2. ~UserOverrode' => ~UserOverrode
  BY UsedGrows DEF UserOverrode, Disturbance, PlanningInv
<1>3. \A id \in Id : Waiting(id)' = Waiting(id)
  BY DEF Waiting
<1>4. \A id \in Id : Waiting(id) /\ rows[id].plan = ActivePlan(meta) =>
                       id \in Unfinished(ActivePlan(meta))
  BY DEF Waiting, Unfinished, RowsOf, Done
<1>5. CASE Reads /\ http' = http
  <2>1. orch'.meta = meta /\ orch'.plan = ActivePlan(meta)
        /\ orch'.batch = Unfinished(ActivePlan(meta))
    BY <1>5 DEF Reads
  <2> QED
    BY <1>1, <1>2, <1>3, <1>4, <1>5, <2>1 DEF Handover
<1>6. CASE ReplanJob /\ orch' = orch
  <2>1. http'.plan = ActivePlan(meta) /\ http'.batch = Unfinished(ActivePlan(meta))
    BY <1>6, HttpSteps
  <2> QED
    BY <1>1, <1>2, <1>3, <1>4, <1>6, <2>1 DEF Handover
<1> QED
  BY <1>5, <1>6

\* Every step keeps the tasks of one plan waiting at most.
LEMMA HandoverStep ==
  ASSUME PlanningInv, Handover, [Next]_vars
  PROVE  Handover'
<1>1. /\ rows \in [Id -> RowType] /\ meta \in Meta /\ plans \in Nat
  BY InvTypes DEF PlanningInv, TypeOK, RowType
<1>2. CASE UNCHANGED <<rows, meta, plans, overtaken>> /\ NoReading
  BY <1>2, HandoverRests DEF Waiting
<1>3. CASE \/ UNCHANGED <<rows, meta, plans, overtaken, http>> /\ Reads
           \/ UNCHANGED <<rows, meta, plans, overtaken, orch>> /\ ReplanJob
  BY <1>3, ReadingHandsOver
<1>4. CASE /\ WriteBack(orch, orch.meta) /\ orch.pc = "handle" /\ NoReading
           /\ UNCHANGED plans
           /\ rows' = rows \/ GiveTaskUp
  <2>1. CASE rows' = rows
    BY <1>4, <2>1, WritingHandsOver
  <2>2. CASE GiveTaskUp
    <3>1. \A id \in Id : rows'[id].plan = rows[id].plan
                        /\ (rows'[id].status \in {"pending", "ready"} => rows'[id] = rows[id])
      BY <1>1, <2>2, ResultRows DEF RowType
    <3> QED
      BY <1>4, <3>1, WritingHandsOver
  <2> QED
    BY <1>4, <2>1, <2>2
<1>5. CASE HandleTaskCompleted /\ UNCHANGED <<meta, plans, overtaken>> /\ NoReading
  <2>1. PICK e \in TaskEvent :
          e.id \in Id /\ rows' = [rows EXCEPT ![e.id].status = "completed"]
    BY <1>5, ResultRows
  <2>2. \A id \in Id : /\ rows'[id].plan = rows[id].plan
                       /\ rows'[id].status \in {"pending", "ready"} => rows'[id] = rows[id]
    BY <1>1, <2>1 DEF RowType
  <2>3. \A id \in Id : Waiting(id)' => Waiting(id)
    BY <1>5, <2>2 DEF Waiting
  <2> QED
    BY <1>5, <2>2, <2>3, HandoverRests
<1>6. CASE StorePlan /\ NoReading
  BY <1>6, StoringHandsOver
<1>7. CASE (RetryJob \/ CreatePlan) /\ NoReading
  <2>1. UserOverrode'
    BY <1>7, UsedGrows DEF UserOverrode, Disturbance, PlanningInv
  <2>2. /\ plans' \in Nat /\ plans' >= plans
        /\ \A id \in Id : rows'[id].plan = rows[id].plan \/ rows'[id].plan = plans'
    <3>1. CASE RetryJob
      BY <1>1, <3>1 DEF RetryJob, NewRow, NoRow
    <3>2. CASE CreatePlan
      BY <1>1, <3>2 DEF CreatePlan, StoredRows, NewRow, NoRow
    <3> QED
      BY <1>7, <3>1, <3>2
  <2>3. \A id \in Id : rows'[id].plan \in 0..plans'
    BY <1>1, <2>2 DEF Handover
  <2>4. http'.pc = "replan" => http' = http /\ http.plan \in Nat /\ http.plan <= plans
    BY <1>7, PlanningAssumption DEF NoReading, Handover, PlanningInv, TypeOK, Threads
  <2>5. http'.pc = "replan" => http'.plan <= plans'
    BY <1>1, <2>2, <2>4
  <2> QED
    BY <2>1, <2>3, <2>5 DEF Handover
<1>8. ASSUME NEW s \in Strategy, RequestReplan(orch, s), orch.pc = "handle", NoReading
      PROVE  Handover'
  BY <1>8, ReplanHandsOver
<1>9. ASSUME NEW s \in Strategy, RequestReplan(http, s), http.pc = "replan", NoReading
      PROVE  Handover'
  BY <1>9, ReplanHandsOver
<1>10. ASSUME NEW ids, DispatchRows(ids), UNCHANGED <<meta, plans>>, NoReading
       PROVE  Handover'
  <2>1. \A id \in Id : /\ rows'[id].plan = rows[id].plan
                       /\ id \in ids => rows[id].status = "pending" \/ id \in overtaken'
                       /\ id \notin ids => rows'[id] = rows[id]
    BY <1>1, <1>10 DEF DispatchRows, RowType
  <2>2. overtaken \subseteq overtaken'
    BY <1>10 DEF DispatchRows
  <2>3. \A id \in Id : Waiting(id)' => Waiting(id)
    BY <2>1, <2>2 DEF Waiting
  <2> QED
    BY <1>10, <2>1, <2>3, HandoverRests
<1> QED
  BY <1>2, <1>3, <1>4, <1>5, <1>6, <1>7, <1>8, <1>9, <1>10, RowSteps

\* It holds at first.
LEMMA HandoverInit == Init => Handover
<1> SUFFICES ASSUME Init
             PROVE  Handover
  OBVIOUS
<1>1. plans = 0 /\ \A id \in Id : rows[id].plan = 0
  BY DEF Init, NoRow
<1>2. http.pc = "request"
  BY ThreadIs DEF Init
<1> QED
  BY <1>1, <1>2 DEF Handover, Waiting

\* No task of a plan that was replaced waits to be executed, for every plan and any number of
\* replans, results that come late, crashes and recoveries: unless a user has had the job
\* retried or has submitted a plan, or the task, or its plan, was written over from an outdated
\* reading, by a dispatch or a replan that crossed the replacement.
THEOREM ReplacedPlansRest == Spec => []OnlyActivePlanWaits
<1>1. PlanningInv /\ Handover /\ [Next]_vars => (PlanningInv /\ Handover)'
  BY InvStep, HandoverStep
<1>2. Handover => OnlyActivePlanWaits
  BY DEF Handover, OnlyActivePlanWaits, Waiting
<1> QED
  BY <1>1, <1>2, InvInit, HandoverInit, PTL DEF Spec

-----------------------------------------------------------------------------
(* What is done stays done.                                                *)

\* The results of a task that the orchestrator has taken and not acknowledged.
Reports(id) == {e \in redo \cup {orch.ev} : e \in TaskEvent /\ e.id = id}

\* A task that was handed out once has one execution and one result, which can come back after
\* a crash and is the same then; one that was never handed out has none.  What is done has no
\* result left that says otherwise.
Reported ==
  \A id \in Id : handed[id] <= 1 =>
    /\ exec[id] <= handed[id]
    /\ handed[id] = 0 => Reports(id) = {} /\ rows[id].status \notin Done
    /\ Reports(id) # {} => exec[id] = 0
    /\ \A d, e \in Reports(id) : d = e
    /\ rows[id].status \in Done => exec[id] = 0 /\ \A e \in Reports(id) : e.type = "completed"

\* No step but the taking of a result adds to what is reported.
LEMMA EntrySteps ==
  ASSUME PlanningInv, [Next]_vars, ~HandleTaskCompleted, ~ReadFailure
  PROVE  \A id \in Id : Reports(id)' \subseteq Reports(id)
<1> USE DEF record, streams
<1>1. NoEvent \notin TaskEvent
  BY PlanningAssumption
<1>2. CASE Planner \/ PlannerDrops \/ Requests \/ User \/ UNCHANGED vars
  <2>1. redo' = redo /\ orch' = orch
    BY <1>2 DEF Planner, PlannerReads, PlannerAnswers, PlannerDrops, Requests, HttpRequests,
       HttpQueries, HttpDispatches, HttpRefreshes, HttpReplans, RecoverJob, User, ReplanJob,
       CancelJob, ContinueJob, RetryJob, CreatePlan, vars
  <2> QED
    BY <2>1 DEF Reports
<1>3. CASE ReadPlanEvent
  <2>1. redo' \subseteq redo
    BY <1>3 DEF ReadPlanEvent, TakePlanEvent
  <2>2. orch'.ev \notin TaskEvent
    BY <1>3, OrchSteps DEF IsPlanEvent, TaskEvent, Result
  <2> QED
    BY <2>1, <2>2 DEF Reports
<1>4. CASE RejectPlan \/ DiscardPlan \/ StorePlan \/ HandlePlanFailed \/ ReplanAfterFailure
             \/ GiveTaskUp \/ OrchQueries \/ OrchDispatches \/ OrchRequests \/ OrchReports
  <2>1. redo' = redo
    BY <1>4 DEF RejectPlan, DiscardPlan, StorePlan, HandlePlanFailed, ReplanAfterFailure,
       GiveTaskUp, OrchQueries, OrchDispatches, OrchRequests, OrchReports
  <2>2. orch'.ev = orch.ev
    BY <1>4, OrchSteps
  <2> QED
    BY <2>1, <2>2 DEF Reports
<1>5. CASE OrchRefreshes \/ OrchAcks \/ ApiCrash
  <2>1. orch'.ev = NoEvent
    BY <1>5, OrchSteps
  <2>2. redo' \subseteq redo \cup {orch.ev}
    BY <1>5 DEF OrchRefreshes, OrchAcks, ApiCrash
  <2> QED
    BY <1>1, <2>1, <2>2 DEF Reports
<1> QED
  BY <1>2, <1>3, <1>4, <1>5 DEF Next, Orchestrator

\* A step that takes no result and hands nothing out keeps the account of the reports if nothing
\* is done after it that was not before.
LEMMA ReportedKept ==
  ASSUME Reported, exec' = exec, handed' = handed,
         \A id \in Id : Reports(id)' \subseteq Reports(id),
         \A id \in Id : rows'[id].status \in Done => rows[id].status \in Done
  PROVE  Reported'
<1> SUFFICES ASSUME NEW id \in Id, handed[id] <= 1
             PROVE  /\ exec[id] <= handed[id]
                    /\ handed[id] = 0 => Reports(id)' = {} /\ rows'[id].status \notin Done
                    /\ Reports(id)' # {} => exec[id] = 0
                    /\ \A d, e \in Reports(id)' : d = e
                    /\ rows'[id].status \in Done =>
                         exec[id] = 0 /\ \A e \in Reports(id)' : e.type = "completed"
  BY DEF Reported
<1>1. Reports(id)' \subseteq Reports(id)
  OBVIOUS
<1>2. PICK old, new : old = Reports(id) /\ new = Reports(id)'
  OBVIOUS
<1>3. /\ exec[id] <= handed[id]
      /\ handed[id] = 0 => old = {} /\ rows[id].status \notin Done
      /\ old # {} => exec[id] = 0
      /\ \A d, e \in old : d = e
      /\ rows[id].status \in Done => exec[id] = 0 /\ \A e \in old : e.type = "completed"
  BY <1>2 DEF Reported
<1>4. new \subseteq old /\ (rows'[id].status \in Done => rows[id].status \in Done)
  BY <1>1, <1>2
<1> HIDE DEF Reports
<1>5. /\ exec[id] <= handed[id]
      /\ handed[id] = 0 => new = {} /\ rows'[id].status \notin Done
      /\ new # {} => exec[id] = 0
      /\ \A d, e \in new : d = e
      /\ rows'[id].status \in Done => exec[id] = 0 /\ \A e \in new : e.type = "completed"
  BY <1>3, <1>4
<1> QED
  BY <1>2, <1>5

\* The one result of a task, taken when it arrives or when it comes back.
LEMMA ReportedTaken ==
  ASSUME TypeOK, Reported, NEW e \in TaskEvent, e.id \in Id, TakeResult(e), orch'.ev = e,
         handed' = handed, \A id \in Id : id # e.id => rows'[id] = rows[id],
         rows'[e.id].status \in Done => e.type = "completed" \/ rows'[e.id] = rows[e.id]
  PROVE  Reported'
<1>1. exec \in [Id -> Nat] /\ handed \in [Id -> Nat]
  BY DEF TypeOK
<1>2. ASSUME NEW id \in Id, id # e.id, handed'[id] <= 1
      PROVE  /\ exec'[id] = exec[id] /\ rows'[id] = rows[id] /\ Reports(id)' \subseteq Reports(id)
  <2>1. exec'[id] = exec[id]
    BY <1>1, <1>2 DEF TakeResult
  <2>2. redo' \subseteq redo
    BY DEF TakeResult
  <2>3. Reports(id)' \subseteq Reports(id)
    BY <1>2, <2>2 DEF Reports
  <2> QED
    BY <1>2, <2>1, <2>3
<1>3. ASSUME NEW id \in Id, id # e.id, handed'[id] <= 1
      PROVE  /\ exec'[id] <= handed'[id]
             /\ handed'[id] = 0 => Reports(id)' = {} /\ rows'[id].status \notin Done
             /\ Reports(id)' # {} => exec'[id] = 0
             /\ \A d, f \in Reports(id)' : d = f
             /\ rows'[id].status \in Done =>
                  exec'[id] = 0 /\ \A f \in Reports(id)' : f.type = "completed"
  <2>1. PICK old, new : old = Reports(id) /\ new = Reports(id)'
    OBVIOUS
  <2>2. /\ exec[id] <= handed[id]
        /\ handed[id] = 0 => old = {} /\ rows[id].status \notin Done
        /\ old # {} => exec[id] = 0
        /\ \A d, f \in old : d = f
        /\ rows[id].status \in Done => exec[id] = 0 /\ \A f \in old : f.type = "completed"
    BY <1>3, <2>1 DEF Reported
  <2>3. exec'[id] = exec[id] /\ rows'[id] = rows[id] /\ new \subseteq old
    BY <1>2, <1>3, <2>1
  <2>4. /\ exec'[id] <= handed'[id]
        /\ handed'[id] = 0 => new = {} /\ rows'[id].status \notin Done
        /\ new # {} => exec'[id] = 0
        /\ \A d, f \in new : d = f
        /\ rows'[id].status \in Done => exec'[id] = 0 /\ \A f \in new : f.type = "completed"
    BY <2>2, <2>3
  <2> QED
    BY <2>1, <2>4
<1>4. ASSUME handed[e.id] <= 1
      PROVE  /\ exec'[e.id] = 0 /\ handed[e.id] # 0 /\ Reports(e.id)' \subseteq {e}
             /\ rows[e.id].status \in Done => e.type = "completed"
  <2>1. PICK old : old = Reports(e.id)
    OBVIOUS
  <2>2. /\ exec[e.id] <= handed[e.id]
        /\ handed[e.id] = 0 => old = {}
        /\ old # {} => exec[e.id] = 0
        /\ \A d, f \in old : d = f
        /\ rows[e.id].status \in Done => exec[e.id] = 0 /\ \A f \in old : f.type = "completed"
    BY <1>4, <2>1 DEF Reported
  <2>3. exec[e.id] \in Nat /\ handed[e.id] \in Nat
    BY <1>1
  <2>4. CASE exec[e.id] > 0 /\ exec' = [exec EXCEPT ![e.id] = @ - 1] /\ redo' = redo
    <3>1. exec[e.id] = 1 /\ handed[e.id] = 1 /\ old = {} /\ rows[e.id].status \notin Done
      BY <1>4, <2>2, <2>3, <2>4
    <3>2. exec'[e.id] = 0
      BY <1>1, <2>4, <3>1
    <3>3. Reports(e.id)' \subseteq {e}
      BY <2>1, <2>4, <3>1 DEF Reports
    <3> QED
      BY <3>1, <3>2, <3>3
  <2>5. CASE e \in redo /\ redo' = redo \ {e} /\ exec' = exec
    <3>1. e \in old
      BY <2>1, <2>5 DEF Reports
    <3>2. Reports(e.id)' \subseteq old
      BY <2>1, <2>5, <3>1 DEF Reports
    <3> QED
      BY <2>2, <2>5, <3>1, <3>2
  <2> QED
    BY <2>4, <2>5 DEF TakeResult
<1>5. ASSUME handed'[e.id] <= 1
      PROVE  /\ exec'[e.id] <= handed'[e.id]
             /\ handed'[e.id] = 0 => Reports(e.id)' = {} /\ rows'[e.id].status \notin Done
             /\ Reports(e.id)' # {} => exec'[e.id] = 0
             /\ \A d, f \in Reports(e.id)' : d = f
             /\ rows'[e.id].status \in Done =>
                  exec'[e.id] = 0 /\ \A f \in Reports(e.id)' : f.type = "completed"
  <2>1. PICK new : new = Reports(e.id)'
    OBVIOUS
  <2>2. /\ exec'[e.id] = 0 /\ handed[e.id] # 0 /\ new \subseteq {e}
        /\ rows[e.id].status \in Done => e.type = "completed"
    BY <1>4, <1>5, <2>1
  <2>3. handed'[e.id] \in Nat /\ handed'[e.id] # 0
    BY <1>1, <2>2
  <2>4. rows'[e.id].status \in Done => e.type = "completed"
    BY <2>2
  <2> QED
    BY <2>1, <2>2, <2>3, <2>4
<1> QED
  BY <1>3, <1>5 DEF Reported

\* A dispatch hands out what it has found ready, once or once more.
LEMMA ReportedDispatch ==
  ASSUME TypeOK, Reported, NEW ids \in SUBSET Id, DispatchRows(ids),
         \A id \in Id : Reports(id)' \subseteq Reports(id)
  PROVE  Reported'
<1>1. exec \in [Id -> Nat] /\ handed \in [Id -> Nat] /\ rows \in [Id -> RowType]
  BY DEF TypeOK, RowType
<1> SUFFICES ASSUME NEW id \in Id, handed'[id] <= 1
             PROVE  /\ exec'[id] <= handed'[id]
                    /\ handed'[id] = 0 => Reports(id)' = {} /\ rows'[id].status \notin Done
                    /\ Reports(id)' # {} => exec'[id] = 0
                    /\ \A d, f \in Reports(id)' : d = f
                    /\ rows'[id].status \in Done =>
                         exec'[id] = 0 /\ \A f \in Reports(id)' : f.type = "completed"
  BY DEF Reported
<1>2. PICK old, new : old = Reports(id) /\ new = Reports(id)'
  OBVIOUS
<1>3. handed[id] \in Nat /\ exec[id] \in Nat /\ new \subseteq old
  BY <1>1, <1>2
<1>4. handed[id] <= 1 =>
        /\ exec[id] <= handed[id]
        /\ handed[id] = 0 => old = {} /\ rows[id].status \notin Done
        /\ old # {} => exec[id] = 0
        /\ \A d, f \in old : d = f
        /\ rows[id].status \in Done => exec[id] = 0 /\ \A f \in old : f.type = "completed"
  BY <1>2 DEF Reported
<1>5. CASE id \in ids
  <2>1. handed'[id] = handed[id] + 1 /\ exec'[id] = exec[id] + 1 /\ rows'[id].status = "ready"
    BY <1>1, <1>5 DEF DispatchRows, RowType
  <2>2. handed[id] = 0 /\ exec[id] = 0 /\ new = {}
    BY <1>3, <1>4, <2>1
  <2> QED
    BY <1>2, <2>1, <2>2 DEF Done
<1>6. CASE id \notin ids
  <2>1. handed'[id] = handed[id] /\ exec'[id] = exec[id] /\ rows'[id] = rows[id]
    BY <1>6 DEF DispatchRows
  <2> QED
    BY <1>2, <1>3, <1>4, <2>1
<1> QED
  BY <1>5, <1>6

\* The rows a plan keeps are done.
LEMMA KeptDone ==
  ASSUME NEW p, NEW pending, NEW id \in Preserved(p, pending)
  PROVE  id \in Id /\ rows[id].status \in Done
BY DEF Preserved, DoneRows, RowsOf

\* Storing a plan finishes nothing, and keeps what it keeps.
LEMMA StoredFacts ==
  ASSUME TypeOK, NEW p, NEW names, NEW kept, \A id \in kept : id \in Id /\ rows[id].status \in Done,
         rows' = StoredRows(p, names, kept), NEW id \in Id
  PROVE  /\ rows'[id].status \in Done => rows[id].status \in Done
         /\ id \in kept => rows'[id].plan = p /\ rows'[id].status = rows[id].status
<1>1. rows \in [Id -> RowType]
  BY DEF TypeOK, RowType
<1>2. rows'[id] = IF id \in kept THEN [rows[id] EXCEPT !.plan = p]
                  ELSE IF id[1] = p /\ id[2] \in names \ {k[2] : k \in kept} THEN NewRow(p)
                  ELSE rows[id]
  BY DEF StoredRows
<1>3. CASE id \in kept
  BY <1>1, <1>2, <1>3 DEF RowType
<1>4. CASE id \notin kept
  <2>1. rows'[id] = NewRow(p) \/ rows'[id] = rows[id]
    BY <1>2, <1>4
  <2> QED
    BY <1>4, <2>1 DEF NewRow, NoRow, Done
<1> QED
  BY <1>3, <1>4

\* Who hands out and who takes results.
LEMMA ExecSteps ==
  ASSUME [Next]_vars, ~HandleTaskCompleted, ~ReadFailure, ~OrchDispatches, ~HttpDispatches
  PROVE  exec' = exec /\ handed' = handed
<1> USE DEF record, streams, history
<1>1. CASE Planner \/ PlannerDrops \/ Requests \/ User \/ ApiCrash \/ UNCHANGED vars
  BY <1>1 DEF Planner, PlannerReads, PlannerAnswers, PlannerDrops, Requests, HttpRequests,
     HttpQueries, HttpRefreshes, HttpReplans, RecoverJob, User, ReplanJob, CancelJob,
     ContinueJob, RetryJob, CreatePlan, ApiCrash, vars
<1>2. CASE Orchestrator
  BY <1>2 DEF Orchestrator, ReadPlanEvent, RejectPlan, DiscardPlan, StorePlan, HandlePlanFailed,
     ReplanAfterFailure, GiveTaskUp, OrchQueries, OrchRefreshes, OrchRequests, OrchReports,
     OrchAcks, WriteBack, RequestReplan
<1> QED
  BY <1>1, <1>2 DEF Next

\* Every step keeps the account of the reports.
LEMMA ReportedStep ==
  ASSUME PlanningInv, Reported, [Next]_vars
  PROVE  Reported'
<1>1. TypeOK /\ rows \in [Id -> RowType] /\ orch.batch \in SUBSET Id /\ http.batch \in SUBSET Id
  BY DEF PlanningInv, TypeOK, RowType, Threads
<1>2. CASE HandleTaskCompleted
  <2>1. PICK e \in TaskEvent :
          /\ e.id \in Id /\ e.type = "completed" /\ TakeResult(e) /\ orch'.ev = e
          /\ rows' = [rows EXCEPT ![e.id].status = "completed"]
    BY <1>2, ResultRows
  <2>2. handed' = handed /\ \A id \in Id : id # e.id => rows'[id] = rows[id]
    BY <1>1, <1>2, <2>1 DEF HandleTaskCompleted, history
  <2> QED
    BY <1>1, <2>1, <2>2, ReportedTaken
<1>3. CASE ReadFailure
  <2>1. PICK e \in TaskEvent :
          e.id \in Id /\ e.type # "completed" /\ TakeResult(e) /\ orch'.ev = e
    BY <1>3, ResultRows
  <2>2. handed' = handed /\ rows' = rows
    BY <1>3 DEF ReadFailure, history, record
  <2> QED
    BY <1>1, <2>1, <2>2, ReportedTaken
<1> SUFFICES ASSUME ~HandleTaskCompleted, ~ReadFailure
             PROVE  Reported'
  BY <1>2, <1>3
<1>4. \A id \in Id : Reports(id)' \subseteq Reports(id)
  BY EntrySteps
<1>5. CASE OrchDispatches
  BY <1>1, <1>4, <1>5, ReportedDispatch DEF OrchDispatches
<1>6. CASE HttpDispatches
  BY <1>1, <1>4, <1>6, ReportedDispatch DEF HttpDispatches
<1> SUFFICES ASSUME ~OrchDispatches, ~HttpDispatches
             PROVE  Reported'
  BY <1>5, <1>6
<1>7. exec' = exec /\ handed' = handed
  BY ExecSteps
<1>8. \A id \in Id : rows'[id].status \in Done => rows[id].status \in Done
  <2>1. CASE rows' = rows
    BY <2>1
  <2>2. CASE GiveTaskUp
    BY <1>1, <2>2, ResultRows DEF RowType, Done
  <2>3. CASE StorePlan
    <3>1. rows' = StoredRows(plans + 1, orch.ev.names, Preserved(orch.plan, orch.meta.pending))
      BY <2>3 DEF StorePlan
    <3>2. \A id \in Preserved(orch.plan, orch.meta.pending) : id \in Id /\ rows[id].status \in Done
      BY KeptDone
    <3> QED
      BY <1>1, <3>1, <3>2, StoredFacts
  <2>4. CASE RetryJob
    BY <1>1, <2>4 DEF RetryJob, NewRow, NoRow, Done
  <2>5. CASE CreatePlan
    <3>1. PICK names \in PlanShape : rows' = StoredRows(plans + 1, names, {})
      BY <2>5 DEF CreatePlan
    <3> QED
      BY <1>1, <3>1, StoredFacts
  <2>6. ASSUME NEW x, NEW s \in Strategy, RequestReplan(x, s)
        PROVE  \A id \in Id : rows'[id].status \in Done => rows[id].status \in Done
    BY <1>1, <2>6 DEF RequestReplan, Superseded, Canceled, RowType, Done
  <2>7. ASSUME NEW ids, DispatchRows(ids)
        PROVE  \A id \in Id : rows'[id].status \in Done => rows[id].status \in Done
    BY <1>1, <2>7 DEF DispatchRows, RowType, Done
  <2> QED
    BY <2>1, <2>2, <2>3, <2>4, <2>5, <2>6, <2>7, RowSteps
<1> QED
  BY <1>4, <1>7, <1>8, ReportedKept

\* What is finished stays so, unless a user has asked for it again, it was handed out twice, or
\* it was written over from an outdated reading.
LEMMA DoneStays ==
  ASSUME PlanningInv, Reported, [Next]_vars, NEW id \in DoneRows(ActivePlan(meta)), ~AskedAgain,
         handed'[id] <= 1, id \notin overtaken'
  PROVE  \E i \in DoneRows(ActivePlan(meta))' : i[2] = id[2]
<1>1. /\ TypeOK /\ rows \in [Id -> RowType] /\ plans \in Nat /\ meta \in Meta
      /\ orch.meta \in Meta
  BY InvTypes DEF PlanningInv, TypeOK, RowType
<1>2. id \in Id /\ rows[id].plan = ActivePlan(meta) /\ ActivePlan(meta) # 0
      /\ rows[id].status \in Done
  BY DEF DoneRows, RowsOf
<1>3. ASSUME rows'[id].plan = ActivePlan(meta)', rows'[id].status \in Done, ActivePlan(meta)' # 0
      PROVE  \E i \in DoneRows(ActivePlan(meta))' : i[2] = id[2]
  BY <1>2, <1>3 DEF DoneRows, RowsOf
<1>4. ASSUME ActivePlan(meta)' = ActivePlan(meta), rows'[id].plan = rows[id].plan,
             rows'[id].status \in Done
      PROVE  \E i \in DoneRows(ActivePlan(meta))' : i[2] = id[2]
  BY <1>2, <1>3, <1>4
<1>5. meta' = meta /\ plans' = plans => ActivePlan(meta)' = ActivePlan(meta)
  BY DEF ActivePlan
<1>6. \A p : id \notin Displaced(p) => p = ActivePlan(meta)
  BY <1>2 DEF Displaced, RowsOf
<1>7. CASE UNCHANGED <<rows, meta, plans>>
  BY <1>2, <1>4, <1>5, <1>7
<1>8. CASE /\ WriteBack(orch, orch.meta) /\ orch.pc = "handle"
           /\ UNCHANGED plans
           /\ rows' = rows \/ GiveTaskUp
  <2>1. /\ ActivePlan(meta)' = ActivePlan(orch.meta)
        /\ Displaced(ActivePlan(orch.meta)) \subseteq overtaken'
    BY <1>8 DEF WriteBack, ActivePlan
  <2>2. ActivePlan(meta)' = ActivePlan(meta)
    BY <1>6, <2>1
  <2>3. CASE rows' = rows
    BY <1>2, <1>4, <2>2, <2>3
  <2>4. CASE GiveTaskUp
    <3>1. /\ orch.ev \in TaskEvent /\ orch.ev.id \in Id /\ orch.ev.type # "completed"
          /\ rows' = [rows EXCEPT ![orch.ev.id].status = "failed"]
      BY <2>4, ResultRows
    <3>2. handed[id] <= 1
      BY <2>4 DEF GiveTaskUp
    <3>3. orch.ev.id # id
      BY <1>2, <3>1, <3>2 DEF Reported, Reports
    <3>4. rows'[id] = rows[id]
      BY <1>1, <1>2, <3>1, <3>3
    <3> QED
      BY <1>2, <1>4, <2>2, <3>4
  <2> QED
    BY <1>8, <2>3, <2>4
<1>9. CASE HandleTaskCompleted /\ UNCHANGED <<meta, plans>>
  <2>1. PICK e \in TaskEvent :
          e.id \in Id /\ rows' = [rows EXCEPT ![e.id].status = "completed"]
    BY <1>9, ResultRows
  <2>2. rows'[id].plan = rows[id].plan /\ rows'[id].status \in Done
    BY <1>1, <1>2, <2>1 DEF RowType, Done
  <2> QED
    BY <1>4, <1>5, <1>9, <2>2
<1>10. CASE StorePlan
  <2> DEFINE kept == Preserved(orch.plan, orch.meta.pending)
  <2>1. /\ IsWanted /\ overtaken' = overtaken \cup Displaced(orch.plan) /\ plans' = plans + 1
        /\ rows' = StoredRows(plans + 1, orch.ev.names, kept)
    BY <1>10 DEF StorePlan
  <2>2. orch.plan = ActivePlan(meta)
    BY <1>6, <2>1
  <2>3. orch.meta.pending \in Suffix
    <3>1. orch.meta.pending # "none"
      BY <1>2, <2>1, <2>2 DEF IsWanted
    <3>2. orch.meta.pending # "full_replan"
      BY <1>1, <2>1 DEF AskedAgain
    <3> QED
      BY <1>1, <3>1, <3>2 DEF Meta, Strategy
  <2>4. id \in kept
    BY <2>2, <2>3 DEF Preserved
  <2>5. \A k \in kept : k \in Id /\ rows[k].status \in Done
    BY KeptDone
  <2> HIDE DEF kept
  <2>6. rows'[id].plan = plans + 1 /\ rows'[id].status = rows[id].status
    BY <1>1, <1>2, <2>1, <2>4, <2>5, StoredFacts
  <2>7. ActivePlan(meta)' = plans + 1
    BY <1>1, <1>10 DEF StorePlan, ActivePlan, Meta
  <2> QED
    BY <1>1, <1>2, <1>3, <2>6, <2>7
<1>11. CASE RetryJob \/ CreatePlan
  BY <1>1, <1>11, UsedGrows DEF AskedAgain
<1>12. ASSUME NEW x \in {orch, http}, NEW s \in Strategy, RequestReplan(x, s)
       PROVE  \E i \in DoneRows(ActivePlan(meta))' : i[2] = id[2]
  <2>1. x.meta \in Meta
    BY <1>1, <1>12, InvTypes
  <2>2. PICK m : m = [x.meta EXCEPT !.pending = s, !.count = @ + 1]
    OBVIOUS
  <2>3. /\ meta' = m /\ plans' = plans /\ rows' = Canceled(x.batch)
        /\ overtaken' = overtaken \cup Displaced(x.plan) \cup Displaced(ActivePlan(m))
                           \cup {i \in x.batch : rows[i].status \in Done}
    BY <1>12, <2>2 DEF RequestReplan, Superseded
  <2>4. ActivePlan(meta)' = ActivePlan(m)
    BY <2>3 DEF ActivePlan
  <2>5. ActivePlan(m) = ActivePlan(meta) /\ id \notin x.batch
    BY <1>2, <1>6, <2>3
  <2>6. rows'[id] = rows[id]
    BY <1>2, <2>3, <2>5 DEF Canceled
  <2> QED
    BY <1>2, <1>4, <2>4, <2>5, <2>6
<1>13. ASSUME NEW ids, DispatchRows(ids), UNCHANGED <<meta, plans>>
       PROVE  \E i \in DoneRows(ActivePlan(meta))' : i[2] = id[2]
  <2>1. id \notin ids
    BY <1>2, <1>13 DEF DispatchRows, Done
  <2>2. rows'[id] = rows[id]
    BY <1>2, <1>13, <2>1 DEF DispatchRows
  <2> QED
    BY <1>2, <1>4, <1>5, <1>13, <2>2
<1> QED
  BY <1>7, <1>8, <1>9, <1>10, <1>11, <1>12, <1>13, RowSteps

\* It holds at first.
LEMMA ReportedInit == Init => Reported
<1> SUFFICES ASSUME Init
             PROVE  Reported
  OBVIOUS
<1>1. /\ \A id \in Id : rows[id] = NoRow /\ exec[id] = 0 /\ handed[id] = 0
      /\ redo = {} /\ orch.ev = NoEvent /\ NoEvent \notin TaskEvent
  BY ThreadIs, PlanningAssumption DEF Init, Idle
<1>2. \A id \in Id : Reports(id) = {}
  BY <1>1 DEF Reports
<1> QED
  BY <1>1, <1>2 DEF Reported, NoRow, Done

\* What the active plan has finished stays finished in every later plan of the job, for every
\* plan, budget and number of plans, whatever crashes and whoever asks for what, unless a user
\* asks for it again; except for a task that was handed out twice, the later of whose results
\* counts, and for one that was written over from an outdated reading.
THEOREM FinishedWorkStays == Spec => FinishedWorkIsKept
<1> DEFINE Inv == PlanningInv /\ Reported
<1>1. Init => Inv
  BY InvInit, ReportedInit
<1>2. Inv /\ [Next]_vars => Inv'
  BY InvStep, ReportedStep
<1>3. Inv /\ [Next]_vars =>
        [\A n \in Name : DoneName(n) =>
           \/ DoneName(n)' \/ AskedAgain
           \/ \E id \in DoneRows(ActivePlan(meta)) :
                id[2] = n /\ (handed'[id] > 1 \/ id \in overtaken')]_vars
  <2> SUFFICES ASSUME Inv, [Next]_vars, NEW n \in Name, NEW id \in DoneRows(ActivePlan(meta)),
                      id[2] = n, ~AskedAgain, ~(handed'[id] > 1), id \notin overtaken'
               PROVE  DoneName(n)'
    BY DEF DoneName
  <2>1. id \in Id /\ handed'[id] \in Nat
    BY TypeStep DEF PlanningInv, TypeOK, DoneRows, RowsOf
  <2>2. \E i \in DoneRows(ActivePlan(meta))' : i[2] = id[2]
    BY <2>1, DoneStays
  <2> QED
    BY <2>2 DEF DoneName
<1> QED
  BY <1>1, <1>2, <1>3, PTL DEF Spec, FinishedWorkIsKept
=============================================================================
