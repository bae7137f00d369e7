--------------------------- MODULE PlanRunProofs ----------------------------
(***************************************************************************)
(* That Orchestrator executes the plan as PlanRun promises, while one API  *)
(* replica handles one run of it and every entry is handled once: tools    *)
(* run on finished dependencies (DependenciesFirst), success is complete   *)
(* (SuccessIsComplete), tasks follow TASK_TRANSITIONS (MachineFollowed),   *)
(* and every step is one of PlanRun or a stutter (PlanExecuted).           *)
(*                                                                         *)
(* All of it rests on the order of the workers' reports. Line is the order *)
(* in which the replica will have handled them: the entry in its hand, the *)
(* rest of its batch, the stream. Ordered says that no start is behind a   *)
(* result of its task there, and what the rows say of a task that has      *)
(* copies or starts left. Stepwise adds the converse: a result is behind   *)
(* its start, or its start has been handled, and the row says running.     *)
(***************************************************************************)
EXTENDS OneReplicaProofs

-----------------------------------------------------------------------------
(* The order of starts, results and dispatches.                            *)

\* The reports of the workers, in their order: the replica's entry as long as it is not
\* handled, the rest of its batch, and the tasks stream.
Rest == inbox[Replica] \o stream["tasks"]

Line == IF thread[Replica].pc = "handle" THEN Single(thread[Replica].ev) \o Rest ELSE Rest

\* The tasks whose start waits to be handled.
Waiting == About(Starts, Line)

\* No start comes after a result of its task.  A task that is done has no start waiting and no
\* copy anywhere; one that was handed out has its dependencies done; a job that has succeeded
\* has all its tasks done.
Ordered ==
  /\ pending = <<>>
  /\ Inverted(Starts, Results, Line) = {}
  /\ \A t \in Task :
       /\ task[t] = "pending" => t \notin Waiting
       /\ task[t] \in Done => t \notin All(Copies) \cup Waiting
       /\ task[t] # "pending" \/ t \in thread[Replica].batch => \A d \in Deps[t] : task[d] \in Done
  /\ job = "succeeded" => \A t \in Task : task[t] \in Done

\* Every result follows its start, or the start has been handled; only a task that was never
\* handed out is pending; a task that has failed has failed the job, and nothing is left of it.
Stepwise ==
  /\ Inv(0 .. MaxAttempts, BoundedEvent)
  /\ job \in {"planning", "running", "succeeded", "failed"}
  /\ \A e \in thread[Replica].out : e.type = "ready"
  /\ \A t \in Task :
       /\ task[t] \in {"pending", "ready", "running", "completed", "failed"}
       /\ task[t] = "pending" => attempts[t] = 0
       /\ t \in thread[Replica].batch => thread[Replica].snap[t] = 0
       /\ t \in Unpreceded(Starts, Results, Line) => task[t] = "running"
       /\ t \in About(Copies, held) => t \in Waiting \/ task[t] = "running"
       /\ task[t] = "failed" => job = "failed" /\ t \notin All(Copies) \cup Waiting

\* What is assumed: as Calm, and no handler raises.
Steady == Calm /\ ~Redelivers

-----------------------------------------------------------------------------
(* How the line of reports moves.                                          *)

\* Appending to the second of two sequences.
LEMMA ConcatAppend ==
  ASSUME NEW S, NEW s \in Seq(S), NEW u \in Seq(S), NEW e \in S
  PROVE  s \o Append(u, e) = Append(s \o u, e)
OBVIOUS

\* An entry that may be in line.
Report == TaskEvent \cup {PlanCreated}

\* Line and Rest are sequences.
LEMMA LineTyped ==
  ASSUME State, Calm
  PROVE  /\ inbox[Replica] \in Seq(Report) /\ stream["tasks"] \in Seq(Report)
         /\ Rest \in Seq(Report) /\ Line \in Seq(Report)
         /\ thread[Replica].pc = "handle" => thread[Replica].ev \in Report
<1>1. inbox[Replica] \in Seq(TaskEvent) /\ stream["tasks"] \in Seq(TaskEvent)
  BY CalmMeans DEF State, Inv, QueuesTyped, Stream
<1>2. inbox[Replica] \in Seq(Report) /\ stream["tasks"] \in Seq(Report)
  BY <1>1 DEF Report
<1>3. thread[Replica].pc = "handle" => thread[Replica].ev \in Report
  BY CalmMeans DEF State, Inv, Threads, ThreadRecord, Consistent, Report
<1> HIDE DEF Report
<1>4. Rest \in Seq(Report)
  BY <1>2, ConcatProperties DEF Rest
<1>5. \A e \in Report : Single(e) \o Rest \in Seq(Report)
  <2> SUFFICES ASSUME NEW e \in Report PROVE Single(e) \o Rest \in Seq(Report)
    OBVIOUS
  <2>1. Single(e) \in Seq(Report)
    BY DEF Single
  <2> QED
    BY <1>4, <2>1, ConcatProperties
<1> QED
  BY <1>2, <1>3, <1>4, <1>5 DEF Line

\* The order of starts and results is what it was.
SameOrder ==
  /\ About(Starts, Line)' = About(Starts, Line)
  /\ About(Results, Line)' = About(Results, Line)
  /\ Inverted(Starts, Results, Line)' = Inverted(Starts, Results, Line)
  /\ Unpreceded(Starts, Results, Line)' = Unpreceded(Starts, Results, Line)

\* Two parts of a line: what they are about together, and in which order.
LEMMA JoinAbout ==
  ASSUME NEW K, NEW s \in Seq(Report), NEW u \in Seq(Report)
  PROVE  About(K, s \o u) = About(K, s) \cup About(K, u)
BY AboutConcat

\* Inverted pairs of two lists joined: those of each, and those across.
LEMMA JoinInverted ==
  ASSUME NEW K, NEW L, NEW s \in Seq(Report), NEW u \in Seq(Report)
  PROVE  Inverted(K, L, s \o u)
           = Inverted(K, L, s) \cup Inverted(K, L, u) \cup (About(L, s) \cap About(K, u))
<1>1. /\ Unfollowed(K, L, s \o u)
           = Unfollowed(K, L, u) \cup (Unfollowed(K, L, s) \ About(L, u))
      /\ Unpreceded(K, L, s \o u)
           = Unpreceded(K, L, s) \cup (Unpreceded(K, L, u) \ About(K, s))
      /\ Inverted(K, L, s \o u)
           = Inverted(K, L, s) \cup Inverted(K, L, u) \cup (About(L, s) \cap About(K, u))
  BY OrderConcat
<1> QED
  BY <1>1

\* In two lists joined, the first may hold what precedes in the second.
LEMMA JoinUnpreceded ==
  ASSUME NEW K, NEW L, NEW s \in Seq(Report), NEW u \in Seq(Report)
  PROVE  Unpreceded(K, L, s \o u)
           = Unpreceded(K, L, s) \cup (Unpreceded(K, L, u) \ About(K, s))
<1>1. /\ Unfollowed(K, L, s \o u)
           = Unfollowed(K, L, u) \cup (Unfollowed(K, L, s) \ About(L, u))
      /\ Unpreceded(K, L, s \o u)
           = Unpreceded(K, L, s) \cup (Unpreceded(K, L, u) \ About(K, s))
      /\ Inverted(K, L, s \o u)
           = Inverted(K, L, s) \cup Inverted(K, L, u) \cup (About(L, s) \cap About(K, u))
  BY OrderConcat
<1> QED
  BY <1>1

\* A part that is about neither starts nor results is put behind another,
LEMMA SilentAfter ==
  ASSUME NEW s \in Seq(Report), NEW p \in Seq(Report),
         About(Starts, p) = {}, About(Results, p) = {}
  PROVE  /\ s \o p \in Seq(Report)
         /\ About(Starts, s \o p) = About(Starts, s)
         /\ About(Results, s \o p) = About(Results, s)
         /\ Inverted(Starts, Results, s \o p) = Inverted(Starts, Results, s)
         /\ Unpreceded(Starts, Results, s \o p) = Unpreceded(Starts, Results, s)
<1>1. Inverted(Starts, Results, p) = {} /\ Unpreceded(Starts, Results, p) = {}
  BY DEF Inverted, Unpreceded
<1>2. s \o p \in Seq(Report)
  BY ConcatProperties
<1>3. About(Starts, s \o p) = About(Starts, s) \cup About(Starts, p)
  BY JoinAbout
<1>4. About(Results, s \o p) = About(Results, s) \cup About(Results, p)
  BY JoinAbout
<1>5. Inverted(Starts, Results, s \o p)
        = Inverted(Starts, Results, s) \cup Inverted(Starts, Results, p)
            \cup (About(Results, s) \cap About(Starts, p))
  BY JoinInverted
<1>6. Unpreceded(Starts, Results, s \o p)
        = Unpreceded(Starts, Results, s) \cup (Unpreceded(Starts, Results, p) \ About(Starts, s))
  BY JoinUnpreceded
<1> QED
  BY <1>1, <1>2, <1>3, <1>4, <1>5, <1>6

\* and in front of a third.
LEMMA Between ==
  ASSUME NEW s \in Seq(Report), NEW v \in Seq(Report), NEW u \in Seq(Report),
         About(Starts, v) = About(Starts, s), About(Results, v) = About(Results, s),
         Inverted(Starts, Results, v) = Inverted(Starts, Results, s),
         Unpreceded(Starts, Results, v) = Unpreceded(Starts, Results, s)
  PROVE  /\ About(Starts, v \o u) = About(Starts, s \o u)
         /\ About(Results, v \o u) = About(Results, s \o u)
         /\ Inverted(Starts, Results, v \o u) = Inverted(Starts, Results, s \o u)
         /\ Unpreceded(Starts, Results, v \o u) = Unpreceded(Starts, Results, s \o u)
<1>1. \A w \in {s, v} : About(Starts, w \o u) = About(Starts, w) \cup About(Starts, u)
  BY JoinAbout
<1>2. \A w \in {s, v} : About(Results, w \o u) = About(Results, w) \cup About(Results, u)
  BY JoinAbout
<1>3. \A w \in {s, v} : Inverted(Starts, Results, w \o u)
        = Inverted(Starts, Results, w) \cup Inverted(Starts, Results, u)
            \cup (About(Results, w) \cap About(Starts, u))
  BY JoinInverted
<1>4. \A w \in {s, v} : Unpreceded(Starts, Results, w \o u)
        = Unpreceded(Starts, Results, w) \cup (Unpreceded(Starts, Results, u) \ About(Starts, w))
  BY JoinUnpreceded
<1> QED
  BY <1>1, <1>2, <1>3, <1>4

\* The orchestrator's loop moves reports along the line.
LEMMA LoopLine ==
  ASSUME State, Steady, Ordered,
         Deliver(Replica) \/ NextEntry(Replica) \/ RecoverPending(Replica) \/ Ack(Replica)
  PROVE  SameOrder /\ pending' = <<>>
<1>0. /\ Calm /\ pending = <<>> /\ Replica \in Api
      /\ inbox[Replica] \in Seq(Report) /\ stream["tasks"] \in Seq(Report)
      /\ inbox \in [Api -> Seq(TaskEvent)]
  BY LineTyped, CalmMeans DEF Steady, Ordered, State, Inv, QueuesTyped
<1>9. Line' = Line => SameOrder
  BY DEF SameOrder
<1>1. \A e \in Report : Single(e) \in Seq(Report)
  BY DEF Single
<1>2. CASE \E batch \in Seq(TaskEvent) :
             /\ batch = Oldest(stream["tasks"]) \o Oldest(stream["critic"])
                          \o Oldest(stream["policy"])
             /\ batch # <<>> /\ inbox[Replica] = <<>>
             /\ Picks(Replica, Head(batch)) /\ inbox' = [inbox EXCEPT ![Replica] = Tail(batch)]
             /\ stream' = [q \in Stream |-> Remaining(stream[q])]
             /\ pending' = pending
  <2>1. PICK batch \in Seq(TaskEvent) :
             /\ batch = Oldest(stream["tasks"]) \o Oldest(stream["critic"])
                          \o Oldest(stream["policy"])
             /\ batch # <<>> /\ inbox[Replica] = <<>>
             /\ Picks(Replica, Head(batch)) /\ inbox' = [inbox EXCEPT ![Replica] = Tail(batch)]
             /\ stream' = [q \in Stream |-> Remaining(stream[q])]
             /\ pending' = pending
    BY <1>2
  <2> DEFINE O == Oldest(stream["tasks"])
             R == Remaining(stream["tasks"])
             P == Oldest(stream["policy"])
             h == Head(batch)
             u == Tail(batch)
  <2>2. O \in Seq(TaskEvent) /\ R \in Seq(TaskEvent) /\ P \in Seq(TaskEvent)
    BY <1>0, <2>1, BatchIs
  <2>3. stream["tasks"] = O \o R /\ batch = O \o P
    BY <1>0, <2>1, BatchIs
  <2>4. h \in TaskEvent /\ u \in Seq(TaskEvent) /\ batch = Single(h) \o u
    BY <2>1, FirstAndRest
  <2>5. /\ inbox'[Replica] = u /\ stream'["tasks"] = R
        /\ thread'[Replica].pc = "handle" /\ thread'[Replica].ev = h
        /\ thread[Replica].pc # "handle"
    BY <1>0, <2>1 DEF Picks, Becomes, Handle, Idle, Stream
  <2>6. About(Starts, P) = {} /\ About(Results, P) = {}
    <3>1. P \in Seq(Of(Decisions))
      BY BatchTyped DEF State, Kinds
    <3>2. Starts \cap Of(Decisions) = {} /\ Results \cap Of(Decisions) = {}
      BY Apart
    <3> HIDE DEF P
    <3> QED
      BY <3>1, <3>2, AboutNone
  <2> HIDE DEF O, R, P, h, u
  <2>7. O \in Seq(Report) /\ R \in Seq(Report) /\ P \in Seq(Report) /\ u \in Seq(Report)
          /\ h \in Report
    BY <2>2, <2>4 DEF Report
  <2>8. Line = O \o R
    <3>1. Line = <<>> \o (O \o R)
      BY <2>1, <2>3, <2>5 DEF Line, Rest
    <3>2. O \o R \in Seq(Report)
      BY <2>7, ConcatProperties
    <3> QED
      BY <3>1, <3>2, ConcatEmptySeq
  <2>9. Line' = (O \o P) \o R
    <3>1. Line' = Single(h) \o (u \o R)
      BY <2>5 DEF Line, Rest
    <3>2. Single(h) \o (u \o R) = (Single(h) \o u) \o R
      <4>1. Single(h) \in Seq(Report)
        BY <1>1, <2>7
      <4>2. u \in Seq(Report) /\ R \in Seq(Report)
        BY <2>7
      <4> QED
        BY <4>1, <4>2, ConcatAssociative
    <3> QED
      BY <2>3, <2>4, <3>1, <3>2
  <2>10. /\ O \o P \in Seq(Report)
         /\ About(Starts, O \o P) = About(Starts, O) /\ About(Results, O \o P) = About(Results, O)
         /\ Inverted(Starts, Results, O \o P) = Inverted(Starts, Results, O)
         /\ Unpreceded(Starts, Results, O \o P) = Unpreceded(Starts, Results, O)
    BY <2>6, <2>7, SilentAfter
  <2>11. /\ About(Starts, (O \o P) \o R) = About(Starts, O \o R)
         /\ About(Results, (O \o P) \o R) = About(Results, O \o R)
         /\ Inverted(Starts, Results, (O \o P) \o R) = Inverted(Starts, Results, O \o R)
         /\ Unpreceded(Starts, Results, (O \o P) \o R) = Unpreceded(Starts, Results, O \o R)
    <3> DEFINE V == O \o P
    <3>1. /\ V \in Seq(Report)
          /\ About(Starts, V) = About(Starts, O) /\ About(Results, V) = About(Results, O)
          /\ Inverted(Starts, Results, V) = Inverted(Starts, Results, O)
          /\ Unpreceded(Starts, Results, V) = Unpreceded(Starts, Results, O)
      BY <2>10
    <3> HIDE DEF V
    <3>2. /\ About(Starts, V \o R) = About(Starts, O \o R)
          /\ About(Results, V \o R) = About(Results, O \o R)
          /\ Inverted(Starts, Results, V \o R) = Inverted(Starts, Results, O \o R)
          /\ Unpreceded(Starts, Results, V \o R) = Unpreceded(Starts, Results, O \o R)
      BY <2>7, <3>1, Between
    <3> QED
      BY <3>2 DEF V
  <2> QED
    BY <1>0, <2>1, <2>8, <2>9, <2>11 DEF SameOrder
<1>3. CASE /\ inbox[Replica] # <<>> /\ Picks(Replica, Head(inbox[Replica]))
           /\ inbox' = [inbox EXCEPT ![Replica] = Tail(@)]
           /\ UNCHANGED <<stream, pending>>
  <2> DEFINE q == inbox[Replica]
             T == stream["tasks"]
             h == Head(q)
             u == Tail(q)
  <2>1. h \in Report /\ u \in Seq(Report) /\ q = Single(h) \o u
    BY <1>0, <1>3, FirstAndRest
  <2>2. /\ inbox'[Replica] = u /\ stream'["tasks"] = T /\ pending' = <<>>
        /\ thread'[Replica].pc = "handle" /\ thread'[Replica].ev = h
        /\ thread[Replica].pc # "handle"
    BY <1>0, <1>3 DEF Picks, Becomes, Handle, Idle
  <2>3. Line' = Single(h) \o (u \o T) /\ Line = q \o T
    BY <2>2 DEF Line, Rest
  <2>4. T \in Seq(Report)
    BY <1>0
  <2> HIDE DEF q, T, h, u
  <2>5. Single(h) \o (u \o T) = (Single(h) \o u) \o T
    <3>1. Single(h) \in Seq(Report)
      BY <1>1, <2>1
    <3> QED
      BY <2>1, <2>4, <3>1, ConcatAssociative
  <2>6. Line' = Line
    BY <2>1, <2>3, <2>5
  <2> QED
    BY <1>9, <2>2, <2>6
<1>4. CASE thread[Replica].pc = "ack" /\ Becomes(Replica, Idle) /\ UNCHANGED queues
  BY <1>0, <1>4, <1>9 DEF Becomes, Idle, Line, Rest, queues
<1> QED
  BY <1>0, <1>2, <1>3, <1>4, LoopIs

\* A report is appended.
LEMMA ReportedLine ==
  ASSUME State, Calm, NEW e \in TaskEvent, UNCHANGED <<thread, inbox>>,
         stream' = [stream EXCEPT !["tasks"] = Append(@, e)]
  PROVE  Line' = Append(Line, e)
<1> DEFINE T == stream["tasks"]
           q == inbox[Replica]
<1>1. T \in Seq(Report) /\ q \in Seq(Report) /\ e \in Report /\ Rest \in Seq(Report)
  BY LineTyped DEF Report
<1>2. Rest' = q \o Append(T, e) /\ Rest = q \o T
  BY DEF Rest, State, Inv, QueuesTyped, Stream
<1> HIDE DEF T, q
<1>3. Rest' = Append(Rest, e)
  BY <1>1, <1>2, ConcatAppend
<1>4. thread[Replica].pc = "handle"
        => Single(thread[Replica].ev) \o Append(Rest, e) = Append(Single(thread[Replica].ev) \o Rest, e)
  <2> SUFFICES ASSUME thread[Replica].pc = "handle"
               PROVE  Single(thread[Replica].ev) \o Append(Rest, e)
                        = Append(Single(thread[Replica].ev) \o Rest, e)
    OBVIOUS
  <2>1. Single(thread[Replica].ev) \in Seq(Report)
    BY LineTyped DEF Single
  <2> QED
    BY <1>1, <2>1, ConcatAppend
<1> QED
  BY <1>3, <1>4 DEF Line

\* What an appended event does to the order.
LEMMA AppendedOrder ==
  ASSUME NEW s \in Seq(Report), NEW e \in TaskEvent
  PROVE  /\ \A K : About(K, Append(s, e)) = About(K, s) \cup One(K, e)
         /\ Inverted(Starts, Results, Append(s, e))
              = Inverted(Starts, Results, s) \cup (About(Results, s) \cap One(Starts, e))
         /\ Unpreceded(Starts, Results, Append(s, e))
              = Unpreceded(Starts, Results, s) \cup (One(Results, e) \ About(Starts, s))
<1>1. e \in Report
  BY DEF Report
<1>2. \A K : About(K, Append(s, e)) = About(K, s) \cup One(K, e)
  BY <1>1, AboutAppend
<1>3. Inverted(Starts, Results, Append(s, e))
        = Inverted(Starts, Results, s) \cup (About(Results, s) \cap One(Starts, e))
  BY <1>1, InvertedAppend
<1>4. Unpreceded(Starts, Results, Append(s, e))
        = Unpreceded(Starts, Results, s) \cup (One(Results, e) \ About(Starts, s))
  BY <1>1, UnprecededAppend
<1> QED
  BY <1>2, <1>3, <1>4

\* A line from its first entry on.
LEMMA LineFirst ==
  ASSUME NEW h \in Report, NEW u \in Seq(Report)
  PROVE  /\ \A K : About(K, Single(h) \o u) = One(K, h) \cup About(K, u)
         /\ Inverted(Starts, Results, Single(h) \o u)
              = Inverted(Starts, Results, u) \cup (One(Results, h) \cap About(Starts, u))
         /\ Unpreceded(Starts, Results, Single(h) \o u)
              = One(Results, h) \cup (Unpreceded(Starts, Results, u) \ One(Starts, h))
<1>1. \A K : About(K, Single(h) \o u) = One(K, h) \cup About(K, u)
  BY AboutFirst
<1>2. Inverted(Starts, Results, Single(h) \o u)
        = Inverted(Starts, Results, u) \cup (One(Results, h) \cap About(Starts, u))
  BY InvertedFirst
<1>3. Unpreceded(Starts, Results, Single(h) \o u)
        = One(Results, h) \cup (Unpreceded(Starts, Results, u) \ One(Starts, h))
  BY UnprecededFirst, SMTT(60)
<1> QED
  BY <1>1, <1>2, <1>3

\* A handler takes its entry from the line.
LEMMA HandledLine ==
  ASSUME State, Calm, HandleEvent(Replica)
  PROVE  /\ Line' = Rest
         /\ thread[Replica].pc = "handle" =>
              /\ About(Starts, Line) = One(Starts, thread[Replica].ev) \cup About(Starts, Line)'
              /\ About(Results, Line) = One(Results, thread[Replica].ev) \cup About(Results, Line)'
              /\ Inverted(Starts, Results, Line)
                   = Inverted(Starts, Results, Line)'
                       \cup (One(Results, thread[Replica].ev) \cap About(Starts, Line)')
              /\ Unpreceded(Starts, Results, Line)
                   = One(Results, thread[Replica].ev)
                       \cup (Unpreceded(Starts, Results, Line)' \ One(Starts, thread[Replica].ev))
         /\ thread[Replica].pc = "giveUp" => SameOrder
<1> DEFINE ev == thread[Replica].ev
<1>1. HandlerFrameOf(Replica)
  BY HandlerIs, CalmMeans
<1>2. /\ Rest' = Rest /\ thread'[Replica].pc # "handle"
      /\ thread[Replica].pc \in {"handle", "giveUp"}
  BY <1>1 DEF HandlerFrameOf, Rest, queues
<1>3. Line' = Rest
  BY <1>2 DEF Line
<1>4. Rest \in Seq(Report) /\ (thread[Replica].pc = "handle" => ev \in Report)
  BY LineTyped
<1> HIDE DEF Report
<1>5. ASSUME thread[Replica].pc = "handle"
      PROVE  /\ About(Starts, Line) = One(Starts, ev) \cup About(Starts, Rest)
             /\ About(Results, Line) = One(Results, ev) \cup About(Results, Rest)
             /\ Inverted(Starts, Results, Line)
                  = Inverted(Starts, Results, Rest) \cup (One(Results, ev) \cap About(Starts, Rest))
             /\ Unpreceded(Starts, Results, Line)
                  = One(Results, ev) \cup (Unpreceded(Starts, Results, Rest) \ One(Starts, ev))
  <2>1. Line = Single(ev) \o Rest /\ ev \in Report
    BY <1>4, <1>5 DEF Line
  <2> HIDE DEF ev
  <2>2. Rest \in Seq(Report) /\ ev \in Report
    BY <1>4, <2>1
  <2> QED
    BY <2>1, <2>2, LineFirst
<1>6. /\ About(Starts, Line)' = About(Starts, Rest) /\ About(Results, Line)' = About(Results, Rest)
      /\ Inverted(Starts, Results, Line)' = Inverted(Starts, Results, Rest)
      /\ Unpreceded(Starts, Results, Line)' = Unpreceded(Starts, Results, Rest)
  BY <1>3
<1>7. thread[Replica].pc = "giveUp" => Line = Rest
  BY DEF Line
<1> QED
  BY <1>3, <1>4, <1>5, <1>6, <1>7 DEF SameOrder

\* The line when nobody touches it.
LEMMA LineStays ==
  ASSUME State, Calm, stream'["tasks"] = stream["tasks"], inbox'[Replica] = inbox[Replica],
         \/ thread'[Replica] = thread[Replica]
         \/ thread[Replica].pc # "handle" /\ thread'[Replica].pc # "handle"
  PROVE  Line' = Line /\ SameOrder
<1>1. Rest' = Rest
  BY DEF Rest
<1>2. Line' = Line
  BY <1>1 DEF Line
<1> QED
  BY <1>2 DEF SameOrder

\* What a step that goes on with a handler adds to the line: no start, and a result only where
\* it emits one.
LEMMA ProceedLine ==
  ASSUME State, Calm, ProceedFrameOf(Replica), ProceedEffect(Replica)
  PROVE  \/ SameOrder
         \/ /\ EmitEffect(Replica)
            /\ \E e \in thread[Replica].out :
                 /\ e \in Of({"failed"}) /\ Line' = Append(Line, e)
                 /\ thread'[Replica].out = thread[Replica].out \ {e}
<1>1. /\ thread[Replica].end \in End /\ Replica \in Thread
      /\ thread[Replica].out \subseteq Of(Emitted)
  BY CalmMeans DEF State, Inv, Threads, ThreadRecord, Kinds, Hand
<1>2. thread'[Replica].pc # "handle" /\ inbox' = inbox
  BY <1>1 DEF ProceedFrameOf, End
<1>3. thread[Replica].pc # "handle"
  BY DEF ProceedEffect, ReadEffect, CommitEffect, EmitEffect, RefreshEffect
<1>4. CASE stream' = stream
  BY <1>2, <1>3, <1>4, LineStays
<1>5. CASE EmitEffect(Replica)
  <2>1. PICK e \in thread[Replica].out :
             /\ thread'[Replica].out = thread[Replica].out \ {e}
             /\ stream' = IF e.type = "failed"
                          THEN [stream EXCEPT !["tasks"] = Append(@, e)] ELSE stream
    BY <1>5 DEF EmitEffect
  <2>2. CASE e.type # "failed"
    BY <1>4, <2>1, <2>2
  <2>3. CASE e.type = "failed"
    <3>1. e \in Of({"failed"}) /\ e \in TaskEvent
      BY <1>1, <2>3 DEF Of
    <3>2. stream'["tasks"] = Append(stream["tasks"], e)
      BY <2>1, <2>3 DEF State, Inv, QueuesTyped, Stream
    <3>3. Line = Rest /\ Line' = Rest'
      BY <1>2, <1>3 DEF Line
    <3>4. Rest' = inbox[Replica] \o Append(stream["tasks"], e)
      BY <1>2, <3>2 DEF Rest
    <3>5. inbox[Replica] \in Seq(Report) /\ stream["tasks"] \in Seq(Report) /\ e \in Report
      BY <3>1, LineTyped DEF Report
    <3> DEFINE q == inbox[Replica]
               T == stream["tasks"]
    <3>6. Rest = q \o T /\ Rest' = q \o Append(T, e)
      BY <3>4 DEF Rest
    <3>7. q \in Seq(Report) /\ T \in Seq(Report) /\ e \in Report
      BY <3>5
    <3> HIDE DEF q, T, Report
    <3>8. q \o Append(T, e) = Append(q \o T, e)
      BY <3>7, ConcatAppend
    <3>9. Line' = Append(Line, e)
      BY <3>3, <3>6, <3>8
    <3> QED
      BY <1>5, <2>1, <3>1, <3>9
  <2> QED
    BY <2>2, <2>3
<1> QED
  BY <1>4, <1>5 DEF ProceedEffect, ReadEffect, CommitEffect, RefreshEffect, queues

\* A worker announces the execution it begins, reports on one that ends, or ends one and says
\* nothing.
LEMMA WorkerLine ==
  ASSUME State, Calm, WorkerStep \/ WorkerFault
  PROVE  /\ UNCHANGED <<thread, inbox, pending>>
         /\ \/ SameOrder /\ \E w \in Worker : /\ held[w] # NoEvent
                                             /\ held' = [held EXCEPT ![w] = NoEvent]
            \/ \E w \in Worker, e \in Of({"ready"}) :
                 /\ \/ Take(w) /\ e = Head(ready)
                    \/ Claim(w) /\ e = Head(orphaned)
                 /\ held[w] = NoEvent /\ held' = [held EXCEPT ![w] = e]
                 /\ Line' = Append(Line, Mk("started", e.task, e.n, FALSE))
            \/ \E w \in Worker, e \in Results :
                 /\ Finish(w)
                 /\ held[w] # NoEvent /\ held' = [held EXCEPT ![w] = NoEvent]
                 /\ e.task = held[w].task /\ Line' = Append(Line, e)
<1>0. /\ ready \in Seq(Of({"ready"})) /\ orphaned \in Seq(Of({"ready"}))
      /\ stream \in [Stream -> Seq(TaskEvent)]
  BY DEF State, Inv, QueuesTyped, Kinds
<1>1. ASSUME stream' = stream, UNCHANGED <<thread, inbox>>
      PROVE  SameOrder
  BY <1>1, LineStays
<1>2. ASSUME NEW w \in Worker, NEW e \in Of({"ready"}), Begin(w, e), held[w] = NoEvent,
             UNCHANGED <<thread, inbox>>
      PROVE  /\ held' = [held EXCEPT ![w] = e]
             /\ Line' = Append(Line, Mk("started", e.task, e.n, FALSE))
  <2>1. e.task \in Task /\ e.n \in Nat
    BY DEF Of, TaskEvent
  <2>2. Mk("started", e.task, e.n, FALSE) \in TaskEvent
    BY <2>1 DEF Mk, TaskEvent, EventType
  <2>3. stream' = [stream EXCEPT !["tasks"] = Append(@, Mk("started", e.task, e.n, FALSE))]
    BY <1>2 DEF Begin
  <2>4. Line' = Append(Line, Mk("started", e.task, e.n, FALSE))
    BY <1>2, <2>2, <2>3, ReportedLine
  <2> QED
    BY <1>2, <2>4 DEF Begin
<1>3. CASE \E w \in Worker : Take(w)
  <2>1. PICK w \in Worker : Take(w)
    BY <1>3
  <2>2. /\ Head(ready) \in Of({"ready"}) /\ Begin(w, Head(ready)) /\ held[w] = NoEvent
        /\ UNCHANGED <<thread, inbox, pending>>
    BY <1>0, <2>1, QueueTyped DEF Take
  <2>3. /\ held' = [held EXCEPT ![w] = Head(ready)]
        /\ Line' = Append(Line, Mk("started", Head(ready).task, Head(ready).n, FALSE))
    BY <1>2, <2>2
  <2> QED
    BY <2>1, <2>2, <2>3
<1>4. CASE \E w \in Worker : Claim(w)
  <2>1. PICK w \in Worker : Claim(w)
    BY <1>4
  <2>2. /\ Head(orphaned) \in Of({"ready"}) /\ Begin(w, Head(orphaned)) /\ held[w] = NoEvent
        /\ UNCHANGED <<thread, inbox, pending>>
    BY <1>0, <2>1, QueueTyped DEF Claim
  <2>3. /\ held' = [held EXCEPT ![w] = Head(orphaned)]
        /\ Line' = Append(Line, Mk("started", Head(orphaned).task, Head(orphaned).n, FALSE))
    BY <1>2, <2>2
  <2> QED
    BY <2>1, <2>2, <2>3
<1>5. ASSUME NEW w \in Worker, held[w] # NoEvent, NEW type \in {"completed", "failed"},
             NEW b \in BOOLEAN, UNCHANGED <<thread, inbox>>,
             stream' = [stream EXCEPT !["tasks"] = Append(@, Mk(type, held[w].task, held[w].n, b))]
      PROVE  /\ Mk(type, held[w].task, held[w].n, b) \in Results
             /\ Mk(type, held[w].task, held[w].n, b).task = held[w].task
             /\ Line' = Append(Line, Mk(type, held[w].task, held[w].n, b))
  <2>1. held[w].task \in Task /\ held[w].n \in Nat
    BY <1>5, HeldIsCopy
  <2>2. /\ Mk(type, held[w].task, held[w].n, b) \in TaskEvent
        /\ Mk(type, held[w].task, held[w].n, b) \in Results
        /\ Mk(type, held[w].task, held[w].n, b).task = held[w].task
    BY <2>1 DEF Mk, TaskEvent, EventType, Results, Of
  <2> QED
    BY <1>5, <2>2, ReportedLine
<1>6. CASE \E w \in Worker : Finish(w)
  <2>1. PICK w \in Worker : Finish(w)
    BY <1>6
  <2>2. /\ held[w] # NoEvent /\ held' = [held EXCEPT ![w] = NoEvent]
        /\ UNCHANGED <<thread, inbox, pending>>
        /\ \/ UNCHANGED stream
           \/ \E type \in {"completed", "failed"}, b \in BOOLEAN :
                stream' = [stream EXCEPT !["tasks"] = Append(@, Mk(type, held[w].task, held[w].n, b))]
    BY <2>1 DEF Finish, Complete, Fail
  <2>3. CASE UNCHANGED stream
    BY <1>1, <2>2, <2>3
  <2>4. CASE \E type \in {"completed", "failed"}, b \in BOOLEAN :
               stream' = [stream EXCEPT !["tasks"] = Append(@, Mk(type, held[w].task, held[w].n, b))]
    <3>1. PICK type \in {"completed", "failed"}, b \in BOOLEAN :
               stream' = [stream EXCEPT !["tasks"] = Append(@, Mk(type, held[w].task, held[w].n, b))]
      BY <2>4
    <3>2. /\ Mk(type, held[w].task, held[w].n, b) \in Results
          /\ Mk(type, held[w].task, held[w].n, b).task = held[w].task
          /\ Line' = Append(Line, Mk(type, held[w].task, held[w].n, b))
      BY <1>5, <2>2, <3>1
    <3> QED
      BY <2>1, <2>2, <3>2
  <2> QED
    BY <2>2, <2>3, <2>4
<1>7. CASE WorkerFault
  <2>1. \A w, v \in Worker : ~Steal(w, v)
    <3>1. ~Disturb("steal")
      BY Spared DEF Calm, Disturbance
    <3> QED
      BY <3>1 DEF Steal
  <2>2. /\ UNCHANGED <<thread, queues>>
        /\ \E w \in Worker : held[w] # NoEvent /\ held' = [held EXCEPT ![w] = NoEvent]
    BY <1>7, <2>1 DEF WorkerFault, WorkerCrash, LoseResult
  <2> QED
    BY <1>1, <2>2 DEF queues
<1> QED
  BY <1>3, <1>4, <1>6, <1>7 DEF WorkerStep

\* A result that is in line is a copy: in the hand, in the inbox or on the stream.
LEMMA LineCopies ==
  ASSUME State, Calm
  PROVE  /\ About(Results, Line)
              \subseteq At(Copies, "hand") \cup At(Copies, "inbox") \cup At(Copies, "tasks")
         /\ About(Results, Rest) \subseteq At(Copies, "inbox") \cup At(Copies, "tasks")
<1> DEFINE ev == thread[Replica].ev
           q == inbox[Replica]
           T == stream["tasks"]
<1>1. /\ q \in Seq(Report) /\ T \in Seq(Report) /\ Rest \in Seq(Report) /\ Rest = q \o T
      /\ thread[Replica].pc = "handle" => ev \in Report
  BY LineTyped DEF Rest
<1>2. Results \subseteq Copies
  BY DEF Results, Copies, Of
<1>3. /\ \A f : About(Results, f) \subseteq About(Copies, f)
      /\ \A e : One(Results, e) \subseteq One(Copies, e)
  BY <1>2 DEF About, One
<1>4. /\ At(Copies, "inbox") = About(Copies, q) /\ At(Copies, "tasks") = About(Copies, T)
      /\ thread[Replica].pc = "handle" => At(Copies, "hand") = One(Copies, ev)
  BY AtIs DEF InHandOf
<1>5. /\ thread[Replica].pc = "handle" => Line = Single(ev) \o Rest
      /\ thread[Replica].pc # "handle" => Line = Rest
  BY DEF Line
<1> HIDE DEF q, T, ev, Report
<1>6. About(Results, q \o T) = About(Results, q) \cup About(Results, T)
  BY <1>1, JoinAbout
<1>7. ev \in Report => About(Results, Single(ev) \o Rest) = One(Results, ev) \cup About(Results, Rest)
  BY <1>1, LineFirst
<1>8. About(Results, Rest) \subseteq At(Copies, "inbox") \cup At(Copies, "tasks")
  <2>1. About(Results, q) \subseteq About(Copies, q) /\ About(Results, T) \subseteq About(Copies, T)
    BY <1>3
  <2> QED
    BY <1>1, <1>4, <1>6, <2>1
<1>9. CASE thread[Replica].pc = "handle"
  <2>1. One(Results, ev) \subseteq At(Copies, "hand")
    BY <1>3, <1>4, <1>9
  <2>2. About(Results, Line) = One(Results, ev) \cup About(Results, Rest)
    BY <1>1, <1>5, <1>7, <1>9
  <2> QED
    BY <1>8, <2>1, <2>2
<1>10. CASE thread[Replica].pc # "handle"
  BY <1>5, <1>8, <1>10
<1> QED
  BY <1>8, <1>9, <1>10

-----------------------------------------------------------------------------
(* Dependencies first.                                                     *)

\* A step that leaves the rows alone, and makes no copy.
LEMMA QuietOrdered ==
  ASSUME Ordered, Tidy, UNCHANGED <<job, task>>, pending' = <<>>,
         thread'[Replica].batch \subseteq thread[Replica].batch,
         All(Copies)' \subseteq All(Copies),
         About(Starts, Line)' \subseteq About(Starts, Line) \cup All(Copies),
         Inverted(Starts, Results, Line)' = {}
  PROVE  Ordered'
<1>1. ASSUME NEW t \in Task
      PROVE  /\ task'[t] = "pending" => t \notin About(Starts, Line)'
             /\ task'[t] \in Done => t \notin All(Copies)' \cup About(Starts, Line)'
  BY DEF Ordered, Waiting, Tidy, Untouched
<1>2. ASSUME NEW t \in Task, task'[t] # "pending" \/ t \in thread'[Replica].batch
      PROVE  \A d \in Deps[t] : task'[d] \in Done
  BY <1>2 DEF Ordered
<1> QED
  BY <1>1, <1>2 DEF Ordered, Waiting

\* The orchestrator's loop.
LEMMA LoopOrdered ==
  ASSUME State, Steady, Tidy, Ordered,
         Deliver(Replica) \/ NextEntry(Replica) \/ RecoverPending(Replica) \/ Ack(Replica)
  PROVE  Ordered'
<1>1. Replica \in Api /\ Calm
  BY CalmMeans DEF Steady
<1>2. SameOrder /\ pending' = <<>>
  BY LoopLine
<1>3. Kept
  BY <1>1, LoopKept
<1>4. UNCHANGED <<job, task>> /\ thread'[Replica].batch = {}
  <2>1. UNCHANGED rows /\ \E r : Becomes(Replica, r) /\ (r = Idle \/ \E e : r = Handle(e))
    BY <1>1, LoopIs DEF Picks
  <2>2. Idle.batch = {} /\ \A e : Handle(e).batch = {}
    BY DEF Idle, Handle
  <2> QED
    BY <2>1, <2>2 DEF Becomes, rows
<1> QED
  BY <1>2, <1>3, <1>4, QuietOrdered DEF SameOrder, Kept, Ordered

\* A copy is at one place.
LEMMA OnlyThere ==
  ASSUME Tidy, NEW t, NEW p \in Place, t \in At(Copies, p)
  PROVE  /\ t \in All(Copies)
         /\ \A q \in Place : q # p => t \notin At(Copies, q)
BY DEF Tidy, Separate, All

\* The copy that a worker has in hand, or takes.
LEMMA CopyOfReady ==
  ASSUME State, NEW e \in Of({"ready"})
  PROVE  One(Copies, e) = {e.task}
BY DEF One, Copies, Of

\* The workers announce what was handed out, and report on what they have.
LEMMA WorkersOrdered ==
  ASSUME State, Steady, Tidy, Ordered, WorkerStep \/ WorkerFault
  PROVE  Ordered'
<1>1. /\ UNCHANGED <<rows, thread, pending>> /\ Kept /\ Calm
      /\ Line \in Seq(Report) /\ Inverted(Starts, Results, Line) = {} /\ pending = <<>>
  BY OthersLeave, WorkersKept, WorkerLine, LineTyped DEF Steady, Ordered
<1>2. ASSUME About(Starts, Line)' \subseteq About(Starts, Line) \cup All(Copies),
             Inverted(Starts, Results, Line)' = {}
      PROVE  Ordered'
  BY <1>1, <1>2, QuietOrdered DEF Kept, rows
<1>3. CASE SameOrder
  BY <1>1, <1>2, <1>3 DEF SameOrder
<1>4. CASE \E w \in Worker, e \in Of({"ready"}) :
             /\ \/ Take(w) /\ e = Head(ready)
                \/ Claim(w) /\ e = Head(orphaned)
             /\ held[w] = NoEvent /\ held' = [held EXCEPT ![w] = e]
             /\ Line' = Append(Line, Mk("started", e.task, e.n, FALSE))
  <2>1. PICK w \in Worker, e \in Of({"ready"}) :
             /\ \/ Take(w) /\ e = Head(ready)
                \/ Claim(w) /\ e = Head(orphaned)
             /\ Line' = Append(Line, Mk("started", e.task, e.n, FALSE))
    BY <1>4
  <2> DEFINE s == Mk("started", e.task, e.n, FALSE)
  <2>2. s \in TaskEvent /\ One(Starts, s) \subseteq {e.task}
    BY DEF Mk, TaskEvent, EventType, Of, One
  <2>3. e.task \in At(Copies, "ready") \/ e.task \in At(Copies, "orphaned")
    <3>1. One(Copies, e) = {e.task}
      BY CopyOfReady
    <3>2. /\ ready # <<>> => One(Copies, Head(ready)) \subseteq About(Copies, ready)
          /\ orphaned # <<>> => One(Copies, Head(orphaned)) \subseteq About(Copies, orphaned)
      BY FirstTaken DEF State, Inv, QueuesTyped
    <3>3. \/ ready # <<>> /\ e = Head(ready)
          \/ orphaned # <<>> /\ e = Head(orphaned)
      BY <2>1 DEF Take, Claim
    <3>4. e.task \in About(Copies, ready) \/ e.task \in About(Copies, orphaned)
      BY <3>1, <3>2, <3>3
    <3> QED
      BY <3>4, AtIs
  <2>4. e.task \in All(Copies) /\ e.task \notin About(Results, Line)
    <3>1. "ready" \in Place /\ "orphaned" \in Place /\ "hand" \in Place /\ "inbox" \in Place
            /\ "tasks" \in Place
      BY DEF Place
    <3>2. /\ e.task \in All(Copies)
          /\ e.task \notin At(Copies, "hand") /\ e.task \notin At(Copies, "inbox")
          /\ e.task \notin At(Copies, "tasks")
      BY <2>3, <3>1, OnlyThere
    <3> QED
      BY <1>1, <3>2, LineCopies
  <2> HIDE DEF s
  <2>5. /\ About(Starts, Append(Line, s)) = About(Starts, Line) \cup One(Starts, s)
        /\ Inverted(Starts, Results, Append(Line, s))
             = Inverted(Starts, Results, Line) \cup (About(Results, Line) \cap One(Starts, s))
    BY <1>1, <2>2, AppendedOrder
  <2>6. Line' = Append(Line, s)
    BY <2>1 DEF s
  <2> QED
    BY <1>1, <1>2, <2>2, <2>4, <2>5, <2>6
<1>5. CASE \E w \in Worker, e \in Results :
             /\ Finish(w)
             /\ held[w] # NoEvent /\ held' = [held EXCEPT ![w] = NoEvent]
             /\ e.task = held[w].task /\ Line' = Append(Line, e)
  <2>1. PICK e \in Results : Line' = Append(Line, e)
    BY <1>5
  <2>2. e \in TaskEvent /\ One(Starts, e) = {}
    BY DEF Results, Starts, Of, One
  <2>3. /\ About(Starts, Append(Line, e)) = About(Starts, Line) \cup One(Starts, e)
        /\ Inverted(Starts, Results, Append(Line, e))
             = Inverted(Starts, Results, Line) \cup (About(Results, Line) \cap One(Starts, e))
    BY <1>1, <2>2, AppendedOrder
  <2> QED
    BY <1>1, <1>2, <2>1, <2>2, <2>3
<1> QED
  BY <1>1, <1>3, <1>4, <1>5, WorkerLine

\* The services keep out of the line.
LEMMA ServicesOrdered ==
  ASSUME State, Steady, Tidy, Ordered, ServiceStep \/ Rests
  PROVE  Ordered'
<1>1. Calm /\ pending = <<>> /\ Inverted(Starts, Results, Line) = {}
  BY DEF Steady, Ordered
<1>2. /\ UNCHANGED <<rows, thread, pending, inbox>> /\ stream'["tasks"] = stream["tasks"]
  BY DEF ServiceStep, DecidePolicy, Review, LoseCheck, LoseReview, queues, Rests,
         State, Inv, QueuesTyped, Stream
<1>3. SameOrder
  BY <1>1, <1>2, LineStays
<1>4. All(Copies)' \subseteq All(Copies)
  <2>1. CASE ServiceStep
    BY <1>1, <2>1, ServicesKept DEF Kept
  <2>2. CASE Rests
    BY <2>2, AtIs, AtWillBe DEF All, Place, InHandOf, Rests, queues, workers, services
  <2> QED
    BY <2>1, <2>2
<1> QED
  BY <1>1, <1>2, <1>3, <1>4, QuietOrdered DEF SameOrder, rows

\* A handler writes the row of the task of its entry: it leaves it in hand, failed or at work,
\* or completes it; the task is not done, unless it has failed before.
LEMMA HandlerRows ==
  ASSUME State, Steady, Tidy, Sunk, Ordered, HandleEvent(Replica)
  PROVE  /\ \A t \in Task : t # thread[Replica].ev.task => task'[t] = task[t]
         /\ \A t \in Task : t = thread[Replica].ev.task /\ task'[t] # task[t] =>
              /\ task[t] \notin Done /\ task[t] # "pending"
              /\ task'[t] \in {"ready", "running", "failed", "completed"}
              /\ task'[t] = "completed" =>
                   /\ thread[Replica].pc = "handle" /\ thread[Replica].ev \in Of({"completed"})
                   /\ thread'[Replica].out = {}
         /\ \/ job' = job
            \/ /\ thread[Replica].ev.task \in Task /\ task[thread[Replica].ev.task] \notin Done
               /\ job' = SetJobStatus(job, "running") \/ job' = SetJobStatus(job, "failed")
         /\ thread'[Replica].batch = {}
<1> DEFINE ev == thread[Replica].ev
<1>0. Calm /\ Replica \in Api /\ Replica \in Thread
  BY CalmMeans DEF Steady
<1>1. HandlerFrameOf(Replica) /\ HandlerEffect(Replica)
  BY <1>0, HandlerIs
<1>2. ev \notin Of({"accepted", "rework_requested"})
  BY <1>0, NoRework
<1>3. /\ ev = PlanCreated \/ (ev \in TaskEvent /\ ev.task \in Task)
      /\ task \in [Task -> TaskStatus]
  BY <1>1 DEF HandlerFrameOf, State, Inv, RowsTyped
<1>4. thread'[Replica].batch = {}
  BY <1>0, HandlerLeavesPending
\* A start is of a task that waits for one; every other entry is a copy.
<1>5. thread[Replica].pc = "handle" /\ ev \in Starts =>
        task[ev.task] # "pending" /\ task[ev.task] \notin Done
  <2>1. thread[Replica].pc = "handle" /\ ev \in Starts => ev.task \in Waiting
    BY <1>0, HandledLine DEF Waiting, One
  <2>2. \A t \in Task : t \in Waiting => task[t] # "pending" /\ task[t] \notin Done
    BY DEF Ordered
  <2>3. ev \in Starts => ev.task \in Task
    BY DEF Starts, Of, TaskEvent
  <2> QED
    BY <2>1, <2>2, <2>3
<1>6. thread[Replica].pc = "handle" /\ ev \in Copies =>
        task[ev.task] # "pending" /\ task[ev.task] \notin Done
  <2>1. thread[Replica].pc = "handle" /\ ev \in Copies => ev.task \in At(Copies, "hand")
    BY AtIs DEF InHandOf, One
  <2>2. thread[Replica].pc = "handle" /\ ev \in Copies => ev.task \in All(Copies) /\ ev.task \in Task
    BY <1>3, <2>1, OnlyThere DEF Place, Copies, Of, TaskEvent
  <2> QED
    BY <2>2 DEF Ordered, Tidy, Untouched
<1>7. thread[Replica].pc = "giveUp" /\ thread[Replica].end = "giveUp" =>
        task[ev.task] = "failed" /\ ev.task \in Task
  <2>1. thread[Replica].end = "giveUp" => ev \in TaskEvent
    BY <1>0 DEF State, Inv, Threads, Consistent
  <2> QED
    BY <2>1 DEF Sunk, TaskEvent
<1>8. \A type, n : Mk(type, ev.task, n, FALSE).task = ev.task
  BY DEF Mk
<1>9. CASE thread[Replica].pc = "handle" /\ ev = PlanCreated /\ UNCHANGED <<task, job>>
  BY <1>4, <1>9
<1>10. CASE /\ thread[Replica].pc = "handle" /\ ev \in Of({"started"})
            /\ task' = [task EXCEPT ![ev.task] = "running"] /\ job' = SetJobStatus(job, "running")
  <2>1. task[ev.task] # "pending" /\ task[ev.task] \notin Done /\ ev.task \in Task
    BY <1>5, <1>10 DEF Starts, Of, TaskEvent
  <2> QED
    BY <1>3, <1>4, <1>10, <2>1
<1>11. CASE /\ thread[Replica].pc = "handle" /\ ev \in Of({"completed"})
            /\ task' = [task EXCEPT ![ev.task] = "completed"] /\ job' = job
            /\ thread'[Replica].out = {}
  <2>1. task[ev.task] # "pending" /\ task[ev.task] \notin Done /\ ev.task \in Task
    BY <1>6, <1>11 DEF Copies, Of, TaskEvent
  <2> QED
    BY <1>3, <1>4, <1>11, <2>1
<1>12. CASE /\ thread[Replica].pc = "handle" /\ ev \in Of({"failed", "allow", "deny"})
            /\ \/ task' = task
               \/ \E s \in {"ready", "failed"} : task' = [task EXCEPT ![ev.task] = s]
            /\ \/ job' = job \/ job' = SetJobStatus(job, "running")
               \/ job' = SetJobStatus(job, "failed")
  <2>1. task[ev.task] # "pending" /\ task[ev.task] \notin Done /\ ev.task \in Task
    BY <1>6, <1>12 DEF Copies, Of, TaskEvent
  <2> QED
    BY <1>3, <1>4, <1>12, <2>1
<1>13. CASE /\ thread[Replica].pc = "giveUp" /\ thread[Replica].end = "giveUp"
            /\ task' = [task EXCEPT ![ev.task] = "failed"] /\ job' = SetJobStatus(job, "failed")
  <2>1. task[ev.task] = "failed" /\ ev.task \in Task
    BY <1>7, <1>13
  <2> QED
    BY <1>3, <1>4, <1>13, <2>1 DEF Done
<1> HIDE DEF ev
<1>14. \/ thread[Replica].pc = "handle" /\ ev = PlanCreated /\ UNCHANGED <<task, job>>
       \/ /\ thread[Replica].pc = "handle" /\ ev \in Of({"started"})
          /\ task' = [task EXCEPT ![ev.task] = "running"] /\ job' = SetJobStatus(job, "running")
       \/ /\ thread[Replica].pc = "handle" /\ ev \in Of({"completed"})
          /\ task' = [task EXCEPT ![ev.task] = "completed"] /\ job' = job
          /\ thread'[Replica].out = {}
       \/ /\ thread[Replica].pc = "handle" /\ ev \in Of({"failed", "allow", "deny"})
          /\ \/ task' = task
             \/ \E s \in {"ready", "failed"} : task' = [task EXCEPT ![ev.task] = s]
          /\ \/ job' = job \/ job' = SetJobStatus(job, "running")
             \/ job' = SetJobStatus(job, "failed")
       \/ /\ thread[Replica].pc = "giveUp" /\ thread[Replica].end = "giveUp"
          /\ task' = [task EXCEPT ![ev.task] = "failed"] /\ job' = SetJobStatus(job, "failed")
  <2>1. \A e : /\ e \in Of({"failed"}) => e \in Of({"failed", "allow", "deny"})
               /\ e \in Of({"allow", "deny"}) => e \in Of({"failed", "allow", "deny"})
               /\ e \in Of({"accepted"}) => e \in Of({"accepted", "rework_requested"})
               /\ e \in Of({"rework_requested"}) => e \in Of({"accepted", "rework_requested"})
    BY DEF Of
  <2> QED
    BY <1>0, <1>1, <1>2, <2>1, CommitsWhatIs DEF HandlerEffect, Writes, ev
<1> QED
  BY <1>9, <1>10, <1>11, <1>12, <1>13, <1>14 DEF ev

\* No copy is left of a task whose result is recorded, and no start follows the result.
LEMMA Recorded ==
  ASSUME State, Steady, Tidy, Ordered, HandleEvent(Replica), thread[Replica].pc = "handle",
         thread[Replica].ev \in Results, thread'[Replica].out = {}
  PROVE  thread[Replica].ev.task \notin All(Copies)' \cup About(Starts, Line)' \cup About(Results, Line)'
<1> DEFINE ev == thread[Replica].ev
<1>0. Calm /\ ~Redelivers /\ HandlerFrameOf(Replica) /\ Inverted(Starts, Results, Line) = {}
  BY CalmMeans, HandlerIs DEF Steady, Ordered
<1>1. One(Results, ev) = {ev.task} /\ One(Copies, ev) = {ev.task}
  BY DEF One, Results, Copies, Of
<1>2. ev.task \notin About(Starts, Line)'
  <2>1. One(Results, ev) \cap About(Starts, Line)' = {}
    BY <1>0, HandledLine
  <2> QED
    BY <1>1, <2>1
<1>3. ev.task \in At(Copies, "hand")
  BY <1>1, AtIs DEF InHandOf
<1>4. /\ \A q \in Place : q # "hand" => ev.task \notin At(Copies, q)
      /\ "hand" \in Place
  BY <1>3, OnlyThere DEF Place
<1>5. /\ UNCHANGED <<queues, workers, services>> /\ thread'[Replica].pc # "handle"
  BY <1>0 DEF HandlerFrameOf
<1>6. InHandOf(Copies)' = {} /\ AboutAny(Copies, thread'[Replica].out) = {}
  BY <1>0, <1>5 DEF InHandOf, AboutAny
<1>7. \A q \in Place : ev.task \notin At(Copies, q)'
  BY <1>4, <1>5, <1>6, AtIs, AtWillBe DEF Place, queues, workers, services
<1>8. ev.task \notin About(Results, Line)'
  <2>1. About(Results, Line)' = About(Results, Rest)
    BY <1>0, HandledLine
  <2>2. ev.task \notin About(Results, Rest)
    BY <1>0, <1>4, LineCopies DEF Place
  <2> QED
    BY <2>1, <2>2
<1> QED
  BY <1>2, <1>7, <1>8 DEF All

\* A job succeeds only when a refresh finds all its tasks done.
LEMMA SucceedsWhenDone ==
  ASSUME State
  PROVE  /\ SetJobStatus(job, "running") = "succeeded" => job = "succeeded"
         /\ SetJobStatus(job, "failed") = "succeeded" => job = "succeeded"
         /\ SetJobStatus(job, DerivedJobStatus({task[t] : t \in Task})) = "succeeded"
              => job = "succeeded" \/ \A t \in Task : task[t] \in Done
<1>1. DerivedJobStatus({task[t] : t \in Task}) = "succeeded" => {task[t] : t \in Task} \subseteq Done
  BY DEF DerivedJobStatus
<1> QED
  BY <1>1 DEF SetJobStatus

\* A handler records.
LEMMA HandlerOrdered ==
  ASSUME State, Steady, Tidy, Sunk, Ordered, HandleEvent(Replica)
  PROVE  Ordered'
<1> DEFINE ev == thread[Replica].ev
<1>0. Calm /\ HandlerFrameOf(Replica) /\ Kept
  BY CalmMeans, HandlerIs, HandlerKept DEF Steady
<1>1. /\ \A t \in Task : t # ev.task => task'[t] = task[t]
      /\ \A t \in Task : t = ev.task /\ task'[t] # task[t] =>
           /\ task[t] \notin Done /\ task[t] # "pending"
           /\ task'[t] \in {"ready", "running", "failed", "completed"}
           /\ task'[t] = "completed" => thread[Replica].pc = "handle" /\ ev \in Of({"completed"})
                                          /\ thread'[Replica].out = {}
      /\ \/ job' = job
         \/ /\ ev.task \in Task /\ task[ev.task] \notin Done
            /\ job' = SetJobStatus(job, "running") \/ job' = SetJobStatus(job, "failed")
      /\ thread'[Replica].batch = {}
  BY HandlerRows
<1>2. /\ About(Starts, Line)' \subseteq About(Starts, Line)
      /\ Inverted(Starts, Results, Line)' = {}
  <2>1. thread[Replica].pc \in {"handle", "giveUp"}
    BY <1>0 DEF HandlerFrameOf
  <2> QED
    BY <1>0, <2>1, HandledLine DEF Ordered, SameOrder
<1>3. pending' = <<>>
  BY <1>0 DEF HandlerFrameOf, queues, Ordered
<1>4. \A t \in Task : task[t] \in Done => task'[t] = task[t]
  BY <1>1
<1>5. ASSUME NEW t \in Task
      PROVE  /\ task'[t] = "pending" => t \notin About(Starts, Line)'
             /\ task'[t] \in Done => t \notin All(Copies)' \cup About(Starts, Line)'
             /\ task'[t] # "pending" => task[t] # "pending"
  <2>1. /\ task[t] = "pending" => t \notin About(Starts, Line)
        /\ task[t] \in Done => t \notin All(Copies) \cup About(Starts, Line)
    BY DEF Ordered, Waiting
  <2>2. CASE task'[t] = task[t]
    BY <1>0, <1>2, <2>1, <2>2 DEF Kept
  <2>3. CASE task'[t] # task[t]
    <3>1. t = ev.task /\ task[t] # "pending" /\ task'[t] \in {"ready", "running", "failed", "completed"}
      BY <1>1, <2>3
    <3>2. task'[t] = "completed" => ev.task \notin All(Copies)' \cup About(Starts, Line)'
      <4>1. Of({"completed"}) \subseteq Results
        BY DEF Of, Results
      <4> QED
        BY <1>1, <2>3, <4>1, Recorded
    <3> QED
      BY <3>1, <3>2 DEF Done
  <2> QED
    BY <2>2, <2>3
<1>6. ASSUME NEW t \in Task, task'[t] # "pending" \/ t \in thread'[Replica].batch
      PROVE  \A d \in Deps[t] : task'[d] \in Done
  <2>1. \A d \in Deps[t] : task[d] \in Done /\ d \in Task
    BY <1>1, <1>5, <1>6, OrchestratorAssumption DEF Ordered
  <2> QED
    BY <1>4, <2>1
<1>7. job' = "succeeded" => \A t \in Task : task'[t] \in Done
  <2>1. job' = "succeeded" => job = "succeeded"
    BY <1>1, SucceedsWhenDone
  <2> QED
    BY <1>4, <2>1 DEF Ordered
<1> QED
  BY <1>2, <1>3, <1>5, <1>6, <1>7 DEF Ordered, Waiting

\* The replica hands out tasks whose dependencies are done, and reports success when all are.
LEMMA ProceedOrdered ==
  ASSUME State, Steady, Tidy, Ordered, ProceedFrameOf(Replica), ProceedEffect(Replica)
  PROVE  Ordered'
<1>0. Calm /\ pending' = <<>> /\ Line \in Seq(Report) /\ Inverted(Starts, Results, Line) = {}
  BY LineTyped DEF Steady, Ordered, ProceedFrameOf
<1>1. /\ About(Starts, Line)' = About(Starts, Line)
      /\ Inverted(Starts, Results, Line)' = {}
  <2>1. CASE SameOrder
    BY <1>0, <2>1 DEF SameOrder
  <2>2. CASE \E e \in Of({"failed"}) : Line' = Append(Line, e)
    <3>1. PICK e \in Of({"failed"}) : Line' = Append(Line, e)
      BY <2>2
    <3>2. e \in TaskEvent /\ One(Starts, e) = {}
      BY DEF Of, One, Starts
    <3>3. /\ About(Starts, Append(Line, e)) = About(Starts, Line) \cup One(Starts, e)
          /\ Inverted(Starts, Results, Append(Line, e))
               = Inverted(Starts, Results, Line) \cup (About(Results, Line) \cap One(Starts, e))
      BY <1>0, <3>2, AppendedOrder
    <3> QED
      BY <1>0, <3>1, <3>2, <3>3
  <2> QED
    BY <1>0, <2>1, <2>2, ProceedLine
<1>2. CASE EmitEffect(Replica)
  <2>1. Kept /\ thread'[Replica].batch = {} /\ UNCHANGED rows
    BY <1>0, <1>2, ProceedKept DEF EmitEffect
  <2> QED
    BY <1>0, <1>1, <2>1, QuietOrdered DEF Kept, rows
<1>3. CASE ReadEffect(Replica)
  <2>1. /\ Kept /\ UNCHANGED rows
        /\ thread'[Replica].batch = {} \/ thread'[Replica].batch = ReadyTasks(task, Deps)
    BY <1>0, <1>3, ProceedKept DEF ReadEffect
  <2>2. \A t \in thread'[Replica].batch : \A d \in Deps[t] : task[d] \in Done
    BY <2>1 DEF ReadyTasks
  <2>3. /\ \A t \in Task : /\ task[t] = "pending" => t \notin About(Starts, Line)
                           /\ task[t] \in Done => t \notin All(Copies) \cup About(Starts, Line)
                           /\ task[t] # "pending" => \A d \in Deps[t] : task[d] \in Done
        /\ job = "succeeded" => \A t \in Task : task[t] \in Done
    BY DEF Ordered, Waiting
  <2>4. task' = task /\ job' = job /\ All(Copies)' \subseteq All(Copies)
    BY <2>1 DEF Kept, rows
  <2> QED
    BY <1>0, <1>1, <2>2, <2>3, <2>4 DEF Ordered, Waiting
<1>4. CASE RefreshEffect(Replica)
  <2>1. /\ Kept /\ task' = task /\ thread'[Replica].batch = {}
        /\ job' = SetJobStatus(job, DerivedJobStatus({task[t] : t \in Task}))
    <3>1. Kept
      BY <1>0, <1>4, ProceedKept
    <3>2. Replica \in Thread
      BY <1>0, CalmMeans
    <3> QED
      BY <1>4, <3>1, <3>2, CommitsWhatIs DEF RefreshEffect
  <2>2. job' = "succeeded" => \A t \in Task : task[t] \in Done
    BY <2>1, SucceedsWhenDone DEF Ordered
  <2>3. \A t \in Task : /\ task[t] = "pending" => t \notin About(Starts, Line)
                        /\ task[t] \in Done => t \notin All(Copies) \cup About(Starts, Line)
                        /\ task[t] # "pending" => \A d \in Deps[t] : task[d] \in Done
    BY DEF Ordered, Waiting
  <2> QED
    BY <1>0, <1>1, <2>1, <2>2, <2>3 DEF Ordered, Waiting, Kept
<1>5. CASE CommitEffect(Replica)
  <2> DEFINE S == thread[Replica].batch
  <2>1. All(Copies)' \subseteq All(Copies) \cup S
    BY <1>0, <1>5, CommitCopies
  <2>2. /\ \A t \in S : task[t] = "pending"
        /\ \A t \in Task \ S : task'[t] = task[t]
        /\ S \subseteq Task /\ thread'[Replica].batch = {} /\ job' = job
    BY <1>5 DEF Tidy, Untouched, CommitEffect
  <2>3. \A t \in S : task'[t] \in {"ready", "failed", "blocked"}
    BY <1>5 DEF CommitEffect, StatusFor
  <2>4. \A t \in Task : /\ task[t] = "pending" => t \notin About(Starts, Line)
                        /\ task[t] \in Done => t \notin All(Copies) \cup About(Starts, Line)
                        /\ task[t] # "pending" \/ t \in S => \A d \in Deps[t] : task[d] \in Done
    BY DEF Ordered, Waiting
  <2>5. \A t \in Task : task[t] \in Done => t \notin S /\ task'[t] = task[t]
    BY <2>2 DEF Done
  <2> HIDE DEF S
  <2>6. ASSUME NEW t \in Task
        PROVE  /\ task'[t] = "pending" => t \notin About(Starts, Line)'
               /\ task'[t] \in Done => t \notin All(Copies)' \cup About(Starts, Line)'
               /\ task'[t] # "pending" => \A d \in Deps[t] : task'[d] \in Done
    <3>1. task'[t] \in Done => task[t] \in Done /\ t \notin S
      BY <2>2, <2>3 DEF Done
    <3>2. task'[t] # "pending" => task[t] # "pending" \/ t \in S
      BY <2>2
    <3>3. \A d \in Deps[t] : d \in Task
      BY OrchestratorAssumption
    <3>4. task'[t] = "pending" => task[t] = "pending"
      BY <2>2, <2>3
    <3> QED
      BY <1>1, <2>1, <2>4, <2>5, <3>1, <3>2, <3>3, <3>4
  <2>7. job' = "succeeded" => \A t \in Task : task'[t] \in Done
    BY <2>2, <2>5 DEF Ordered
  <2> QED
    BY <1>0, <1>1, <2>2, <2>6, <2>7 DEF Ordered, Waiting
<1> QED
  BY <1>2, <1>3, <1>4, <1>5 DEF ProceedEffect

\* The order is invariant.
LEMMA NextOrdered ==
  ASSUME State, Steady, Tidy, Sunk, Ordered, [Next]_vars
  PROVE  Ordered'
<1>1. Calm /\ ~Redelivers /\ thread[Http].pc = "idle"
  BY DEF Steady, Tidy
<1>2. ~ApiFault
  BY <1>1, ErrorKept
<1> QED
  BY <1>1, <1>2, CalmStep, LoopOrdered, HandlerOrdered, ProceedOrdered, WorkersOrdered,
     ServicesOrdered

\* Nothing is in line when the plan has just been stored.
LEMMA InitOrdered ==
  ASSUME Steady, Init
  PROVE  Ordered
<1>1. Calm /\ \E a \in Api :
        thread = [x \in Thread |->
                    IF x = a THEN [Handle(PlanCreated) EXCEPT !.pc = "dispatch", !.refreshes = 1]
                    ELSE Idle]
  BY DEF Steady, Init
<1>2. /\ Handle(PlanCreated).pc = "handle" /\ Handle(PlanCreated).batch = {}
      /\ [Handle(PlanCreated) EXCEPT !.pc = "dispatch", !.refreshes = 1].pc = "dispatch"
      /\ [Handle(PlanCreated) EXCEPT !.pc = "dispatch", !.refreshes = 1].batch = {}
  BY DEF Handle, Idle
<1>3. thread[Replica].pc = "dispatch" /\ thread[Replica].batch = {}
  BY <1>1, <1>2, CalmMeans
<1>4. Line = <<>> \o <<>>
  BY <1>1, <1>3, CalmMeans DEF Line, Rest, Init, Stream
<1>5. Line = <<>>
  BY <1>4
<1>6. About(Starts, Line) = {} /\ Inverted(Starts, Results, Line) = {}
  BY <1>5 DEF About, Inverted
<1> QED
  BY <1>3, <1>6 DEF Ordered, Waiting, Init, Done

\* What a state in order shows.
LEMMA OrderedShows ==
  ASSUME State, Calm, Tidy, Ordered
  PROVE  RunsAfterDependencies /\ SucceededJobIsDone
<1>1. ASSUME NEW w \in Worker, held[w] # NoEvent
      PROVE  \A d \in Deps[held[w].task] : task[d] \in Done
  <2>1. /\ held[w] \in Copies /\ held[w].task \in Task
    BY <1>1, HeldIsCopy DEF Copies, Of
  <2>2. held[w].task \in At(Copies, "held")
    BY <2>1, AtIs, AboutIff DEF State, Inv, QueuesTyped
  <2>3. held[w].task \in All(Copies)
    BY <2>2 DEF All, Place
  <2> QED
    BY <2>1, <2>3 DEF Tidy, Untouched, Ordered
<1> QED
  BY <1>1 DEF RunsAfterDependencies, SucceededJobIsDone, Ordered

\* The inductive invariant of the order, with what it rests on.
InOrder == State /\ Tidy /\ Sunk /\ Ordered

\* It is one.
LEMMA OrderIsKept ==
  ASSUME Steady
  PROVE  /\ Init => InOrder
         /\ InOrder /\ [Next]_vars => InOrder'
BY InitState, InitTidy, InitSunk, InitOrdered, NextState, NextTidy, NextSunk, NextOrdered
   DEF InOrder, Steady

\* With one replica whose handlers do not raise, for every plan, with the policy gate or without:
\* while the tool of a task runs, every dependency of the task is done, and stays so.
THEOREM DependenciesFirst ==
  ASSUME Steady
  PROVE  Spec => []RunsAfterDependencies
<1>1. Init => InOrder
  BY OrderIsKept
<1>2. InOrder /\ [Next]_vars => InOrder'
  BY OrderIsKept
<1>3. InOrder => RunsAfterDependencies
  BY OrderedShows DEF InOrder, Steady
<1> QED
  BY <1>1, <1>2, <1>3, PTL DEF Spec

\* Under the same assumptions a job that is reported as succeeded has every task done.
THEOREM SuccessIsComplete ==
  ASSUME Steady
  PROVE  Spec => []SucceededJobIsDone
<1>1. Init => InOrder
  BY OrderIsKept
<1>2. InOrder /\ [Next]_vars => InOrder'
  BY OrderIsKept
<1>3. InOrder => SucceededJobIsDone
  BY OrderedShows DEF InOrder, Steady
<1> QED
  BY <1>1, <1>2, <1>3, PTL DEF Spec

-----------------------------------------------------------------------------
(* One step of the task machine at a time.                                 *)

\* What is assumed more: no policy gate, the workers retry, and the inputs of tasks are valid.
Plain == Steady /\ ~PolicyGate /\ RetryPolicy # "none" /\ BadInput = {}

\* The bound on the attempts, kept by every step.
LEMMA NextBounded ==
  ASSUME RetryPolicy # "none"
  PROVE  /\ Init => Inv(0 .. MaxAttempts, BoundedEvent)
         /\ Inv(0 .. MaxAttempts, BoundedEvent) /\ [Next]_vars => Inv(0 .. MaxAttempts, BoundedEvent)'
<1> DEFINE N == 0 .. MaxAttempts
<1>1. Closed(N, BoundedEvent)
  BY OrchestratorAssumption
  DEF Closed, BoundedEvent, TaskEvent, Mk, EventType, RetriesSameStep, ShouldRetry
<1> HIDE DEF N
<1>2. Init => Inv(N, BoundedEvent)
  BY <1>1, InitTyped
<1>3. Inv(N, BoundedEvent) /\ [Next]_vars => Inv(N, BoundedEvent)'
  BY <1>1, NextTyped
<1> QED
  BY <1>2, <1>3 DEF N

\* What a worker reports as failed is not retried by the API.
LEMMA NoStepRetried ==
  ASSUME NEW e \in BoundedEvent
  PROVE  ~RetriesSameStep(e)
BY OrchestratorAssumption DEF BoundedEvent, RetriesSameStep, TaskEvent

\* Every entry in hand is a report, or plan.created.
LEMMA PlainHand ==
  ASSUME State, Plain
  PROVE  thread[Replica].ev \in Of(Reports) \cup {PlanCreated, NoEvent}
<1>1. Replica \in Thread /\ ~Critic /\ ~PolicyGate
  BY CalmMeans DEF Plain, Steady, Calm
<1>2. thread[Replica].ev \in Of(Heard) \cup {PlanCreated, NoEvent}
  BY <1>1 DEF State, Kinds, Hand
<1>3. Heard = Reports
  BY <1>1 DEF Heard, Reviews, Decisions
<1> QED
  BY <1>2, <1>3

\* What a handler does, if retries are the workers' and inputs are valid; it emits nothing.
PlainEffect ==
  LET e == thread[Replica].ev IN
  \/ thread[Replica].pc = "handle" /\ e = PlanCreated /\ UNCHANGED <<task, job>>
  \/ /\ thread[Replica].pc = "handle" /\ e \in Starts
     /\ task' = [task EXCEPT ![e.task] = "running"] /\ job' = SetJobStatus(job, "running")
  \/ /\ thread[Replica].pc = "handle" /\ e \in Of({"completed"})
     /\ task' = [task EXCEPT ![e.task] = "completed"] /\ job' = job
  \/ /\ thread[Replica].pc = "handle" /\ e \in Of({"failed"})
     /\ task' = [task EXCEPT ![e.task] = "failed"] /\ job' = SetJobStatus(job, "failed")
  \/ /\ thread[Replica].pc = "giveUp"
     /\ task' = [task EXCEPT ![e.task] = "failed"] /\ job' = SetJobStatus(job, "failed")

\* The handlers of other events do not run, and the API retries nothing.
LEMMA PlainHandler ==
  ASSUME State, Plain, Tidy, Stepwise, HandleEvent(Replica)
  PROVE  PlainEffect /\ thread'[Replica].out = {}
<1>0. Replica \in Api /\ Replica \in Thread
  BY CalmMeans DEF Plain, Steady
<1>1. HandlerEffect(Replica)
  BY <1>0, HandlerIs
<1>2. thread[Replica].ev \in Of(Reports) \cup {PlanCreated, NoEvent}
  BY PlainHand
<1>3. \A e : e \in Of(Reports) \cup {PlanCreated, NoEvent} =>
        e \notin Of({"accepted"}) /\ e \notin Of({"rework_requested"}) /\ e \notin Of({"allow", "deny"})
  BY OrchestratorAssumption DEF Of, Reports, PlanCreated, Mk
<1>4. thread[Replica].ev \in TaskEvent => ~RetriesSameStep(thread[Replica].ev)
  <2>1. thread[Replica].ev \in BoundedEvent \cup {PlanCreated, NoEvent}
    BY <1>0 DEF Stepwise, Inv, Threads, ThreadRecord
  <2> QED
    BY <2>1, NoStepRetried, OrchestratorAssumption DEF TaskEvent, EventType, PlanCreated, Mk
<1>5. \A e \in Of({"failed"}) : e \in TaskEvent
  BY DEF Of
<1> QED
  BY <1>0, <1>1, <1>2, <1>3, <1>4, <1>5, CommitsWhatIs
  DEF HandlerEffect, PlainEffect, Writes, Starts

\* The attempts of a task that a handler leaves pending stay what they were.
LEMMA HandlerAttempts ==
  ASSUME State, Plain, HandleEvent(Replica), NEW t \in Task, task'[t] = "pending"
  PROVE  attempts'[t] = attempts[t]
<1>1. task \in [Task -> TaskStatus] /\ attempts \in [Task -> Nat]
  BY DEF State, Inv, RowsTyped
<1>2. CASE HandleStarted(Replica)
  BY <1>1, <1>2 DEF HandleStarted
<1>3. CASE RetrySameStep(Replica)
  BY <1>1, <1>3 DEF RetrySameStep
<1>4. ~HandlePolicyDecision(Replica)
  <2>1. /\ \A e \in Of(Reports) : e.type \notin {"allow", "deny"}
        /\ PlanCreated.type \notin {"allow", "deny"}
    BY DEF Of, Reports, PlanCreated, Mk
  <2>2. thread[Replica].pc = "handle" => thread[Replica].ev # NoEvent
    BY CalmMeans DEF Plain, Steady, State, Inv, Threads, Consistent
  <2> QED
    BY <2>1, <2>2, PlainHand DEF HandlePolicyDecision, Handling
<1>5. CASE UNCHANGED attempts
  BY <1>5
<1> QED
  BY <1>2, <1>3, <1>4, <1>5
  DEF HandleEvent, HandlePlanCreated, HandleCompleted, GiveUp, HandleAccepted, HandleRework, rows

\* A batch is read with the attempts of its tasks.
LEMMA ReadSnap ==
  ASSUME State, Plain, Stepwise, DispatchRead(Replica)
  PROVE  \A t \in thread'[Replica].batch : thread'[Replica].snap[t] = 0
<1> DEFINE r    == thread[Replica]
           S    == ReadyTasks(task, Deps)
           snap == [t \in Task |-> IF t \in S THEN attempts[t] ELSE 0]
           s    == [r EXCEPT !.pc = "commit", !.refreshes = @ + 1, !.batch = S, !.snap = snap]
<1>1. /\ thread \in Threads(Nat, TaskEvent) /\ r \in ThreadRecord(Nat, TaskEvent)
      /\ Replica \in Thread /\ Hand(Replica, r)
      /\ task \in [Task -> TaskStatus]
  BY CalmMeans DEF Plain, Steady, State, Inv, Threads, RowsTyped, Kinds
<1>2. CASE Settle(Replica, r)
  <2>1. thread'[Replica].batch = r.batch /\ r.batch = {}
    <3>1. r.pc = "dispatch"
      BY DEF DispatchRead
    <3> QED
      BY <1>1, <1>2, <3>1, Settled DEF SameHands, Hand
  <2> QED
    BY <2>1
<1>3. CASE thread' = [thread EXCEPT ![Replica] = s]
  <2>1. \A t \in S : t \in Task /\ task[t] = "pending"
    BY <1>1 DEF ReadyTasks
  <2>2. \A t \in S : snap[t] = 0
    BY <2>1 DEF Stepwise
  <2> HIDE DEF S, snap
  <2>3. s.batch = S /\ s.snap = snap
    BY <1>1 DEF ThreadRecord
  <2> HIDE DEF s
  <2>4. thread'[Replica] = s
    BY <1>1, <1>3 DEF Threads
  <2> QED
    BY <2>2, <2>3, <2>4
<1> QED
  BY <1>2, <1>3 DEF DispatchRead

\* All of it is handed out to the workers.
LEMMA CommitReady ==
  ASSUME State, Plain, Stepwise, DispatchCommit(Replica)
  PROVE  /\ task' = [t \in Task |-> IF t \in thread[Replica].batch THEN "ready" ELSE task[t]]
         /\ attempts' = [t \in Task |-> IF t \in thread[Replica].batch THEN 1 ELSE attempts[t]]
         /\ \A e \in thread'[Replica].out : e.type = "ready"
<1> DEFINE r == thread[Replica]
           S == r.batch
<1>1. /\ thread \in Threads(Nat, TaskEvent) /\ r \in ThreadRecord(Nat, TaskEvent)
      /\ Replica \in Thread /\ S \subseteq Task
  BY CalmMeans DEF Plain, Steady, State, Inv, Threads, ThreadRecord
<1>2. \A t \in S : t \in Task /\ r.snap[t] = 0
  BY <1>1 DEF Stepwise
<1>3. Fate(0, TRUE) = "ready" /\ Counted(0) = 1 /\ EventOf["ready"] = "ready"
  BY OrchestratorAssumption DEF Plain, Fate, Counted, EventOf
<1>4. PICK invalid \in SUBSET (S \cap BadInput) :
        /\ task' = [t \in Task |-> IF t \in S THEN Fate(r.snap[t], t \notin invalid) ELSE task[t]]
        /\ Settle(Replica, [r EXCEPT !.batch = {}, !.snap = NoCount,
             !.out = {Mk(EventOf[Fate(r.snap[t], t \notin invalid)], t, Counted(r.snap[t]), FALSE)
                        : t \in S}])
  BY DEF DispatchCommit
<1>5. invalid = {}
  BY <1>4 DEF Plain
<1> DEFINE out == {Mk(EventOf[Fate(r.snap[t], t \notin invalid)], t, Counted(r.snap[t]), FALSE)
                     : t \in S}
           s   == [r EXCEPT !.batch = {}, !.snap = NoCount, !.out = out]
<1>6. \A t \in S : Fate(r.snap[t], t \notin invalid) = "ready" /\ Counted(r.snap[t]) = 1
  BY <1>2, <1>3, <1>5
<1>7. \A e \in out : e.type = "ready"
  BY <1>3, <1>6 DEF Mk
<1>8. out \subseteq TaskEvent
  <2>1. \A t \in S : Mk("ready", t, 1, FALSE) \in TaskEvent
    BY <1>1 DEF Mk, TaskEvent, EventType
  <2> QED
    BY <1>3, <1>6, <2>1
<1>9. task' = [t \in Task |-> IF t \in S THEN "ready" ELSE task[t]]
  BY <1>4, <1>6
<1>10. attempts' = [t \in Task |-> IF t \in S THEN 1 ELSE attempts[t]]
  <2>1. attempts' = [t \in Task |-> IF t \in S /\ Counted(r.snap[t]) # r.snap[t]
                                    THEN Counted(r.snap[t]) ELSE attempts[t]]
    BY DEF DispatchCommit
  <2>2. \A t \in S : Counted(r.snap[t]) # r.snap[t] /\ Counted(r.snap[t]) = 1
    BY <1>2, <1>6
  <2> QED
    BY <2>1, <2>2
<1> HIDE DEF out
<1>11. s \in ThreadRecord(Nat, TaskEvent) /\ s.out = out
  BY <1>1, <1>8 DEF ThreadRecord, NoCount
<1>12. Settle(Replica, s)
  BY <1>4 DEF out
<1> HIDE DEF s
<1>13. thread'[Replica].out = out
  BY <1>1, <1>11, <1>12, Settled DEF SameHands
<1> QED
  BY <1>7, <1>9, <1>10, <1>13

\* A step that leaves the rows alone, and makes no copy.
LEMMA QuietStepwise ==
  ASSUME Stepwise, Inv(0 .. MaxAttempts, BoundedEvent)', UNCHANGED <<job, task, attempts>>,
         thread'[Replica].out \subseteq thread[Replica].out,
         \A t \in thread'[Replica].batch : thread'[Replica].snap[t] = 0,
         All(Copies)' \subseteq All(Copies),
         About(Starts, Line) \subseteq About(Starts, Line)',
         \A t \in About(Starts, Line)' : t \in Task /\ task[t] = "failed" => t \in About(Starts, Line),
         \A t \in Unpreceded(Starts, Results, Line)' :
           t \in Task => t \in Unpreceded(Starts, Results, Line) \/ task[t] = "running",
         \A t \in About(Copies, held)' : t \in About(Copies, held) \/ t \in About(Starts, Line)'
  PROVE  Stepwise'
<1>1. /\ job' \in {"planning", "running", "succeeded", "failed"}
      /\ \A e \in thread'[Replica].out : e.type = "ready"
  BY DEF Stepwise
<1>2. ASSUME NEW t \in Task
      PROVE  /\ task'[t] \in {"pending", "ready", "running", "completed", "failed"}
             /\ task'[t] = "pending" => attempts'[t] = 0
             /\ t \in thread'[Replica].batch => thread'[Replica].snap[t] = 0
             /\ task'[t] = "failed" =>
                  job' = "failed" /\ t \notin All(Copies)' \cup About(Starts, Line)'
  BY DEF Stepwise, Waiting
<1>3. ASSUME NEW t \in Task
      PROVE  /\ t \in Unpreceded(Starts, Results, Line)' => task'[t] = "running"
             /\ t \in About(Copies, held)' => t \in About(Starts, Line)' \/ task'[t] = "running"
  BY DEF Stepwise, Waiting
<1> QED
  BY <1>1, <1>2, <1>3 DEF Stepwise, Waiting

\* The workers.
LEMMA WorkersStepwise ==
  ASSUME State, Plain, Tidy, Ordered, Stepwise, Inv(0 .. MaxAttempts, BoundedEvent)',
         WorkerStep \/ WorkerFault
  PROVE  Stepwise'
<1>1. /\ UNCHANGED <<rows, thread, pending>> /\ Kept /\ Calm /\ Line \in Seq(Report)
      /\ \A t \in thread[Replica].batch : t \in Task /\ thread[Replica].snap[t] = 0
      /\ held \in [Worker -> TaskEvent \cup {NoEvent}]
  <2>1. Calm /\ Replica \in Thread
    BY CalmMeans DEF Plain, Steady
  <2>2. thread[Replica].batch \subseteq Task
    BY <2>1 DEF State, Inv, Threads, ThreadRecord
  <2> QED
    BY <2>1, <2>2, OthersLeave, WorkersKept, WorkerLine, LineTyped
    DEF Stepwise, State, Inv, QueuesTyped
<1>2. ASSUME About(Starts, Line) \subseteq About(Starts, Line)',
             \A t \in About(Starts, Line)' :
               t \in Task /\ task[t] = "failed" => t \in About(Starts, Line),
             \A t \in Unpreceded(Starts, Results, Line)' :
               t \in Task => t \in Unpreceded(Starts, Results, Line) \/ task[t] = "running",
             \A t \in About(Copies, held)' : t \in About(Copies, held) \/ t \in About(Starts, Line)'
      PROVE  Stepwise'
  BY <1>1, <1>2, QuietStepwise DEF Kept, rows
<1>3. ASSUME NEW w \in Worker, held' = [held EXCEPT ![w] = NoEvent]
      PROVE  About(Copies, held)' \subseteq About(Copies, held)
  BY <1>3, PutsDown
<1>4. CASE SameOrder /\ \E w \in Worker : /\ held[w] # NoEvent
                                         /\ held' = [held EXCEPT ![w] = NoEvent]
  BY <1>2, <1>3, <1>4 DEF SameOrder
<1>5. CASE \E w \in Worker, e \in Of({"ready"}) :
             /\ \/ Take(w) /\ e = Head(ready)
                \/ Claim(w) /\ e = Head(orphaned)
             /\ held[w] = NoEvent /\ held' = [held EXCEPT ![w] = e]
             /\ Line' = Append(Line, Mk("started", e.task, e.n, FALSE))
  <2>1. PICK w \in Worker, e \in Of({"ready"}) :
             /\ \/ Take(w) /\ e = Head(ready)
                \/ Claim(w) /\ e = Head(orphaned)
             /\ held' = [held EXCEPT ![w] = e]
             /\ Line' = Append(Line, Mk("started", e.task, e.n, FALSE))
    BY <1>5
  <2> DEFINE s == Mk("started", e.task, e.n, FALSE)
  <2>2. s \in TaskEvent /\ One(Starts, s) = {e.task} /\ One(Results, s) = {} /\ e \in TaskEvent
    <3>1. e \in TaskEvent /\ s \in TaskEvent
      BY DEF Mk, TaskEvent, EventType, Of
    <3>2. s \in Starts /\ s \notin Results /\ s.task = e.task
      BY <3>1 DEF Starts, Results, Of, Mk
    <3> QED
      BY <3>1, <3>2 DEF One
  <2>3. e.task \in All(Copies)
    <3>1. One(Copies, e) = {e.task}
      BY CopyOfReady
    <3>2. /\ ready # <<>> => One(Copies, Head(ready)) \subseteq About(Copies, ready)
          /\ orphaned # <<>> => One(Copies, Head(orphaned)) \subseteq About(Copies, orphaned)
      BY FirstTaken DEF State, Inv, QueuesTyped
    <3>3. \/ ready # <<>> /\ e = Head(ready)
          \/ orphaned # <<>> /\ e = Head(orphaned)
      BY <2>1 DEF Take, Claim
    <3>4. e.task \in About(Copies, ready) \/ e.task \in About(Copies, orphaned)
      BY <3>1, <3>2, <3>3
    <3> QED
      BY <3>4, AtIs DEF All, Place
  <2>4. About(Copies, held') \subseteq About(Copies, held) \cup {e.task}
    <3>1. About(Copies, held') \subseteq About(Copies, held) \cup One(Copies, e)
      BY <2>1, <2>2, TakesUp
    <3> QED
      BY <3>1, CopyOfReady
  <2> HIDE DEF s
  <2>5. /\ About(Starts, Append(Line, s)) = About(Starts, Line) \cup One(Starts, s)
        /\ Unpreceded(Starts, Results, Append(Line, s))
             = Unpreceded(Starts, Results, Line) \cup (One(Results, s) \ About(Starts, Line))
    BY <1>1, <2>2, AppendedOrder
  <2>6. Line' = Append(Line, s)
    BY <2>1 DEF s
  <2>7. /\ About(Starts, Line)' = About(Starts, Line) \cup {e.task}
        /\ Unpreceded(Starts, Results, Line)' = Unpreceded(Starts, Results, Line)
    BY <2>2, <2>5, <2>6
  <2>8. e.task \in Task => task[e.task] # "failed"
    BY <2>3 DEF Stepwise
  <2>9. \A t \in About(Copies, held)' : t \in About(Copies, held) \/ t \in About(Starts, Line)'
    BY <2>4, <2>7
  <2> QED
    BY <1>2, <2>7, <2>8, <2>9
<1>6. CASE \E w \in Worker, e \in Results :
             /\ Finish(w)
             /\ held[w] # NoEvent /\ held' = [held EXCEPT ![w] = NoEvent]
             /\ e.task = held[w].task /\ Line' = Append(Line, e)
  <2>1. PICK w \in Worker, e \in Results :
             /\ held[w] # NoEvent /\ held' = [held EXCEPT ![w] = NoEvent]
             /\ e.task = held[w].task /\ Line' = Append(Line, e)
    BY <1>6
  <2>2. e \in TaskEvent /\ One(Starts, e) = {} /\ One(Results, e) = {e.task}
    BY DEF Results, Starts, Of, One
  <2>3. /\ About(Starts, Append(Line, e)) = About(Starts, Line) \cup One(Starts, e)
        /\ Unpreceded(Starts, Results, Append(Line, e))
             = Unpreceded(Starts, Results, Line) \cup (One(Results, e) \ About(Starts, Line))
    BY <1>1, <2>2, AppendedOrder
  <2>4. e.task \in About(Copies, held)
    <3>1. One(Copies, held[w]) \subseteq About(Copies, held)
      BY <2>1, PutsDown
    <3>2. One(Copies, held[w]) = {held[w].task}
      BY <2>1, HeldIsCopy
    <3> QED
      BY <2>1, <3>1, <3>2
  <2>5. e.task \in Task => e.task \in About(Starts, Line) \/ task[e.task] = "running"
    BY <2>4 DEF Stepwise, Waiting
  <2>6. About(Copies, held)' \subseteq About(Copies, held)
    BY <1>3, <2>1
  <2>7. /\ About(Starts, Line)' = About(Starts, Line)
        /\ Unpreceded(Starts, Results, Line)'
             = Unpreceded(Starts, Results, Line) \cup ({e.task} \ About(Starts, Line))
    BY <2>1, <2>2, <2>3
  <2> QED
    BY <1>2, <2>5, <2>6, <2>7
<1> QED
  BY <1>1, <1>4, <1>5, <1>6, WorkerLine

\* What leaves the line alone, and the workers.
LEMMA SilentStepwise ==
  ASSUME Stepwise, Inv(0 .. MaxAttempts, BoundedEvent)', SameOrder, UNCHANGED <<job, task, attempts, held>>,
         All(Copies)' \subseteq All(Copies), thread'[Replica].out \subseteq thread[Replica].out,
         \A t \in thread'[Replica].batch : thread'[Replica].snap[t] = 0
  PROVE  Stepwise'
BY QuietStepwise DEF SameOrder

\* A step follows the machine.
Advances == \A t \in Task : task'[t] # task[t] => task'[t] \in TaskTransitions[task[t]]

\* A handler moves its task as its entry says: to running once started, and from there to
\* completed or failed.
LEMMA HandlerStepwise ==
  ASSUME State, Plain, Tidy, Sunk, Ordered, Stepwise, Inv(0 .. MaxAttempts, BoundedEvent)',
         HandleEvent(Replica)
  PROVE  Stepwise' /\ Advances
<1> DEFINE ev == thread[Replica].ev
<1>0. /\ Calm /\ Steady /\ HandlerFrameOf(Replica) /\ Kept /\ PlainEffect /\ thread'[Replica].out = {}
      /\ task \in [Task -> TaskStatus] /\ thread'[Replica].batch = {} /\ held' = held
  BY CalmMeans, HandlerIs, HandlerKept, PlainHandler, HandlerRows
  DEF Plain, Steady, State, Inv, RowsTyped, HandlerFrameOf, workers
<1>1. \A t \in Task : /\ task[t] \in {"pending", "ready", "running", "completed", "failed"}
                      /\ t \in Unpreceded(Starts, Results, Line) => task[t] = "running"
                      /\ t \in About(Copies, held) => t \in About(Starts, Line) \/ task[t] = "running"
                      /\ task[t] = "failed" =>
                           job = "failed" /\ t \notin All(Copies) \cup About(Starts, Line)
  BY DEF Stepwise, Waiting
<1>2. \A t \in Task : task'[t] = "pending" => task[t] = "pending" /\ attempts'[t] = 0
  BY <1>0, HandlerAttempts, HandlerLeavesPending DEF Stepwise
<1>3. ASSUME job' \in {"planning", "running", "succeeded", "failed"},
             \A t \in Task :
               /\ task'[t] \in {"pending", "ready", "running", "completed", "failed"}
               /\ t \in Unpreceded(Starts, Results, Line)' => task'[t] = "running"
               /\ t \in About(Copies, held) => t \in About(Starts, Line)' \/ task'[t] = "running"
               /\ task'[t] = "failed" =>
                    job' = "failed" /\ t \notin All(Copies)' \cup About(Starts, Line)'
      PROVE  Stepwise'
  BY <1>0, <1>2, <1>3 DEF Stepwise, Waiting
<1>4. job \in {"planning", "running", "succeeded", "failed"}
  BY DEF Stepwise
<1>5. /\ job = "failed" => SetJobStatus(job, "running") = "failed" /\ SetJobStatus(job, "failed") = "failed"
      /\ SetJobStatus(job, "running") \in {"planning", "running", "succeeded", "failed"}
      /\ SetJobStatus(job, "failed") \in {"planning", "running", "succeeded", "failed"}
      /\ job # "succeeded" => SetJobStatus(job, "failed") = "failed"
  BY <1>4 DEF SetJobStatus, JobTransitions
<1>6. /\ Unpreceded(Starts, Results, Line)' \subseteq About(Results, Line)'
      /\ thread[Replica].pc = "handle" =>
           /\ About(Starts, Line) = One(Starts, ev) \cup About(Starts, Line)'
           /\ Unpreceded(Starts, Results, Line)
                = One(Results, ev) \cup (Unpreceded(Starts, Results, Line)' \ One(Starts, ev))
  BY <1>0, HandledLine DEF Unpreceded
<1>7. thread[Replica].pc = "handle" /\ ev \in Results =>
        ev.task \notin All(Copies)' \cup About(Starts, Line)' \cup About(Results, Line)'
  BY <1>0, Recorded
<1>8. All(Copies)' \subseteq All(Copies)
  BY <1>0 DEF Kept
<1>9. At(Copies, "held")' = About(Copies, held)
  BY <1>0, AtWillBe
<1>10. About(Copies, held) \subseteq All(Copies)'
  BY <1>9 DEF All, Place
<1>11. CASE thread[Replica].pc = "handle" /\ ev = PlanCreated /\ UNCHANGED <<task, job>>
  <2>1. One(Starts, ev) = {} /\ One(Results, ev) = {}
    BY <1>11 DEF One, Starts, Results, Of, PlanCreated, Mk
  <2>2. task' = task /\ job' = job
    BY <1>11
  <2>3. Stepwise'
    <3>1. /\ About(Starts, Line)' = About(Starts, Line)
          /\ Unpreceded(Starts, Results, Line)' = Unpreceded(Starts, Results, Line)
      BY <1>6, <1>11, <2>1
    <3> QED
      BY <1>1, <1>3, <1>4, <1>8, <2>2, <3>1
  <2> QED
    BY <2>2, <2>3 DEF Advances
<1>12. CASE /\ thread[Replica].pc = "handle" /\ ev \in Starts
            /\ task' = [task EXCEPT ![ev.task] = "running"] /\ job' = SetJobStatus(job, "running")
  <2>1. One(Starts, ev) = {ev.task} /\ One(Results, ev) = {} /\ ev.task \in Task
    BY <1>12 DEF One, Starts, Results, Of, TaskEvent
  <2>2. /\ About(Starts, Line) = {ev.task} \cup About(Starts, Line)'
        /\ Unpreceded(Starts, Results, Line) = Unpreceded(Starts, Results, Line)' \ {ev.task}
    BY <1>6, <1>12, <2>1
  <2>3. /\ \A t \in Task : t # ev.task => task'[t] = task[t]
        /\ task'[ev.task] = "running"
    BY <1>0, <1>12, <2>1
  <2>4. task[ev.task] \in {"ready", "running"}
    <3>1. /\ task[ev.task] # "failed" /\ task[ev.task] # "pending" /\ task[ev.task] \notin Done
          /\ task[ev.task] \in {"pending", "ready", "running", "completed", "failed"}
      BY <1>1, <2>1, <2>2 DEF Ordered, Waiting
    <3> QED
      BY <3>1 DEF Done
  <2>5. Advances
    BY <2>3, <2>4 DEF Advances, TaskTransitions
  <2>6. job' \in {"planning", "running", "succeeded", "failed"} /\ (job = "failed" => job' = "failed")
    BY <1>5, <1>12
  <2>7. ASSUME NEW t \in Task
        PROVE  /\ task'[t] \in {"pending", "ready", "running", "completed", "failed"}
               /\ t \in Unpreceded(Starts, Results, Line)' => task'[t] = "running"
               /\ t \in About(Copies, held) => t \in About(Starts, Line)' \/ task'[t] = "running"
               /\ task'[t] = "failed" =>
                    job' = "failed" /\ t \notin All(Copies)' \cup About(Starts, Line)'
    <3>1. CASE t = ev.task
      BY <2>3, <3>1
    <3>2. CASE t # ev.task
      BY <1>1, <1>8, <2>2, <2>3, <2>6, <3>2
    <3> QED
      BY <3>1, <3>2
  <2>8. Stepwise'
    BY <1>3, <2>6, <2>7
  <2> QED
    BY <2>5, <2>8
\* A result ends what was running.
<1>13. ASSUME thread[Replica].pc = "handle", ev \in Results, NEW s \in {"completed", "failed"},
              task' = [task EXCEPT ![ev.task] = s],
              job' \in {"planning", "running", "succeeded", "failed"},
              s = "failed" => job' = "failed", job = "failed" => job' = "failed"
       PROVE  Stepwise' /\ Advances
  <2>1. One(Starts, ev) = {} /\ One(Results, ev) = {ev.task} /\ ev.task \in Task
    BY <1>13 DEF One, Starts, Results, Of, TaskEvent
  <2>2. /\ About(Starts, Line) = About(Starts, Line)'
        /\ Unpreceded(Starts, Results, Line) = {ev.task} \cup Unpreceded(Starts, Results, Line)'
    BY <1>6, <1>13, <2>1
  <2>3. /\ \A t \in Task : t # ev.task => task'[t] = task[t]
        /\ task'[ev.task] = s
    BY <1>0, <1>13, <2>1
  <2>4. task[ev.task] = "running"
    BY <1>1, <2>1, <2>2
  <2>5. Advances
    BY <2>3, <2>4 DEF Advances, TaskTransitions
  <2>6. ASSUME NEW t \in Task
        PROVE  /\ task'[t] \in {"pending", "ready", "running", "completed", "failed"}
               /\ t \in Unpreceded(Starts, Results, Line)' => task'[t] = "running"
               /\ t \in About(Copies, held) => t \in About(Starts, Line)' \/ task'[t] = "running"
               /\ task'[t] = "failed" =>
                    job' = "failed" /\ t \notin All(Copies)' \cup About(Starts, Line)'
    <3>1. CASE t = ev.task
      <4>1. t \notin All(Copies)' /\ t \notin About(Starts, Line)' /\ t \notin About(Results, Line)'
        BY <1>7, <1>13, <3>1
      <4> QED
        BY <1>6, <1>10, <1>13, <2>3, <3>1, <4>1
    <3>2. CASE t # ev.task
      BY <1>1, <1>8, <1>13, <2>2, <2>3, <3>2
    <3> QED
      BY <3>1, <3>2
  <2>7. Stepwise'
    BY <1>3, <1>13, <2>6
  <2> QED
    BY <2>5, <2>7
<1>14. CASE /\ thread[Replica].pc = "handle" /\ ev \in Of({"completed"})
            /\ task' = [task EXCEPT ![ev.task] = "completed"] /\ job' = job
  <2>1. ev \in Results
    BY <1>14 DEF Results, Of
  <2> QED
    BY <1>4, <1>13, <1>14, <2>1
<1>15. CASE /\ thread[Replica].pc = "handle" /\ ev \in Of({"failed"})
            /\ task' = [task EXCEPT ![ev.task] = "failed"] /\ job' = SetJobStatus(job, "failed")
  <2>1. ev \in Results /\ ev \in Copies /\ ev.task \in Task
    BY <1>15 DEF Results, Copies, Of, TaskEvent
  <2>2. job # "succeeded"
    <3>1. One(Results, ev) = {ev.task}
      BY <2>1 DEF One
    <3>2. task[ev.task] = "running"
      BY <1>1, <1>6, <1>15, <2>1, <3>1
    <3> QED
      BY <2>1, <3>2 DEF Ordered, Done
  <2> QED
    BY <1>5, <1>13, <1>15, <2>1, <2>2
<1>16. CASE /\ thread[Replica].pc = "giveUp"
            /\ task' = [task EXCEPT ![ev.task] = "failed"] /\ job' = SetJobStatus(job, "failed")
  <2>1. task[ev.task] = "failed" /\ ev.task \in Task
    <3>1. thread[Replica].end = "giveUp" /\ ev \in TaskEvent
      BY <1>0, <1>16, CalmMeans DEF State, Inv, Threads, Consistent
    <3> QED
      BY <3>1 DEF Sunk, TaskEvent
  <2>2. task' = task /\ job' = job
    BY <1>0, <1>1, <1>5, <1>16, <2>1
  <2>3. SameOrder
    BY <1>0, <1>16, HandledLine
  <2>4. Stepwise'
    BY <1>1, <1>3, <1>4, <1>8, <2>2, <2>3 DEF SameOrder
  <2> QED
    BY <2>2, <2>4 DEF Advances
<1> QED
  BY <1>0, <1>11, <1>12, <1>14, <1>15, <1>16 DEF PlainEffect

\* The orchestrator's loop and the services.
LEMMA LoopStepwise ==
  ASSUME State, Plain, Tidy, Ordered, Stepwise, Inv(0 .. MaxAttempts, BoundedEvent)',
         \/ Deliver(Replica) \/ NextEntry(Replica) \/ RecoverPending(Replica) \/ Ack(Replica)
         \/ ServiceStep \/ Rests
  PROVE  Stepwise' /\ Advances
<1>0. Replica \in Api /\ Replica \in Thread /\ Calm /\ Steady
  BY CalmMeans DEF Plain, Steady
<1>1. CASE Deliver(Replica) \/ NextEntry(Replica) \/ RecoverPending(Replica) \/ Ack(Replica)
  <2>1. SameOrder /\ Kept
    BY <1>0, <1>1, LoopLine, LoopKept
  <2>2. /\ UNCHANGED <<rows, workers>>
        /\ \E r : Becomes(Replica, r) /\ (r = Idle \/ \E e : r = Handle(e))
    BY <1>0, <1>1, LoopIs DEF Picks
  <2>3. /\ Idle.batch = {} /\ \A e : Handle(e).batch = {}
        /\ Idle.out = {} /\ \A e : Handle(e).out = {}
    BY DEF Idle, Handle
  <2>4. thread'[Replica].batch = {} /\ thread'[Replica].out = {}
    BY <2>2, <2>3 DEF Becomes
  <2>5. UNCHANGED <<job, task, attempts, held>> /\ All(Copies)' \subseteq All(Copies)
    BY <2>1, <2>2 DEF rows, workers, Kept
  <2> QED
    BY <2>1, <2>4, <2>5, SilentStepwise DEF Advances
<1>2. CASE ServiceStep \/ Rests
  <2>1. /\ UNCHANGED <<rows, thread, inbox, workers>> /\ stream'["tasks"] = stream["tasks"]
    BY <1>2 DEF ServiceStep, DecidePolicy, Review, LoseCheck, LoseReview, queues, Rests,
           State, Inv, QueuesTyped, Stream
  <2>2. SameOrder
    BY <1>0, <2>1, LineStays
  <2>3. All(Copies)' \subseteq All(Copies)
    <3>1. CASE ServiceStep
      BY <1>0, <3>1, ServicesKept DEF Kept
    <3>2. CASE Rests
      BY <3>2, AtIs, AtWillBe DEF All, Place, InHandOf, Rests, queues, workers, services
    <3> QED
      BY <1>2, <3>1, <3>2
  <2>4. \A t \in thread[Replica].batch : thread[Replica].snap[t] = 0
    <3>1. thread[Replica].batch \subseteq Task
      BY <1>0 DEF State, Inv, Threads, ThreadRecord
    <3> QED
      BY <3>1 DEF Stepwise
  <2>5. UNCHANGED <<job, task, attempts, held>> /\ thread' = thread
    BY <2>1 DEF rows, workers
  <2> QED
    BY <2>2, <2>3, <2>4, <2>5, SilentStepwise DEF Advances
<1> QED
  BY <1>1, <1>2

\* A refresh leaves a failed job failed.
LEMMA RefreshedJob ==
  ASSUME State, Sunk, Stepwise, job' = SetJobStatus(job, DerivedJobStatus({task[t] : t \in Task}))
  PROVE  /\ job' \in {"planning", "running", "succeeded", "failed"}
         /\ job' = "failed" <=> job = "failed"
         /\ job = "succeeded" => job' = "succeeded"
<1>1. /\ job = "failed" => job' = job
      /\ job = "succeeded" => job' = job
      /\ job' = "failed" => job = "failed" \/ \E t \in Task : task[t] = "failed"
  BY JobStays
<1>2. \A S : DerivedJobStatus(S) \in {"planning", "running", "succeeded", "failed"}
  BY DEF DerivedJobStatus
<1>3. job' \in {job, "planning", "running", "succeeded", "failed"}
  BY <1>2 DEF SetJobStatus
<1> QED
  BY <1>1, <1>3 DEF Stepwise

\* Going on with a handler hands tasks out, as ready.
LEMMA ProceedStepwise ==
  ASSUME State, Plain, Tidy, Sunk, Ordered, Stepwise, Inv(0 .. MaxAttempts, BoundedEvent)',
         Proceed(Replica), ProceedFrameOf(Replica), ProceedEffect(Replica)
  PROVE  Stepwise' /\ Advances
<1>0. /\ Replica \in Thread /\ Calm /\ held' = held
      /\ task \in [Task -> TaskStatus] /\ attempts \in [Task -> Nat]
  BY CalmMeans DEF Plain, Steady, ProceedFrameOf, State, Inv, RowsTyped
<1>1. SameOrder
  <2>1. \A e \in thread[Replica].out : e.type = "ready"
    BY DEF Stepwise
  <2>2. \A e \in Of({"failed"}) : e.type = "failed"
    BY DEF Of
  <2> QED
    BY <1>0, <2>1, <2>2, ProceedLine
<1>2. CASE ReadEffect(Replica)
  <2>1. Kept
    BY <1>0, <1>2, ProceedKept
  <2>2. UNCHANGED <<job, task, attempts>> /\ thread'[Replica].out = {}
    BY <1>2 DEF ReadEffect, rows
  <2>3. DispatchRead(Replica)
    BY <1>2 DEF ReadEffect, Proceed, DispatchRead, DispatchCommit, Emit, Refresh
  <2>4. \A t \in thread'[Replica].batch : thread'[Replica].snap[t] = 0
    BY <2>3, ReadSnap
  <2> QED
    BY <1>0, <1>1, <2>1, <2>2, <2>4, SilentStepwise DEF Kept, Advances
<1>3. CASE EmitEffect(Replica)
  <2>1. Kept
    BY <1>0, <1>3, ProceedKept
  <2>2. /\ UNCHANGED <<job, task, attempts>> /\ thread'[Replica].out \subseteq thread[Replica].out
        /\ thread'[Replica].batch = {}
    BY <1>3 DEF EmitEffect, rows
  <2> QED
    BY <1>0, <1>1, <2>1, <2>2, SilentStepwise DEF Kept, Advances
<1>4. \A t \in Task : /\ task[t] \in {"pending", "ready", "running", "completed", "failed"}
                      /\ task[t] = "pending" => attempts[t] = 0
                      /\ t \in Unpreceded(Starts, Results, Line) => task[t] = "running"
                      /\ t \in About(Copies, held) => t \in About(Starts, Line) \/ task[t] = "running"
                      /\ task[t] = "failed" =>
                           job = "failed" /\ t \notin All(Copies) \cup About(Starts, Line)
  BY DEF Stepwise, Waiting
<1>5. CASE RefreshEffect(Replica)
  <2>1. Kept
    BY <1>0, <1>5, ProceedKept
  <2>2. /\ task' = task /\ thread'[Replica].out = {} /\ thread'[Replica].batch = {}
        /\ job' = SetJobStatus(job, DerivedJobStatus({task[t] : t \in Task}))
    BY <1>0, <1>5, CommitsWhatIs DEF RefreshEffect
  <2>3. attempts' = attempts
    BY <1>5 DEF RefreshEffect, Proceed, DispatchRead, DispatchCommit, Emit, Refresh, rows
  <2>4. job' \in {"planning", "running", "succeeded", "failed"} /\ (job = "failed" => job' = "failed")
    BY <2>2, RefreshedJob
  <2> QED
    BY <1>0, <1>1, <1>4, <2>1, <2>2, <2>3, <2>4 DEF Stepwise, Waiting, SameOrder, Kept, Advances
<1>6. CASE CommitEffect(Replica)
  <2> DEFINE S == thread[Replica].batch
  <2>1. DispatchCommit(Replica)
    BY <1>6 DEF CommitEffect, Proceed, DispatchRead, DispatchCommit, Emit, Refresh
  <2>2. /\ task' = [t \in Task |-> IF t \in S THEN "ready" ELSE task[t]]
        /\ attempts' = [t \in Task |-> IF t \in S THEN 1 ELSE attempts[t]]
        /\ \A e \in thread'[Replica].out : e.type = "ready"
    BY <2>1, CommitReady
  <2>3. /\ All(Copies)' \subseteq All(Copies) \cup S
        /\ \A t \in S : task[t] = "pending"
        /\ thread'[Replica].batch = {} /\ job' = job
    BY <1>0, <1>6, CommitCopies DEF Tidy, Untouched, CommitEffect
  <2> HIDE DEF S
  <2>4. Advances
    BY <2>2, <2>3 DEF Advances, TaskTransitions
  <2>5. ASSUME NEW t \in Task
        PROVE  /\ task'[t] \in {"pending", "ready", "running", "completed", "failed"}
               /\ task'[t] = "pending" => attempts'[t] = 0
               /\ t \in Unpreceded(Starts, Results, Line)' => task'[t] = "running"
               /\ t \in About(Copies, held)' => t \in About(Starts, Line)' \/ task'[t] = "running"
               /\ task'[t] = "failed" =>
                    job' = "failed" /\ t \notin All(Copies)' \cup About(Starts, Line)'
    <3>1. CASE t \in S
      <4>1. task[t] = "pending" /\ t \notin About(Starts, Line) /\ task'[t] = "ready"
        BY <2>2, <2>3, <3>1 DEF Ordered, Waiting
      <4>2. t \notin Unpreceded(Starts, Results, Line) /\ t \notin About(Copies, held)
        BY <1>4, <4>1
      <4> QED
        BY <1>0, <1>1, <4>1, <4>2 DEF SameOrder
    <3>2. CASE t \notin S
      BY <1>0, <1>1, <1>4, <2>2, <2>3, <3>2 DEF SameOrder
    <3> QED
      BY <3>1, <3>2
  <2>6. job' \in {"planning", "running", "succeeded", "failed"}
    BY <2>3 DEF Stepwise
  <2> QED
    BY <2>2, <2>3, <2>4, <2>5, <2>6 DEF Stepwise, Waiting
<1> QED
  BY <1>2, <1>3, <1>5, <1>6 DEF ProceedEffect

\* The invariant is inductive, and every step follows the machine.
LEMMA NextStepwise ==
  ASSUME State, Plain, Tidy, Sunk, Ordered, Stepwise, [Next]_vars
  PROVE  Stepwise' /\ Advances
<1>1. Calm /\ ~Redelivers /\ thread[Http].pc = "idle"
  BY DEF Plain, Steady, Tidy
<1>2. ~ApiFault
  BY <1>1, ErrorKept
<1>3. Inv(0 .. MaxAttempts, BoundedEvent)'
  BY NextBounded DEF Plain, Stepwise
<1>4. CASE WorkerStep \/ WorkerFault
  <2>1. task' = task
    BY <1>4, OthersLeave DEF rows
  <2> QED
    BY <1>3, <1>4, <2>1, WorkersStepwise DEF Advances
<1>5. CASE HandleEvent(Replica)
  BY <1>3, <1>5, HandlerStepwise
<1>6. CASE Proceed(Replica) /\ ProceedFrameOf(Replica) /\ ProceedEffect(Replica)
  BY <1>3, <1>6, ProceedStepwise
<1>7. CASE \/ Deliver(Replica) \/ NextEntry(Replica) \/ RecoverPending(Replica) \/ Ack(Replica)
           \/ ServiceStep \/ Rests
  BY <1>3, <1>7, LoopStepwise
<1> QED
  BY <1>1, <1>2, <1>4, <1>5, <1>6, <1>7, CalmStep

\* When the plan has just been stored, every task is pending and nobody has anything in hand.
LEMMA InitStepwise ==
  ASSUME Plain, Init
  PROVE  Stepwise
<1>1. Inv(0 .. MaxAttempts, BoundedEvent) /\ Steady /\ Calm
  BY NextBounded DEF Plain, Steady
<1>2. \E a \in Api :
        thread = [x \in Thread |->
                    IF x = a THEN [Handle(PlanCreated) EXCEPT !.pc = "dispatch", !.refreshes = 1]
                    ELSE Idle]
  BY DEF Init
<1>3. /\ [Handle(PlanCreated) EXCEPT !.pc = "dispatch", !.refreshes = 1].pc = "dispatch"
      /\ [Handle(PlanCreated) EXCEPT !.pc = "dispatch", !.refreshes = 1].out = {}
      /\ [Handle(PlanCreated) EXCEPT !.pc = "dispatch", !.refreshes = 1].batch = {}
  BY DEF Handle, Idle
<1>4. thread[Replica].pc = "dispatch" /\ thread[Replica].batch = {} /\ thread[Replica].out = {}
  BY <1>1, <1>2, <1>3, CalmMeans
<1>5. Line = <<>> \o <<>>
  BY <1>1, <1>4, CalmMeans DEF Line, Rest, Init, Stream
<1>6. Line = <<>>
  BY <1>5
<1>7. Unpreceded(Starts, Results, Line) = {}
  BY <1>6 DEF About, Unpreceded
<1>8. About(Copies, held) = {}
  <2>1. \A w \in Worker : One(Copies, held[w]) = {}
    BY CopiesAre DEF Init
  <2> QED
    BY <2>1 DEF About, Init
<1> QED
  BY <1>1, <1>4, <1>7, <1>8 DEF Stepwise, Init, NoCount

\* With valid inputs, no policy gate, and retries by the workers, a task changes its status as
\* TASK_TRANSITIONS allows, for every plan: no start is handled after the task's result, and no
\* result before the start, wherever the entries wait in between.
THEOREM MachineFollowed ==
  ASSUME Plain
  PROVE  Spec => TaskStatusFollowsMachine
<1> DEFINE IInv == InOrder /\ Stepwise
<1>1. Init => IInv
  BY OrderIsKept, InitStepwise DEF Plain
<1>2. IInv /\ [Next]_vars => IInv' /\ Advances
  BY OrderIsKept, NextStepwise DEF Plain, InOrder
<1>3. TaskStatusFollowsMachine <=> [][Advances]_vars
  BY DEF TaskStatusFollowsMachine, Advances
<1>4. IInv /\ [Next]_vars => IInv' /\ [Advances]_vars
  BY <1>2
<1> HIDE DEF IInv
<1> QED
  BY <1>1, <1>3, <1>4, PTL DEF Spec

-----------------------------------------------------------------------------
(* What the plan is promised.                                              *)

\* StateOf, by the queues; and the outcome.
Where(t) ==
  IF task[t] \in Done THEN "done"
  ELSE IF task[t] = "failed" THEN "failed"
  ELSE IF t \in About(Copies, held) THEN "executing"
  ELSE IF t \in About(Results, Line) THEN "reported"
  ELSE "waiting"

\* What the promise sees of the job.
Outcome == IF job \in {"succeeded", "failed"} THEN job ELSE "open"

\* StateOf and Where agree.
Viewed == \A t \in Task : StateOf(t) = Where(t)

\* A result is one of the events Reported asks for.
LEMMA ResultIs ==
  ASSUME NEW t \in Task, NEW e \in TaskEvent \cup {PlanCreated, NoEvent}
  PROVE  /\ (e # NoEvent /\ e.task = t /\ e.type \in {"completed", "failed"}) <=> t \in One(Results, e)
         /\ t \in One(Results, e) <=> e \in Results /\ e.task = t
<1>1. CASE e \in TaskEvent
  BY <1>1, OrchestratorAssumption DEF One, Results, Of
<1>2. CASE e = PlanCreated
  BY <1>2, OrchestratorAssumption DEF One, Results, Of, PlanCreated, Mk
<1>3. CASE e = NoEvent
  BY <1>3, OrchestratorAssumption DEF One, Results, Of
<1> QED
  BY <1>1, <1>2, <1>3

\* The results of a sequence.
LEMMA ResultsOf ==
  ASSUME NEW t \in Task, NEW s \in Seq(TaskEvent)
  PROVE  (\E i \in DOMAIN s : s[i] # NoEvent /\ s[i].task = t /\ s[i].type \in {"completed", "failed"})
           <=> t \in About(Results, s)
<1>1. \A i \in DOMAIN s : s[i] \in TaskEvent
  OBVIOUS
<1>2. \A i \in DOMAIN s :
        (s[i] # NoEvent /\ s[i].task = t /\ s[i].type \in {"completed", "failed"})
          <=> s[i] \in Results /\ s[i].task = t
  BY <1>1, ResultIs
<1>3. t \in About(Results, s) <=> \E i \in DOMAIN s : s[i] \in Results /\ s[i].task = t
  BY AboutIff
<1> QED
  BY <1>2, <1>3

\* The two ways to say where a task is agree.
LEMMA ViewIs ==
  ASSUME State, Calm, Ordered
  PROVE  Viewed
<1> SUFFICES ASSUME NEW t \in Task PROVE StateOf(t) = Where(t)
  BY DEF Viewed
<1> DEFINE ev == thread[Replica].ev
           q  == inbox[Replica]
           T  == stream["tasks"]
<1>0. /\ q \in Seq(TaskEvent) /\ T \in Seq(TaskEvent) /\ held \in [Worker -> Of({"ready"}) \cup {NoEvent}]
      /\ ev \in TaskEvent \cup {PlanCreated, NoEvent}
      /\ pending = <<>> /\ Api = {Replica}
      /\ q \in Seq(Report) /\ T \in Seq(Report) /\ Rest \in Seq(Report)
      /\ thread[Replica].pc = "handle" => ev \in Report
  BY CalmMeans, LineTyped
  DEF State, Inv, Kinds, QueuesTyped, Threads, ThreadRecord, Stream, Ordered, Calm
<1>1. (\E w \in Worker : held[w] # NoEvent /\ held[w].task = t) <=> t \in About(Copies, held)
  <2>1. \A w \in Worker : held[w] # NoEvent <=> held[w] \in Copies
    BY <1>0, OrchestratorAssumption DEF Copies, Of
  <2>2. t \in About(Copies, held) <=> \E w \in Worker : held[w] \in Copies /\ held[w].task = t
    BY <1>0, AboutIff
  <2> QED
    BY <2>1, <2>2
<1>2. Reported(t) <=> \/ t \in About(Results, T) \/ t \in About(Results, q)
                      \/ thread[Replica].pc = "handle" /\ t \in One(Results, ev)
  <2>1. DOMAIN pending = {}
    BY <1>0
  <2>2. (\E i \in DOMAIN T : T[i] # NoEvent /\ T[i].task = t /\ T[i].type \in {"completed", "failed"})
          <=> t \in About(Results, T)
    BY <1>0, ResultsOf
  <2>3. (\E i \in DOMAIN q : q[i] # NoEvent /\ q[i].task = t /\ q[i].type \in {"completed", "failed"})
          <=> t \in About(Results, q)
    BY <1>0, ResultsOf
  <2>4. (ev # NoEvent /\ ev.task = t /\ ev.type \in {"completed", "failed"}) <=> t \in One(Results, ev)
    BY <1>0, ResultIs
  <2> QED
    BY <1>0, <2>1, <2>2, <2>3, <2>4 DEF Reported
<1>3. t \in About(Results, Line) <=> \/ t \in About(Results, T) \/ t \in About(Results, q)
                                     \/ thread[Replica].pc = "handle" /\ t \in One(Results, ev)
  <2>1. /\ Rest = q \o T
        /\ thread[Replica].pc = "handle" => Line = Single(ev) \o Rest
        /\ thread[Replica].pc # "handle" => Line = Rest
    BY DEF Line, Rest
  <2> HIDE DEF q, T, ev, Report
  <2>2. About(Results, q \o T) = About(Results, q) \cup About(Results, T)
    BY <1>0, JoinAbout
  <2>3. ev \in Report => About(Results, Single(ev) \o Rest) = One(Results, ev) \cup About(Results, Rest)
    BY <1>0, LineFirst
  <2> QED
    BY <1>0, <2>1, <2>2, <2>3
<1>4. Reported(t) <=> t \in About(Results, Line)
  BY <1>2, <1>3
<1> QED
  BY <1>1, <1>4 DEF StateOf, Where

\* A step that moves no task.
LEMMA NotMoved ==
  ASSUME Viewed, Viewed', \A t \in Task : Where(t)' = Where(t), Outcome' = Outcome
  PROVE  UNCHANGED Promised!vars
<1>1. \A t \in Task : StateOf(t)' = StateOf(t)
  BY DEF Viewed
<1>2. [t \in Task |-> StateOf(t)]' = [t \in Task |-> StateOf(t)]
  BY <1>1
<1> QED
  BY <1>2 DEF Promised!vars, Outcome

\* A step that moves one.
LEMMA Moved ==
  ASSUME Viewed, Viewed', NEW t \in Task, NEW from, NEW to, Where(t) = from, Where(t)' = to,
         \A u \in Task : u # t => Where(u)' = Where(u)
  PROVE  Promised!Move(t, from, to)
<1>1. /\ StateOf(t) = from /\ StateOf(t)' = to
      /\ \A u \in Task : u # t => StateOf(u)' = StateOf(u)
  BY DEF Viewed
<1>2. [u \in Task |-> StateOf(u)]' = [[u \in Task |-> StateOf(u)] EXCEPT ![t] = to]
  BY <1>1
<1> QED
  BY <1>1, <1>2 DEF Promised!Move

\* What the invariants say of where a task is.
LEMMA WhereIs ==
  ASSUME State, Calm, Tidy, Ordered, Stepwise, NEW t \in Task
  PROVE  /\ t \in All(Copies) => task[t] \notin Done /\ task[t] # "failed"
         /\ t \in At(Copies, "held") => Where(t) = "executing" /\ t \notin About(Results, Line)
         /\ t \in At(Copies, "ready") \cup At(Copies, "orphaned") =>
              Where(t) = "waiting" /\ t \notin About(Results, Line) /\ t \notin About(Copies, held)
         /\ t \in At(Copies, "hand") => t \notin About(Copies, held)
<1>1. t \in All(Copies) => task[t] \notin Done /\ task[t] # "failed"
  BY DEF Ordered, Stepwise
<1>2. /\ At(Copies, "held") = About(Copies, held)
      /\ {"ready", "held", "orphaned", "hand", "inbox", "tasks"} \subseteq Place
  BY AtIs DEF Place
<1>3. About(Results, Line) \subseteq At(Copies, "hand") \cup At(Copies, "inbox") \cup At(Copies, "tasks")
  BY LineCopies
<1>4. ASSUME NEW p \in {"ready", "orphaned", "held"}, t \in At(Copies, p)
      PROVE  /\ t \notin About(Results, Line) /\ t \in All(Copies)
             /\ p # "held" => t \notin About(Copies, held)
  BY <1>2, <1>3, <1>4, OnlyThere
<1>5. t \in At(Copies, "held") => Where(t) = "executing" /\ t \notin About(Results, Line)
  BY <1>1, <1>2, <1>4 DEF Where
<1>6. ASSUME NEW p \in {"ready", "orphaned"}, t \in At(Copies, p)
      PROVE  Where(t) = "waiting" /\ t \notin About(Results, Line) /\ t \notin About(Copies, held)
  BY <1>1, <1>4, <1>6 DEF Where
<1>7. t \in At(Copies, "hand") => t \notin About(Copies, held)
  BY <1>2, OnlyThere
<1> QED
  BY <1>1, <1>5, <1>6, <1>7

\* A worker puts down what it has: nobody executes that task then, and the others as before.
LEMMA HeldWithout ==
  ASSUME State, Tidy, NEW w \in Worker, held[w] # NoEvent, held' = [held EXCEPT ![w] = NoEvent]
  PROVE  /\ held[w].task \in Task /\ held[w].task \in At(Copies, "held")
         /\ About(Copies, held)' = About(Copies, held) \ {held[w].task}
<1>1. /\ held \in [Worker -> TaskEvent \cup {NoEvent}] /\ Once(Copies, held)
      /\ Copies \in {Copies, Open}
  BY DEF State, Inv, QueuesTyped, Tidy, OnceEach
<1>2. One(Copies, held[w]) = {held[w].task} /\ held[w].task \in Task
  BY HeldIsCopy
<1>3. About(Copies, held') \subseteq About(Copies, held) /\ One(Copies, held[w]) \subseteq About(Copies, held)
  BY <1>1, PutsDown
<1>4. One(Copies, held[w]) \cap About(Copies, held') = {}
  BY <1>1, PutsDownOnce
<1>5. About(Copies, held) \subseteq About(Copies, held') \cup One(Copies, held[w])
  BY <1>1, AboutReplaced
<1>6. held[w].task \in At(Copies, "held")
  BY <1>2, <1>3, AtIs
<1> QED
  BY <1>2, <1>3, <1>4, <1>5, <1>6

\* A worker takes something up.
LEMMA HeldWith ==
  ASSUME State, NEW w \in Worker, NEW e \in Of({"ready"}), held[w] = NoEvent,
         held' = [held EXCEPT ![w] = e]
  PROVE  About(Copies, held)' = About(Copies, held) \cup {e.task}
<1>1. held \in [Worker -> TaskEvent \cup {NoEvent}] /\ e \in TaskEvent /\ Copies \in {Copies, Open}
  BY DEF State, Inv, QueuesTyped, Of
<1>2. One(Copies, e) = {e.task} /\ One(Copies, NoEvent) = {}
  BY <1>1, CopyOfReady, CopiesAre
<1>3. About(Copies, held') \subseteq About(Copies, held) \cup One(Copies, e)
  BY <1>1, TakesUp
<1> DEFINE E == TaskEvent \cup {NoEvent}
<1>4. held \in [Worker -> E] /\ e \in E
  BY <1>1
<1> HIDE DEF E
<1>5. One(Copies, e) \subseteq About(Copies, held')
  BY <1>4, AboutNew
<1>6. About(Copies, held) \subseteq About(Copies, held') \cup One(Copies, held[w])
  BY <1>4, AboutReplaced
<1> QED
  BY <1>2, <1>3, <1>5, <1>6

\* What the workers do is a start, a report or a retry.
LEMMA WorkersSimulate ==
  ASSUME State, Plain, Tidy, Ordered, Stepwise, Viewed, Viewed', WorkerStep \/ WorkerFault
  PROVE  \E t \in Task : Promised!Start(t) \/ Promised!Retry(t) \/ Promised!Report(t)
<1>0. /\ Calm /\ UNCHANGED <<rows, thread>> /\ Line \in Seq(Report)
  BY OthersLeave, LineTyped DEF Plain, Steady
<1>1. Outcome' = Outcome /\ task' = task
  BY <1>0 DEF Outcome, rows
<1>2. ASSUME NEW t \in Task,
             About(Copies, held)' \cup {t} = About(Copies, held) \cup {t},
             About(Results, Line)' \cup {t} = About(Results, Line) \cup {t}
      PROVE  \A u \in Task : u # t => Where(u)' = Where(u)
  <2>1. \A u \in Task : u # t =>
          /\ u \in About(Copies, held)' <=> u \in About(Copies, held)
          /\ u \in About(Results, Line)' <=> u \in About(Results, Line)
    BY <1>2
  <2> QED
    BY <1>1, <2>1 DEF Where
<1>3. CASE SameOrder /\ \E w \in Worker : /\ held[w] # NoEvent
                                         /\ held' = [held EXCEPT ![w] = NoEvent]
  <2>1. PICK w \in Worker : held[w] # NoEvent /\ held' = [held EXCEPT ![w] = NoEvent]
    BY <1>3
  <2>2. PICK t \in Task :
          /\ t \in At(Copies, "held")
          /\ About(Copies, held)' = About(Copies, held) \ {t}
          /\ About(Results, Line)' = About(Results, Line)
    BY <1>3, <2>1, HeldWithout DEF SameOrder
  <2>3. /\ Where(t) = "executing" /\ t \notin About(Results, Line)
        /\ task[t] \notin Done /\ task[t] # "failed"
    BY <1>0, <2>2, WhereIs DEF All, Place
  <2>4. Where(t)' = "waiting"
    BY <1>1, <2>2, <2>3 DEF Where
  <2>5. \A u \in Task : u # t => Where(u)' = Where(u)
    BY <1>2, <2>2
  <2>6. Promised!Move(t, "executing", "waiting")
    BY <2>2, <2>3, <2>4, <2>5, Moved
  <2>7. Promised!Retry(t)
    BY <1>1, <2>6 DEF Promised!Retry, Outcome
  <2> QED
    BY <2>2, <2>7
<1>4. CASE \E w \in Worker, e \in Of({"ready"}) :
             /\ \/ Take(w) /\ e = Head(ready)
                \/ Claim(w) /\ e = Head(orphaned)
             /\ held[w] = NoEvent /\ held' = [held EXCEPT ![w] = e]
             /\ Line' = Append(Line, Mk("started", e.task, e.n, FALSE))
  <2>1. PICK w \in Worker, e \in Of({"ready"}) :
             /\ \/ Take(w) /\ e = Head(ready)
                \/ Claim(w) /\ e = Head(orphaned)
             /\ held[w] = NoEvent /\ held' = [held EXCEPT ![w] = e]
             /\ Line' = Append(Line, Mk("started", e.task, e.n, FALSE))
    BY <1>4
  <2> DEFINE s == Mk("started", e.task, e.n, FALSE)
             t == e.task
  <2>2. s \in TaskEvent /\ One(Results, s) = {} /\ t \in Task
    <3>1. t \in Task /\ s \in TaskEvent
      BY DEF Mk, TaskEvent, EventType, Of
    <3>2. s \notin Results
      BY DEF Results, Of, Mk
    <3> QED
      BY <3>1, <3>2 DEF One
  <2>3. t \in At(Copies, "ready") \cup At(Copies, "orphaned")
    <3>1. One(Copies, e) = {t}
      BY CopyOfReady
    <3>2. /\ ready # <<>> => One(Copies, Head(ready)) \subseteq About(Copies, ready)
          /\ orphaned # <<>> => One(Copies, Head(orphaned)) \subseteq About(Copies, orphaned)
      BY FirstTaken DEF State, Inv, QueuesTyped
    <3>3. \/ ready # <<>> /\ e = Head(ready)
          \/ orphaned # <<>> /\ e = Head(orphaned)
      BY <2>1 DEF Take, Claim
    <3>4. t \in About(Copies, ready) \/ t \in About(Copies, orphaned)
      BY <3>1, <3>2, <3>3
    <3> QED
      BY <3>4, AtIs
  <2>4. About(Copies, held)' = About(Copies, held) \cup {t}
    BY <2>1, HeldWith
  <2>5. Line' = Append(Line, s)
    BY <2>1
  <2> HIDE DEF s, t
  <2>6. About(Results, Append(Line, s)) = About(Results, Line) \cup One(Results, s)
    BY <1>0, <2>2, AppendedOrder
  <2>7. About(Results, Line)' = About(Results, Line)
    BY <2>2, <2>5, <2>6
  <2>8. /\ Where(t) = "waiting" /\ t \in All(Copies)
        /\ task[t] \notin Done /\ task[t] # "failed" /\ task[t] # "pending"
    BY <1>0, <2>2, <2>3, WhereIs DEF All, Place, Tidy, Untouched
  <2>9. Where(t)' = "executing"
    BY <1>1, <2>4, <2>8 DEF Where
  <2>10. \A u \in Task : u # t => Where(u)' = Where(u)
    BY <1>2, <2>2, <2>4, <2>7
  <2>11. Promised!Move(t, "waiting", "executing")
    BY <2>2, <2>8, <2>9, <2>10, Moved
  <2>12. \A d \in Deps[t] : d \in Task /\ StateOf(d) = "done"
    <3>1. \A d \in Deps[t] : d \in Task /\ task[d] \in Done
      BY <2>2, <2>8, OrchestratorAssumption DEF Ordered
    <3> QED
      BY <3>1 DEF Viewed, Where
  <2>13. Promised!Start(t)
    BY <1>1, <2>11, <2>12 DEF Promised!Start, Outcome
  <2> QED
    BY <2>2, <2>13
<1>5. CASE \E w \in Worker, e \in Results :
             /\ Finish(w)
             /\ held[w] # NoEvent /\ held' = [held EXCEPT ![w] = NoEvent]
             /\ e.task = held[w].task /\ Line' = Append(Line, e)
  <2>1. PICK w \in Worker, e \in Results :
             /\ held[w] # NoEvent /\ held' = [held EXCEPT ![w] = NoEvent]
             /\ e.task = held[w].task /\ Line' = Append(Line, e)
    BY <1>5
  <2>2. PICK t \in Task :
          /\ t \in At(Copies, "held") /\ t = e.task
          /\ About(Copies, held)' = About(Copies, held) \ {t}
    BY <2>1, HeldWithout
  <2>3. e \in TaskEvent /\ One(Results, e) = {t}
    BY <2>1, <2>2 DEF Results, Of, One
  <2>4. About(Results, Append(Line, e)) = About(Results, Line) \cup One(Results, e)
    BY <1>0, <2>3, AppendedOrder
  <2>5. About(Results, Line)' = About(Results, Line) \cup {t}
    BY <2>1, <2>3, <2>4
  <2>6. Where(t) = "executing" /\ task[t] \notin Done /\ task[t] # "failed"
    BY <1>0, <2>2, WhereIs DEF All, Place
  <2>7. Where(t)' = "reported"
    BY <1>1, <2>2, <2>5, <2>6 DEF Where
  <2>8. \A u \in Task : u # t => Where(u)' = Where(u)
    BY <1>2, <2>2, <2>5
  <2>9. Promised!Move(t, "executing", "reported")
    BY <2>2, <2>6, <2>7, <2>8, Moved
  <2>10. Promised!Report(t)
    BY <1>1, <2>9 DEF Promised!Report, Outcome
  <2> QED
    BY <2>2, <2>10
<1> QED
  BY <1>0, <1>3, <1>4, <1>5, WorkerLine

\* Two lists that differ in nothing but t, and rows that do neither.
LEMMA WhereOthers ==
  ASSUME NEW t, NEW u \in Task, u # t, task'[u] = task[u],
         About(Copies, held)' \cup {t} = About(Copies, held) \cup {t},
         About(Results, Line)' \cup {t} = About(Results, Line) \cup {t}
  PROVE  Where(u)' = Where(u)
<1>1. /\ u \in About(Copies, held)' <=> u \in About(Copies, held)
      /\ u \in About(Results, Line)' <=> u \in About(Results, Line)
  OBVIOUS
<1> QED
  BY <1>1 DEF Where

\* A step that leaves the rows, the workers and the results alone, or moves a task between
\* statuses the promise does not tell apart.
LEMMA SilentSimulates ==
  ASSUME Viewed, Viewed', held' = held, About(Results, Line)' = About(Results, Line),
         \A t \in Task : \/ task'[t] = task[t]
                         \/ {task[t], task'[t]} \subseteq {"pending", "ready", "running"},
         Outcome' = Outcome
  PROVE  UNCHANGED Promised!vars
<1>1. About(Copies, held)' = About(Copies, held)
  OBVIOUS
<1>2. \A t \in Task : Where(t)' = Where(t)
  BY <1>1 DEF Where, Done
<1> QED
  BY <1>2, NotMoved

\* What a handler does is to record a result, to give a task up, or nothing to the promise.
LEMMA HandlerSimulates ==
  ASSUME State, Plain, Tidy, Sunk, Ordered, Stepwise, Viewed, Viewed', HandleEvent(Replica)
  PROVE  [Promised!Next]_(Promised!vars)
<1> DEFINE ev == thread[Replica].ev
<1>0. /\ Calm /\ HandlerFrameOf(Replica) /\ PlainEffect /\ Replica \in Thread
      /\ task \in [Task -> TaskStatus] /\ held' = held
  BY CalmMeans, HandlerIs, PlainHandler
  DEF Plain, Steady, State, Inv, RowsTyped, HandlerFrameOf, workers
<1>1. \A t \in Task :
        /\ t \in Unpreceded(Starts, Results, Line) => task[t] = "running"
        /\ task[t] = "pending" => t \notin About(Starts, Line)
        /\ task[t] \in Done => t \notin About(Starts, Line)
        /\ task[t] = "failed" => t \notin About(Starts, Line)
        /\ task[t] \in {"pending", "ready", "running", "completed", "failed"}
  BY DEF Stepwise, Ordered, Waiting
<1>2. /\ job \in {"planning", "running", "succeeded", "failed"}
      /\ job = "succeeded" => \A t \in Task : task[t] \in Done
  BY DEF Stepwise, Ordered
<1>3. thread[Replica].pc = "handle" =>
        /\ About(Starts, Line) = One(Starts, ev) \cup About(Starts, Line)'
        /\ About(Results, Line) = One(Results, ev) \cup About(Results, Line)'
        /\ Unpreceded(Starts, Results, Line)
             = One(Results, ev) \cup (Unpreceded(Starts, Results, Line)' \ One(Starts, ev))
  BY <1>0, HandledLine
<1>4. CASE thread[Replica].pc = "handle" /\ ev = PlanCreated /\ UNCHANGED <<task, job>>
  <2>1. One(Results, ev) = {}
    BY <1>4 DEF One, Results, Of, PlanCreated, Mk
  <2>2. About(Results, Line)' = About(Results, Line) /\ Outcome' = Outcome
    BY <1>3, <1>4, <2>1 DEF Outcome
  <2> QED
    BY <1>0, <1>4, <2>2, SilentSimulates
<1>5. CASE /\ thread[Replica].pc = "handle" /\ ev \in Starts
           /\ task' = [task EXCEPT ![ev.task] = "running"] /\ job' = SetJobStatus(job, "running")
  <2>1. /\ One(Starts, ev) = {ev.task} /\ One(Results, ev) = {} /\ ev.task \in Task
    BY <1>5 DEF One, Starts, Results, Of, TaskEvent
  <2>2. PICK t \in Task : t = ev.task
    BY <2>1
  <2>3. /\ task'[t] = "running" /\ \A u \in Task : u # t => task'[u] = task[u]
        /\ About(Results, Line)' = About(Results, Line) /\ t \in About(Starts, Line)
    BY <1>0, <1>3, <1>5, <2>1, <2>2
  <2>4. task[t] \in {"ready", "running"}
    BY <1>1, <2>3 DEF Done
  <2>5. Outcome' = Outcome
    <3>1. job # "succeeded"
      BY <1>2, <2>4 DEF Done
    <3> QED
      BY <1>2, <1>5, <3>1 DEF Outcome, SetJobStatus, JobTransitions
  <2> QED
    BY <1>0, <2>3, <2>4, <2>5, SilentSimulates
<1>6. ASSUME thread[Replica].pc = "handle", ev \in Results, NEW s \in {"completed", "failed"},
             task' = [task EXCEPT ![ev.task] = s]
      PROVE  \E t \in Task : /\ job # "succeeded"
                             /\ Promised!Move(t, "reported", IF s = "failed" THEN "failed" ELSE "done")
  <2>1. /\ One(Results, ev) = {ev.task} /\ ev.task \in Task /\ ev \in Copies
    BY <1>6 DEF One, Results, Copies, Of, TaskEvent
  <2>2. PICK t \in Task : t = ev.task
    BY <2>1
  <2>3. /\ task'[t] = s /\ \A u \in Task : u # t => task'[u] = task[u]
        /\ About(Results, Line)' \cup {t} = About(Results, Line) \cup {t}
        /\ t \in About(Results, Line) /\ task[t] = "running"
    BY <1>0, <1>1, <1>3, <1>6, <2>1, <2>2
  <2>4. t \notin About(Copies, held)
    <3>1. One(Copies, ev) = {t}
      BY <2>1, <2>2 DEF One
    <3>2. t \in At(Copies, "hand")
      BY <1>6, <3>1, AtIs DEF InHandOf
    <3> QED
      BY <1>0, <3>2, WhereIs
  <2>5. Where(t) = "reported"
    BY <2>3, <2>4 DEF Where, Done
  <2>6. Where(t)' = IF s = "failed" THEN "failed" ELSE "done"
    BY <2>3 DEF Where, Done
  <2>7. \A u \in Task : u # t => Where(u)' = Where(u)
    BY <1>0, <2>3, WhereOthers
  <2>8. job # "succeeded"
    BY <1>2, <2>3 DEF Done
  <2> DEFINE to == IF s = "failed" THEN "failed" ELSE "done"
  <2> HIDE DEF to
  <2>9. Where(t)' = to
    BY <2>6 DEF to
  <2>10. Promised!Move(t, "reported", to)
    BY <2>5, <2>7, <2>9, Moved
  <2> QED
    BY <2>8, <2>10 DEF to
<1>7. CASE /\ thread[Replica].pc = "handle" /\ ev \in Of({"completed"})
           /\ task' = [task EXCEPT ![ev.task] = "completed"] /\ job' = job
  <2>1. ev \in Results
    BY <1>7 DEF Results, Of
  <2>2. PICK t \in Task : Promised!Move(t, "reported", "done")
    BY <1>6, <1>7, <2>1
  <2>3. Promised!Record(t)
    BY <1>7, <2>2 DEF Promised!Record
  <2> QED
    BY <2>3 DEF Promised!Next, Promised!Finish
<1>8. CASE /\ thread[Replica].pc = "handle" /\ ev \in Of({"failed"})
           /\ task' = [task EXCEPT ![ev.task] = "failed"] /\ job' = SetJobStatus(job, "failed")
  <2>1. ev \in Results
    BY <1>8 DEF Results, Of
  <2>2. PICK t \in Task : job # "succeeded" /\ Promised!Move(t, "reported", "failed")
    BY <1>6, <1>8, <2>1
  <2>3. job' = "failed"
    BY <1>2, <1>8, <2>2 DEF SetJobStatus, JobTransitions
  <2>4. Promised!GiveUp(t)
    BY <1>2, <2>2, <2>3 DEF Promised!GiveUp, Promised!Fail
  <2> QED
    BY <2>4 DEF Promised!Next, Promised!Finish
<1>9. CASE /\ thread[Replica].pc = "giveUp"
           /\ task' = [task EXCEPT ![ev.task] = "failed"] /\ job' = SetJobStatus(job, "failed")
  <2>1. task[ev.task] = "failed" /\ ev.task \in Task
    <3>1. thread[Replica].end = "giveUp" /\ ev \in TaskEvent
      BY <1>0, <1>9, CalmMeans DEF State, Inv, Threads, Consistent
    <3> QED
      BY <3>1 DEF Sunk, TaskEvent
  <2>2. task' = task
    BY <1>0, <1>9, <2>1
  <2>3. job = "failed"
    BY <2>1 DEF Stepwise
  <2>4. Outcome' = Outcome
    BY <1>9, <2>3 DEF Outcome, SetJobStatus, JobTransitions
  <2>5. About(Results, Line)' = About(Results, Line)
    BY <1>0, <1>9, HandledLine DEF SameOrder
  <2> QED
    BY <1>0, <2>2, <2>4, <2>5, SilentSimulates
<1> QED
  BY <1>0, <1>4, <1>5, <1>7, <1>8, <1>9 DEF PlainEffect

\* Going on with a handler hands tasks out, which the promise does not see, or ends the job.
LEMMA ProceedSimulates ==
  ASSUME State, Plain, Tidy, Sunk, Ordered, Ordered', Stepwise, Viewed, Viewed',
         Proceed(Replica), ProceedFrameOf(Replica), ProceedEffect(Replica)
  PROVE  [Promised!Next]_(Promised!vars)
<1>0. /\ Replica \in Thread /\ Calm /\ held' = held
      /\ task \in [Task -> TaskStatus] /\ attempts \in [Task -> Nat]
  BY CalmMeans DEF Plain, Steady, ProceedFrameOf, State, Inv, RowsTyped
<1>1. About(Results, Line)' = About(Results, Line)
  <2>1. \A e \in thread[Replica].out : e.type = "ready"
    BY DEF Stepwise
  <2>2. \A e \in Of({"failed"}) : e.type = "failed"
    BY DEF Of
  <2> QED
    BY <1>0, <2>1, <2>2, ProceedLine DEF SameOrder
<1>2. CASE ReadEffect(Replica) \/ EmitEffect(Replica)
  <2>1. task' = task /\ job' = job
    BY <1>2 DEF ReadEffect, EmitEffect, rows
  <2> QED
    BY <1>0, <1>1, <2>1, SilentSimulates DEF Outcome
<1>3. CASE RefreshEffect(Replica)
  <2>1. /\ task' = task
        /\ job' = SetJobStatus(job, DerivedJobStatus({task[t] : t \in Task}))
    BY <1>0, <1>3, CommitsWhatIs DEF RefreshEffect
  <2>2. /\ job' \in {"planning", "running", "succeeded", "failed"}
        /\ job' = "failed" <=> job = "failed"
        /\ job = "succeeded" => job' = "succeeded"
        /\ job \in {"planning", "running", "succeeded", "failed"}
    BY <2>1, RefreshedJob DEF Stepwise
  <2>3. CASE job' = "succeeded" /\ job # "succeeded"
    <3>1. \A t \in Task : StateOf(t) = "done"
      <4>1. \A t \in Task : task[t] \in Done
        BY <2>1, <2>3 DEF Ordered
      <4> QED
        BY <4>1 DEF StateOf
    <3>2. \A t \in Task : StateOf(t)' = StateOf(t)
      BY <2>1, <3>1, <2>3 DEF StateOf, Ordered
    <3>3. [t \in Task |-> StateOf(t)]' = [t \in Task |-> StateOf(t)]
      BY <3>2
    <3>4. Promised!Succeed
      BY <2>2, <2>3, <3>1, <3>3 DEF Promised!Succeed
    <3> QED
      BY <3>4 DEF Promised!Next
  <2>4. CASE ~(job' = "succeeded" /\ job # "succeeded")
    <3>1. Outcome' = Outcome
      BY <2>2, <2>4 DEF Outcome
    <3> QED
      BY <1>0, <1>1, <2>1, <3>1, SilentSimulates
  <2> QED
    BY <2>3, <2>4
<1>4. CASE CommitEffect(Replica)
  <2>1. DispatchCommit(Replica)
    BY <1>4 DEF CommitEffect, Proceed, DispatchRead, DispatchCommit, Emit, Refresh
  <2>2. /\ task' = [t \in Task |-> IF t \in thread[Replica].batch THEN "ready" ELSE task[t]]
        /\ \A t \in thread[Replica].batch : task[t] = "pending"
        /\ job' = job
    BY <1>4, <2>1, CommitReady DEF Tidy, Untouched, CommitEffect
  <2>3. \A t \in Task : \/ task'[t] = task[t]
                        \/ {task[t], task'[t]} \subseteq {"pending", "ready", "running"}
    BY <2>2
  <2> QED
    BY <1>0, <1>1, <2>2, <2>3, SilentSimulates DEF Outcome
<1> QED
  BY <1>2, <1>3, <1>4 DEF ProceedEffect

\* The loop and the services move nothing.
LEMMA LoopSimulates ==
  ASSUME State, Plain, Ordered, Viewed, Viewed',
         \/ Deliver(Replica) \/ NextEntry(Replica) \/ RecoverPending(Replica) \/ Ack(Replica)
         \/ ServiceStep \/ Rests
  PROVE  UNCHANGED Promised!vars
<1>0. Replica \in Api /\ Replica \in Thread /\ Calm /\ Steady
  BY CalmMeans DEF Plain, Steady
<1>1. CASE Deliver(Replica) \/ NextEntry(Replica) \/ RecoverPending(Replica) \/ Ack(Replica)
  <2>1. SameOrder
    BY <1>0, <1>1, LoopLine
  <2>2. UNCHANGED <<rows, workers>>
    BY <1>0, <1>1, LoopIs DEF Picks
  <2> QED
    BY <2>1, <2>2, SilentSimulates DEF rows, workers, SameOrder, Outcome
<1>2. CASE ServiceStep \/ Rests
  <2>1. /\ UNCHANGED <<rows, thread, inbox, workers>> /\ stream'["tasks"] = stream["tasks"]
    BY <1>2 DEF ServiceStep, DecidePolicy, Review, LoseCheck, LoseReview, queues, Rests,
           State, Inv, QueuesTyped, Stream
  <2>2. SameOrder
    BY <1>0, <2>1, LineStays
  <2> QED
    BY <2>1, <2>2, SilentSimulates DEF rows, workers, SameOrder, Outcome
<1> QED
  BY <1>1, <1>2

\* Every step is one of the promise's, or none.
LEMMA StepSimulates ==
  ASSUME State, Plain, Tidy, Sunk, Ordered, Ordered', Stepwise, Viewed, Viewed', [Next]_vars
  PROVE  [Promised!Next]_(Promised!vars)
<1>1. Calm /\ ~Redelivers /\ thread[Http].pc = "idle"
  BY DEF Plain, Steady, Tidy
<1>2. ~ApiFault
  BY <1>1, ErrorKept
<1>3. CASE WorkerStep \/ WorkerFault
  BY <1>3, WorkersSimulate DEF Promised!Next
<1>4. CASE HandleEvent(Replica)
  BY <1>4, HandlerSimulates
<1>5. CASE Proceed(Replica) /\ ProceedFrameOf(Replica) /\ ProceedEffect(Replica)
  BY <1>5, ProceedSimulates
<1>6. CASE \/ Deliver(Replica) \/ NextEntry(Replica) \/ RecoverPending(Replica) \/ Ack(Replica)
           \/ ServiceStep \/ Rests
  BY <1>6, LoopSimulates
<1> QED
  BY <1>1, <1>2, <1>3, <1>4, <1>5, <1>6, CalmStep

\* When the plan has just been stored, every task waits.
LEMMA InitSimulates ==
  ASSUME Plain, Init
  PROVE  Promised!Init
<1>1. \A t \in Task : StateOf(t) = "waiting"
  <2>1. \A t \in Task : task[t] = "pending"
    BY DEF Init
  <2>2. \A w \in Worker : held[w] = NoEvent
    BY DEF Init
  <2>3. /\ DOMAIN stream["tasks"] = {} /\ DOMAIN pending = {}
        /\ \A x \in Api : DOMAIN inbox[x] = {}
    BY DEF Init, Stream
  <2>4. \A x \in Api : thread[x].pc # "handle"
    <3>1. PICK a \in Api :
            thread = [x \in Thread |->
                        IF x = a THEN [Handle(PlanCreated) EXCEPT !.pc = "dispatch", !.refreshes = 1]
                        ELSE Idle]
      BY DEF Init
    <3>2. /\ [Handle(PlanCreated) EXCEPT !.pc = "dispatch", !.refreshes = 1].pc = "dispatch"
          /\ Idle.pc = "idle"
      BY DEF Handle, Idle
    <3> QED
      BY <3>1, <3>2 DEF Thread
  <2>5. \A t \in Task : ~Reported(t)
    BY <2>3, <2>4 DEF Reported
  <2> QED
    BY <2>1, <2>2, <2>5 DEF StateOf, Done
<1>2. job = "planning"
  BY DEF Init
<1> QED
  BY <1>1, <1>2 DEF Promised!Init

\* With valid inputs, no policy gate, and retries by the workers, the control plane implements
\* the promise of module PlanRun step by step, for every plan, every number of workers and
\* attempts and whichever workers die: no task starts before its dependencies are done, nor
\* while it is executed or its result is on its way, no result is recorded that nobody reported,
\* nor twice, and the job ends as its tasks have.
THEOREM PlanExecuted ==
  ASSUME Plain
  PROVE  Spec => Promised!Spec
<1> DEFINE IInv == InOrder /\ Stepwise
<1>1. Init => IInv
  BY OrderIsKept, InitStepwise DEF Plain
<1>2. IInv /\ [Next]_vars => IInv'
  BY OrderIsKept, NextStepwise DEF Plain, InOrder
<1>3. IInv => Viewed
  BY ViewIs DEF InOrder, Plain, Steady
<1>4. Init => Promised!Init
  BY InitSimulates
<1>5. IInv /\ Viewed /\ IInv' /\ Viewed' /\ [Next]_vars => [Promised!Next]_(Promised!vars)
  BY StepSimulates DEF InOrder
<1> HIDE DEF IInv
<1> QED
  BY <1>1, <1>2, <1>3, <1>4, <1>5, PTL DEF Spec, Promised!Spec
=============================================================================
