-------------------------- MODULE EventOutboxProofs --------------------------
(***************************************************************************)
(* For any number of events, dispatchers and failures and any batch size:  *)
(* the outbox implements the safety of at-least-once delivery, and only    *)
(* three refusals together lose an event.  Both rest on one inductive      *)
(* invariant: which row a call holds, and that what a dispatcher is about  *)
(* to mark, or a call is about to mark, is on the stream already.          *)
(***************************************************************************)
EXTENDS EventOutbox, TLAPS

\* A call with a row holds the row of its event; at its update the event has been published.
CallsHoldTheirRow ==
  \A e \in Event :
    /\ emit[e].pc \in {"publish", "update"} /\ emit[e].row # NoRow =>
         emit[e].row \in Rows /\ outbox[emit[e].row] = e
    /\ emit[e].pc = "update" => emit[e].row # NoRow /\ e \in onStream
    /\ emit[e].pc = "new" => emit[e].row = NoRow

\* What a dispatcher will mark is on the stream.
BatchesAreOnStream == \A d \in Dispatcher : \A i \in sent[d] : outbox[i] \in onStream

\* What a call without a row has met so far.
RefusalsCounted ==
  \A e \in Event :
    /\ emit[e].pc = "publish" /\ emit[e].row = NoRow => failures["db"] >= 1
    /\ emit[e].pc = "again" => failures["db"] >= 1 /\ failures["redis"] >= 1
    /\ emit[e].pc = "returned" /\ e \notin Stored \cup onStream =>
         failures["db"] >= 2 /\ failures["redis"] >= 1

\* The inductive invariant.
OutboxInv == OutboxTypeOK /\ CallsHoldTheirRow /\ BatchesAreOnStream /\ RefusalsCounted

\* The invariant holds before the first emission.
LEMMA InitInv == Init => OutboxInv
BY OutboxAssumption
DEF Init, OutboxInv, OutboxTypeOK, CallsHoldTheirRow, BatchesAreOnStream, RefusalsCounted,
    Rows, Pc, NoRow, Failure

\* A row more leaves the others what they are.
LEMMA RowsGrow ==
  ASSUME OutboxTypeOK, NEW e \in Event, outbox' = Append(outbox, e)
  PROVE  /\ outbox' \in Seq(Event)
         /\ Rows' = Rows \cup {Len(outbox) + 1}
         /\ Len(outbox) + 1 \in Nat \ {0}
         /\ outbox'[Len(outbox) + 1] = e
         /\ \A i \in Rows : outbox'[i] = outbox[i]
         /\ Stored' = Stored \cup {e}
<1>1. /\ outbox' \in Seq(Event) /\ Len(outbox) \in Nat
      /\ Len(outbox') = Len(outbox) + 1
      /\ outbox'[Len(outbox) + 1] = e
      /\ \A i \in 1 .. Len(outbox) : outbox'[i] = outbox[i]
  BY DEF OutboxTypeOK
<1>2. Rows' = Rows \cup {Len(outbox) + 1}
  BY <1>1 DEF Rows
<1>3. Stored' = Stored \cup {e}
  BY <1>1, <1>2 DEF Stored, Rows
<1> QED
  BY <1>1, <1>2, <1>3 DEF Rows

\* A failure counts, and takes nothing back.
LEMMA FailureCounts ==
  ASSUME OutboxTypeOK, NEW k \in Failure, Fails(k)
  PROVE  /\ failures' \in [Failure -> Nat]
         /\ \A j \in Failure : failures'[j] >= failures[j]
         /\ failures'[k] = failures[k] + 1
BY DEF OutboxTypeOK, Fails, Failure

\* Every step of an emit_event call preserves the invariant.
LEMMA EmitStepInv ==
  ASSUME OutboxInv, NEW e \in Event, EmitStep(e)
  PROVE  OutboxInv'
<1> USE DEF OutboxInv, NoRow
<1>0. failures \in [Failure -> Nat] /\ "db" \in Failure /\ "redis" \in Failure /\ "death" \in Failure
  BY DEF OutboxTypeOK, Failure
<1>a. ASSUME outbox' = Append(outbox, e), UNCHANGED <<published, onStream, todo, sent>>,
             NEW p \in Pc, NEW row \in Nat,
             emit' = [emit EXCEPT ![e] = [pc |-> p, row |-> row]],
             \/ p = "publish" /\ row \in {NoRow, Len(outbox) + 1}
             \/ p = "returned",
             failures' \in [Failure -> Nat],
             \A j \in Failure : failures'[j] >= failures[j],
             p = "publish" /\ row = NoRow => failures'["db"] >= 1
      PROVE  OutboxInv'
  <2>1. OutboxTypeOK'
    BY <1>a, RowsGrow DEF OutboxTypeOK
  <2>2. CallsHoldTheirRow'
    BY <1>a, RowsGrow DEF OutboxTypeOK, CallsHoldTheirRow, Pc
  <2>3. BatchesAreOnStream'
    BY <1>a, RowsGrow DEF OutboxTypeOK, BatchesAreOnStream
  <2>4. RefusalsCounted'
    BY <1>0, <1>a, RowsGrow DEF OutboxTypeOK, RefusalsCounted, Pc
  <2> QED
    BY <2>1, <2>2, <2>3, <2>4
<1>b. ASSUME UNCHANGED <<outbox, todo, sent>>, onStream \subseteq onStream',
             onStream' \subseteq Event, published' \subseteq Rows,
             NEW p \in Pc, p # "new",
             emit' = [emit EXCEPT ![e].pc = p],
             failures' \in [Failure -> Nat],
             \A j \in Failure : failures'[j] >= failures[j],
             p = "publish" => emit[e].row = NoRow /\ failures'["db"] >= 1,
             p = "update" => emit[e].pc = "publish" /\ emit[e].row # NoRow /\ e \in onStream',
             p = "again" => failures'["db"] >= 1 /\ failures'["redis"] >= 1,
             p = "returned" => \/ e \in Stored \cup onStream'
                               \/ failures'["db"] >= 2 /\ failures'["redis"] >= 1
      PROVE  OutboxInv'
  <2>1. Rows' = Rows /\ Stored' = Stored
    BY <1>b DEF Rows, Stored
  <2>2. OutboxTypeOK'
    BY <1>b, <2>1 DEF OutboxTypeOK
  <2>3. CallsHoldTheirRow'
    BY <1>b, <2>1 DEF OutboxTypeOK, CallsHoldTheirRow, Pc
  <2>4. BatchesAreOnStream'
    BY <1>b DEF BatchesAreOnStream
  <2>5. RefusalsCounted'
    BY <1>0, <1>b, <2>1 DEF OutboxTypeOK, RefusalsCounted, Pc
  <2> QED
    BY <2>2, <2>3, <2>4, <2>5
<1>c. emit[e] = [pc |-> emit[e].pc, row |-> emit[e].row] /\ emit[e].row \in Nat /\ emit[e].pc \in Pc
  BY DEF OutboxTypeOK
<1>f. \A p : [emit EXCEPT ![e].pc = p] = [emit EXCEPT ![e] = [pc |-> p, row |-> emit[e].row]]
  <2>1. ASSUME NEW p PROVE [emit[e] EXCEPT !.pc = p] = [pc |-> p, row |-> emit[e].row]
    <3>1. emit[e] \in [pc : Pc, row : Nat]
      BY DEF OutboxTypeOK
    <3> QED
      BY <3>1
  <2> QED
    BY <2>1
<1>d. \A j \in Failure : failures[j] \in Nat /\ failures[j] >= failures[j]
  BY <1>0
<1>e. \A k \in Failure : Fails(k) => /\ failures' \in [Failure -> Nat]
                                     /\ \A j \in Failure : failures'[j] >= failures[j]
                                     /\ failures'[k] = failures[k] + 1
  BY FailureCounts
<1>1. CASE Insert(e)
  <2>1. emit' = [emit EXCEPT ![e] = [pc |-> "publish", row |-> Len(outbox) + 1]]
    BY <1>1 DEF Insert
  <2>2. Len(outbox) + 1 \in Nat /\ Len(outbox) + 1 # 0 /\ "publish" \in Pc
    BY DEF OutboxTypeOK, Pc
  <2>3. outbox' = Append(outbox, e) /\ UNCHANGED <<published, onStream, todo, sent, failures>>
    BY <1>1 DEF Insert
  <2> QED
    BY <1>0, <1>d, <1>a, <2>1, <2>2, <2>3
<1>2. CASE InsertFails(e)
  <2>1. /\ Fails("db") /\ emit[e].pc = "new" /\ emit[e].row = NoRow
        /\ UNCHANGED <<published, onStream, todo, sent>>
        /\ emit' = [emit EXCEPT ![e].pc = "publish"]
    BY <1>2 DEF InsertFails, CallsHoldTheirRow
  <2>2. "publish" \in Pc /\ NoRow \in Nat /\ failures'["db"] >= 1
    BY <1>0, <1>d, <1>e, <2>1 DEF Pc
  <2>3. CASE outbox' = Append(outbox, e)
    <3>1. emit' = [emit EXCEPT ![e] = [pc |-> "publish", row |-> NoRow]]
      BY <1>f, <2>1
    <3> QED
      BY <1>0, <1>e, <1>a, <2>1, <2>2, <2>3, <3>1
  <2>4. CASE outbox' = outbox
    <3>1. published' \subseteq Rows /\ onStream' \subseteq Event
      BY <2>1 DEF OutboxTypeOK
    <3> QED
      BY <1>0, <1>e, <1>b, <2>1, <2>2, <2>4, <3>1
  <2> QED
    BY <1>2, <2>3, <2>4 DEF InsertFails
<1>3. CASE Publish(e)
  <2> DEFINE p == IF emit[e].row = NoRow THEN "returned" ELSE "update"
  <2>1. /\ emit[e].pc = "publish" /\ emit' = [emit EXCEPT ![e].pc = p]
        /\ UNCHANGED <<outbox, published, todo, sent, failures>>
        /\ onStream' = onStream \cup {e}
    BY <1>3 DEF Publish
  <2>2. /\ published' \subseteq Rows /\ onStream' \subseteq Event /\ p \in Pc
        /\ p = "update" => emit[e].row # NoRow
        /\ p \in {"update", "returned"}
    BY <2>1 DEF OutboxTypeOK, Pc
  <2> HIDE DEF p
  <2> QED
    BY <1>0, <1>d, <1>b, <2>1, <2>2
<1>4. CASE PublishFails(e)
  <2> DEFINE p == IF emit[e].row = NoRow THEN "again" ELSE "returned"
  <2>1. /\ Fails("redis") /\ emit[e].pc = "publish" /\ emit' = [emit EXCEPT ![e].pc = p]
        /\ UNCHANGED <<outbox, published, todo, sent>>
        /\ onStream \subseteq onStream' /\ onStream' \subseteq Event
    BY <1>4 DEF PublishFails, OutboxTypeOK
  <2>2. published' \subseteq Rows /\ p \in Pc /\ p \in {"again", "returned"}
    BY <2>1 DEF OutboxTypeOK, Pc
  <2>3. p = "again" => failures'["db"] >= 1 /\ failures'["redis"] >= 1
    <3>1. p = "again" => failures["db"] >= 1
      BY <2>1 DEF RefusalsCounted
    <3>2. failures'["db"] >= failures["db"] /\ failures'["redis"] = failures["redis"] + 1
      BY <1>0, <1>e, <2>1
    <3> QED
      BY <1>0, <1>e, <2>1, <3>1, <3>2
  <2>4. p = "returned" => e \in Stored
    BY <2>1 DEF CallsHoldTheirRow, Stored
  <2> HIDE DEF p
  <2> QED
    BY <1>0, <1>e, <1>b, <2>1, <2>2, <2>3, <2>4
<1>5. CASE InsertAgain(e)
  <2>1. /\ outbox' = Append(outbox, e)
        /\ emit' = [emit EXCEPT ![e].pc = "returned"]
        /\ UNCHANGED <<published, onStream, todo, sent, failures>>
    BY <1>5 DEF InsertAgain
  <2>2. emit' = [emit EXCEPT ![e] = [pc |-> "returned", row |-> emit[e].row]]
    BY <1>f, <2>1
  <2>3. "returned" \in Pc
    BY DEF Pc
  <2> QED
    BY <1>0, <1>c, <1>d, <1>a, <2>1, <2>2, <2>3
<1>6. CASE InsertAgainFails(e)
  <2>1. /\ Fails("db") /\ emit[e].pc = "again"
        /\ emit' = [emit EXCEPT ![e].pc = "returned"]
        /\ UNCHANGED <<published, onStream, todo, sent>>
    BY <1>6 DEF InsertAgainFails
  <2>2. "returned" \in Pc
    BY DEF Pc
  <2>3. CASE outbox' = Append(outbox, e)
    <3>1. emit' = [emit EXCEPT ![e] = [pc |-> "returned", row |-> emit[e].row]]
      BY <1>f, <2>1
    <3> QED
      BY <1>0, <1>c, <1>e, <1>a, <2>1, <2>2, <2>3, <3>1
  <2>4. CASE outbox' = outbox
    <3>1. published' \subseteq Rows /\ onStream' \subseteq Event
      BY <2>1 DEF OutboxTypeOK
    <3>2. failures["db"] >= 1 /\ failures["redis"] >= 1
      BY <2>1 DEF RefusalsCounted
    <3>3. /\ failures'["db"] = failures["db"] + 1
          /\ failures'["redis"] >= failures["redis"]
      BY <1>0, <1>e, <2>1
    <3>4. failures'["db"] >= 2 /\ failures'["redis"] >= 1
      BY <1>0, <1>d, <1>e, <2>1, <3>2, <3>3
    <3> QED
      BY <1>0, <1>e, <1>b, <2>1, <2>2, <2>4, <3>1, <3>4
  <2> QED
    BY <1>6, <2>3, <2>4 DEF InsertAgainFails
<1>7. CASE Update(e) \/ UpdateFails(e)
  <2>1. /\ emit[e].pc = "update"
        /\ emit' = [emit EXCEPT ![e].pc = "returned"]
        /\ UNCHANGED <<outbox, onStream, todo, sent>>
        /\ published' \subseteq published \cup {emit[e].row}
        /\ Fails("db") \/ failures' = failures
    BY <1>7 DEF Update, UpdateFails
  <2>2. e \in onStream /\ emit[e].row \in Rows
    BY <2>1 DEF CallsHoldTheirRow
  <2>3. published' \subseteq Rows /\ onStream' \subseteq Event /\ "returned" \in Pc
    BY <2>1, <2>2 DEF OutboxTypeOK, Pc
  <2>4. failures' \in [Failure -> Nat] /\ \A j \in Failure : failures'[j] >= failures[j]
    BY <1>0, <1>d, <1>e, <2>1
  <2> QED
    BY <1>b, <2>1, <2>2, <2>3, <2>4
<1>8. CASE EmitterDies(e)
  <2>1. /\ Fails("death") /\ emit' = [emit EXCEPT ![e].pc = "dead"]
        /\ UNCHANGED <<outbox, published, onStream, todo, sent>>
    BY <1>8 DEF EmitterDies
  <2>2. published' \subseteq Rows /\ onStream' \subseteq Event /\ "dead" \in Pc
    BY <2>1 DEF OutboxTypeOK, Pc
  <2> QED
    BY <1>0, <1>e, <1>b, <2>1, <2>2
<1> QED
  BY <1>1, <1>2, <1>3, <1>4, <1>5, <1>6, <1>7, <1>8 DEF EmitStep

\* Every step of a dispatcher preserves the invariant.
LEMMA DispatchInv ==
  ASSUME OutboxInv, NEW d \in Dispatcher, Dispatch(d) \/ DispatcherDies(d)
  PROVE  OutboxInv'
<1> USE DEF OutboxInv
<1>1. UNCHANGED <<emit, outbox>>
  BY DEF Dispatch, DispatcherDies, Read, PublishRow, PublishRowFails, Commit, CommitFails
<1>2. Rows' = Rows
  BY <1>1 DEF Rows
<1>3. /\ failures' \in [Failure -> Nat]
      /\ \A j \in Failure : failures[j] \in Nat /\ failures'[j] >= failures[j]
  <2>1. failures' = failures \/ \E k \in Failure : Fails(k)
    BY DEF Dispatch, DispatcherDies, Read, PublishRow, PublishRowFails, Commit, CommitFails, Failure
  <2> QED
    BY <2>1, FailureCounts DEF OutboxTypeOK
<1>r. /\ published \subseteq Rows /\ onStream \subseteq Event
      /\ todo \in [Dispatcher -> SUBSET Rows] /\ sent \in [Dispatcher -> SUBSET Rows]
      /\ \A i \in Rows : outbox[i] \in Event
  BY DEF OutboxTypeOK, Rows
<1>p. ASSUME NEW i \in todo[d],
             onStream' \in {onStream, onStream \cup {outbox[i]}},
             todo' = [todo EXCEPT ![d] = @ \ {i}],
             sent' \in {sent, [sent EXCEPT ![d] = @ \cup {i}]},
             published' = published
      PROVE  /\ onStream \subseteq onStream' /\ onStream' \subseteq Event
             /\ published' \subseteq Rows
             /\ todo' \in [Dispatcher -> SUBSET Rows] /\ sent' \in [Dispatcher -> SUBSET Rows]
  <2>1. i \in Rows /\ outbox[i] \in Event
    BY <1>r
  <2> QED
    BY <1>p, <1>r, <2>1
<1>4. /\ onStream \subseteq onStream' /\ onStream' \subseteq Event
      /\ published' \subseteq Rows
      /\ todo' \in [Dispatcher -> SUBSET Rows] /\ sent' \in [Dispatcher -> SUBSET Rows]
  <2>1. CASE Read(d)
    BY <1>r, <2>1 DEF Read, Unpublished
  <2>2. CASE PublishRow(d)
    BY <1>p, <2>2 DEF PublishRow
  <2>3. CASE PublishRowFails(d)
    BY <1>p, <2>3 DEF PublishRowFails
  <2>4. CASE Commit(d) \/ CommitFails(d)
    BY <1>r, <2>4 DEF Commit, CommitFails
  <2>5. CASE DispatcherDies(d)
    BY <1>r, <2>5 DEF DispatcherDies
  <2> QED
    BY <2>1, <2>2, <2>3, <2>4, <2>5 DEF Dispatch
<1>6. OutboxTypeOK'
  BY <1>1, <1>2, <1>3, <1>4 DEF OutboxTypeOK
<1>7. CallsHoldTheirRow'
  BY <1>1, <1>2, <1>4 DEF CallsHoldTheirRow
<1>8. BatchesAreOnStream'
  BY <1>1, <1>4 DEF OutboxTypeOK, BatchesAreOnStream,
     Dispatch, DispatcherDies, Read, PublishRow, PublishRowFails, Commit, CommitFails
<1>9. RefusalsCounted'
  <2>1. Stored' = Stored
    BY <1>1, <1>2 DEF Stored
  <2>2. "db" \in Failure /\ "redis" \in Failure
    BY DEF Failure
  <2> QED
    BY <1>1, <1>3, <1>4, <2>1, <2>2 DEF RefusalsCounted
<1> QED
  BY <1>6, <1>7, <1>8, <1>9

\* The invariant holds in every behaviour.
LEMMA InvHolds == Spec => []OutboxInv
<1>1. OutboxInv /\ [Next]_vars => OutboxInv'
  <2> SUFFICES ASSUME OutboxInv, [Next]_vars PROVE OutboxInv'
    OBVIOUS
  <2>1. CASE UNCHANGED vars
    BY <2>1 DEF vars, OutboxInv, OutboxTypeOK, CallsHoldTheirRow, BatchesAreOnStream,
                RefusalsCounted, Rows, Stored
  <2> QED
    BY <2>1, EmitStepInv, DispatchInv DEF Next
<1> QED
  BY <1>1, InitInv, PTL DEF Spec

\* An emit_event call that returns without the event on its stream or in the table has been
\* refused by the database twice and by Redis once, for any number of calls, dispatchers and
\* failures.
THEOREM LossIsRare == Spec => []LossTakesThreeRefusals
<1>1. OutboxInv => LossTakesThreeRefusals
  BY DEF OutboxInv, RefusalsCounted, LossTakesThreeRefusals
<1> QED
  BY <1>1, InvHolds, PTL

-----------------------------------------------------------------------------
(* Refinement.                                                             *)

\* Every step of the outbox is one of AtLeastOnce or changes nothing there.
LEMMA StepRefines ==
  ASSUME OutboxInv, OutboxInv', Next
  PROVE  [Promised!Next]_Promised!vars
<1> DEFINE settled == {outbox[i] : i \in published}
<1> USE DEF OutboxInv
<1>s. published \subseteq Rows /\ \A i \in Rows : outbox[i] \in Event
  BY DEF OutboxTypeOK, Rows
<1>1. ASSUME NEW e \in Event, outbox' = Append(outbox, e), UNCHANGED <<published, onStream>>
      PROVE  Promised!Promise(e)
  <2>1. Stored' = Stored \cup {e} /\ \A i \in Rows : outbox'[i] = outbox[i]
    BY <1>1, RowsGrow
  <2>2. settled' = settled
    BY <1>1, <1>s, <2>1
  <2> QED
    BY <1>1, <2>1, <2>2 DEF Promised!Promise
<1>2. ASSUME NEW e \in Event, onStream' = onStream \cup {e}, UNCHANGED <<outbox, published>>
      PROVE  Promised!Deliver(e)
  BY <1>2 DEF Promised!Deliver, Stored, Rows
<1>3. ASSUME NEW S \in SUBSET Rows, \A i \in S : outbox[i] \in onStream,
             published' = published \cup S, UNCHANGED <<outbox, onStream>>
      PROVE  Promised!Next
  <2> DEFINE T == {outbox[i] : i \in S}
  <2>1. T \subseteq onStream
    BY <1>3
  <2>2. settled' = settled \cup T /\ (Stored \cup onStream)' = Stored \cup onStream
    BY <1>3, <1>s DEF Stored, Rows
  <2> QED
    BY <1>3, <2>1, <2>2 DEF Promised!Next, Promised!Settle
<1>4. ASSUME UNCHANGED <<outbox, published, onStream>>
      PROVE  UNCHANGED Promised!vars
  BY <1>4 DEF Promised!vars, Stored, Rows
<1>5. ASSUME NEW e \in Event, EmitStep(e) PROVE [Promised!Next]_Promised!vars
  <2>1. CASE Insert(e) \/ InsertFails(e) \/ InsertAgain(e) \/ InsertAgainFails(e)
    <3>1. UNCHANGED <<published, onStream>> /\ outbox' \in {outbox, Append(outbox, e)}
      BY <2>1 DEF Insert, InsertFails, InsertAgain, InsertAgainFails
    <3> QED
      BY <1>1, <1>4, <3>1 DEF Promised!Next
  <2>2. CASE Publish(e) \/ PublishFails(e)
    <3>1. UNCHANGED <<outbox, published>> /\ onStream' \in {onStream, onStream \cup {e}}
      BY <2>2 DEF Publish, PublishFails
    <3> QED
      BY <1>2, <1>4, <3>1 DEF Promised!Next
  <2>3. CASE Update(e) \/ UpdateFails(e)
    <3>1. /\ emit[e].row \in Rows /\ outbox[emit[e].row] \in onStream
          /\ UNCHANGED <<outbox, onStream>>
          /\ published' \in {published, published \cup {emit[e].row}}
      BY <2>3 DEF Update, UpdateFails, CallsHoldTheirRow
    <3>2. {emit[e].row} \in SUBSET Rows /\ \A i \in {emit[e].row} : outbox[i] \in onStream
      BY <3>1
    <3>3. CASE published' = published
      BY <1>4, <3>1, <3>3
    <3>4. CASE published' = published \cup {emit[e].row}
      BY <1>3, <3>1, <3>2, <3>4
    <3> QED
      BY <3>1, <3>3, <3>4
  <2>4. CASE EmitterDies(e)
    BY <1>4, <2>4 DEF EmitterDies
  <2> QED
    BY <1>5, <2>1, <2>2, <2>3, <2>4 DEF EmitStep
<1>6. ASSUME NEW d \in Dispatcher, Dispatch(d) \/ DispatcherDies(d)
      PROVE  [Promised!Next]_Promised!vars
  <2>1. CASE Read(d) \/ DispatcherDies(d)
    BY <1>4, <2>1 DEF Read, DispatcherDies
  <2>2. CASE PublishRow(d) \/ PublishRowFails(d)
    <3>1. PICK i \in todo[d] : /\ UNCHANGED <<outbox, published>>
                              /\ onStream' \in {onStream, onStream \cup {outbox[i]}}
      BY <2>2 DEF PublishRow, PublishRowFails
    <3>2. outbox[i] \in Event
      BY DEF OutboxTypeOK, Rows
    <3> QED
      BY <1>2, <1>4, <3>1, <3>2 DEF Promised!Next
  <2>3. CASE Commit(d) \/ CommitFails(d)
    <3>1. /\ UNCHANGED <<outbox, onStream>>
          /\ published' \in {published, published \cup sent[d]}
          /\ sent[d] \in SUBSET Rows /\ \A i \in sent[d] : outbox[i] \in onStream
      BY <2>3 DEF Commit, CommitFails, OutboxTypeOK, BatchesAreOnStream
    <3>2. CASE published' = published
      BY <1>4, <3>1, <3>2
    <3>3. CASE published' = published \cup sent[d]
      BY <1>3, <3>1, <3>3
    <3> QED
      BY <3>1, <3>2, <3>3
  <2> QED
    BY <1>6, <2>1, <2>2, <2>3 DEF Dispatch
<1> QED
  BY <1>5, <1>6 DEF Next

\* The outbox implements the safety of at-least-once delivery: whatever fails, dies or runs
\* at the same time, an event that is promised or delivered stays so, and a row gets a
\* published_at only when its event is on the stream.
THEOREM OutboxImplementsAtLeastOnce == Spec => Promised!Spec
<1>1. Init => Promised!Init
  BY DEF Init, Promised!Init, Stored, Rows
<1>2. OutboxInv /\ OutboxInv' /\ [Next]_vars => [Promised!Next]_Promised!vars
  <2> SUFFICES ASSUME OutboxInv, OutboxInv', [Next]_vars PROVE [Promised!Next]_Promised!vars
    OBVIOUS
  <2>1. CASE UNCHANGED vars
    BY <2>1 DEF vars, Promised!vars, Stored, Rows
  <2> QED
    BY <2>1, StepRefines
<1> QED
  BY <1>1, <1>2, InvHolds, PTL DEF Spec, Promised!Spec
=============================================================================
