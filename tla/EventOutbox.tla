----------------------------- MODULE EventOutbox -----------------------------
(***************************************************************************)
(* The event outbox of the API (dispatch_service.py):                      *)
(* emit_event, run by the thread that has something to say once its own    *)
(* state is committed, and the dispatcher thread of every API replica,     *)
(* which publishes again whatever is not marked as published.  Nothing     *)
(* locks a row: an emitter and the dispatchers work on the same rows.      *)
(*                                                                         *)
(* A row is identified by its position in the table, in order of           *)
(* created_at.  The database or Redis may refuse a call, or accept it and  *)
(* have the caller see an error; threads may die between two calls.        *)
(***************************************************************************)
EXTENDS Naturals, Sequences, FiniteSets

CONSTANTS
  Event,        \* the emissions, one emit_event call each
  Dispatcher,   \* the dispatcher threads, one per API replica
  BatchSize,    \* EVENT_OUTBOX_BATCH_SIZE
  Budget        \* how many failures of each kind may happen

Failure == {"db", "redis", "death"}

ASSUME OutboxAssumption ==
  /\ BatchSize \in Nat \ {0}
  /\ Budget \in [Failure -> Nat]

VARIABLES
  emit,        \* per event, where its emit_event call is and the row it has inserted
  outbox,      \* the events of the rows of event_outbox, oldest first
  published,   \* the rows with a published_at
  onStream,    \* events with at least one entry on their stream
  todo,        \* per dispatcher, the rows of its batch it has yet to publish
  sent,        \* per dispatcher, the rows of its batch it has published
  failures     \* failures so far

vars == <<emit, outbox, published, onStream, todo, sent, failures>>

\* Where a call is: not begun, at its inline publication, at its second insertion, at the
\* update of its row, over, or dead with its thread.
Pc == {"new", "publish", "again", "update", "returned", "dead"}

\* The row of a call whose insertion failed.
NoRow == 0

Rows == 1 .. Len(outbox)

Init ==
  /\ emit = [e \in Event |-> [pc |-> "new", row |-> NoRow]]
  /\ outbox = <<>>
  /\ published = {}
  /\ onStream = {}
  /\ todo = [d \in Dispatcher |-> {}]
  /\ sent = [d \in Dispatcher |-> {}]
  /\ failures = [k \in Failure |-> 0]

Fails(kind) ==
  /\ failures[kind] < Budget[kind]
  /\ failures' = [failures EXCEPT ![kind] = @ + 1]

-----------------------------------------------------------------------------
(* emit_event.                                                             *)

\* insert_outbox_event, before the publication
Insert(e) ==
  /\ emit[e].pc = "new"
  /\ outbox' = Append(outbox, e)
  /\ emit' = [emit EXCEPT ![e] = [pc |-> "publish", row |-> Len(outbox) + 1]]
  /\ UNCHANGED <<published, onStream, todo, sent, failures>>

\* It raises, before the commit or after it: no id is returned.
InsertFails(e) ==
  /\ Fails("db")
  /\ emit[e].pc = "new"
  /\ outbox' \in {outbox, Append(outbox, e)}
  /\ emit' = [emit EXCEPT ![e].pc = "publish"]
  /\ UNCHANGED <<published, onStream, todo, sent>>

\* publish_envelope_to_redis succeeds; without a row there is nothing to update.
Publish(e) ==
  /\ emit[e].pc = "publish"
  /\ onStream' = onStream \cup {e}
  /\ emit' = [emit EXCEPT ![e].pc = IF emit[e].row = NoRow THEN "returned" ELSE "update"]
  /\ UNCHANGED <<outbox, published, todo, sent, failures>>

\* Mutant of PublishFails: the event is inserted once only.
PublishFailsForGood(e) ==
  /\ Fails("redis")
  /\ emit[e].pc = "publish"
  /\ onStream' \in {onStream, onStream \cup {e}}
  /\ emit' = [emit EXCEPT ![e].pc = "returned"]
  /\ UNCHANGED <<outbox, published, todo, sent>>

\* All its retries raise, the last one perhaps after Redis has taken the entry.  The row is
\* left unpublished, and inserted again if there is none.
PublishFails(e) ==
  /\ Fails("redis")
  /\ emit[e].pc = "publish"
  /\ onStream' \in {onStream, onStream \cup {e}}
  /\ emit' = [emit EXCEPT ![e].pc = IF emit[e].row = NoRow THEN "again" ELSE "returned"]
  /\ UNCHANGED <<outbox, published, todo, sent>>

\* The second insertion
InsertAgain(e) ==
  /\ emit[e].pc = "again"
  /\ outbox' = Append(outbox, e)
  /\ emit' = [emit EXCEPT ![e].pc = "returned"]
  /\ UNCHANGED <<published, onStream, todo, sent, failures>>

InsertAgainFails(e) ==
  /\ Fails("db")
  /\ emit[e].pc = "again"
  /\ outbox' \in {outbox, Append(outbox, e)}
  /\ emit' = [emit EXCEPT ![e].pc = "returned"]
  /\ UNCHANGED <<published, onStream, todo, sent>>

\* update_outbox_publish_state after a publication
Update(e) ==
  /\ emit[e].pc = "update"
  /\ published' = published \cup {emit[e].row}
  /\ emit' = [emit EXCEPT ![e].pc = "returned"]
  /\ UNCHANGED <<outbox, onStream, todo, sent, failures>>

\* It raises, and the error is only logged.
UpdateFails(e) ==
  /\ Fails("db")
  /\ emit[e].pc = "update"
  /\ published' \in {published, published \cup {emit[e].row}}
  /\ emit' = [emit EXCEPT ![e].pc = "returned"]
  /\ UNCHANGED <<outbox, onStream, todo, sent>>

\* The thread dies in the call, or after the commit of its state and before the call.
EmitterDies(e) ==
  /\ Fails("death")
  /\ emit[e].pc \notin {"returned", "dead"}
  /\ emit' = [emit EXCEPT ![e].pc = "dead"]
  /\ UNCHANGED <<outbox, published, onStream, todo, sent>>

-----------------------------------------------------------------------------
(* dispatch_event_outbox_once, in the loop of a dispatcher.                *)

Unpublished == Rows \ published

\* The query: the oldest unpublished rows, a batch of them
Read(d) ==
  /\ todo[d] = {} /\ sent[d] = {}
  /\ Unpublished # {}
  /\ todo' = [todo EXCEPT ![d] =
       {i \in Unpublished : Cardinality({j \in Unpublished : j < i}) < BatchSize}]
  /\ UNCHANGED <<emit, outbox, published, onStream, sent, failures>>

\* The row of the batch that is next
IsNext(d, i) == i \in todo[d] /\ \A j \in todo[d] : i <= j

PublishRow(d) ==
  \E i \in todo[d] :
    /\ IsNext(d, i)
    /\ onStream' = onStream \cup {outbox[i]}
    /\ todo' = [todo EXCEPT ![d] = @ \ {i}]
    /\ sent' = [sent EXCEPT ![d] = @ \cup {i}]
    /\ UNCHANGED <<emit, outbox, published, failures>>

\* Mutant of PublishRowFails: the row counts as published all the same.
PublishRowFailsUnseen(d) ==
  \E i \in todo[d] :
    /\ Fails("redis")
    /\ IsNext(d, i)
    /\ onStream' \in {onStream, onStream \cup {outbox[i]}}
    /\ todo' = [todo EXCEPT ![d] = @ \ {i}]
    /\ sent' = [sent EXCEPT ![d] = @ \cup {i}]
    /\ UNCHANGED <<emit, outbox, published>>

PublishRowFails(d) ==
  \E i \in todo[d] :
    /\ Fails("redis")
    /\ IsNext(d, i)
    /\ onStream' \in {onStream, onStream \cup {outbox[i]}}
    /\ todo' = [todo EXCEPT ![d] = @ \ {i}]
    /\ UNCHANGED <<emit, outbox, published, sent>>

\* One commit for the batch
Commit(d) ==
  /\ todo[d] = {} /\ sent[d] # {}
  /\ published' = published \cup sent[d]
  /\ sent' = [sent EXCEPT ![d] = {}]
  /\ UNCHANGED <<emit, outbox, onStream, todo, failures>>

\* It raises: everything the batch has published will be published again, unless the
\* database had committed.
CommitFails(d) ==
  /\ Fails("db")
  /\ todo[d] = {} /\ sent[d] # {}
  /\ published' \in {published, published \cup sent[d]}
  /\ sent' = [sent EXCEPT ![d] = {}]
  /\ UNCHANGED <<emit, outbox, onStream, todo>>

\* The process dies and starts again.
DispatcherDies(d) ==
  /\ Fails("death")
  /\ todo[d] # {} \/ sent[d] # {}
  /\ todo' = [todo EXCEPT ![d] = {}]
  /\ sent' = [sent EXCEPT ![d] = {}]
  /\ UNCHANGED <<emit, outbox, published, onStream>>

-----------------------------------------------------------------------------
EmitStep(e) ==
  \/ Insert(e) \/ InsertFails(e)
  \/ Publish(e) \/ PublishFails(e)
  \/ InsertAgain(e) \/ InsertAgainFails(e)
  \/ Update(e) \/ UpdateFails(e)
  \/ EmitterDies(e)

Dispatch(d) ==
  \/ Read(d)
  \/ PublishRow(d) \/ PublishRowFails(d)
  \/ Commit(d) \/ CommitFails(d)

Next ==
  \/ \E e \in Event : EmitStep(e)
  \/ \E d \in Dispatcher : Dispatch(d) \/ DispatcherDies(d)

Spec == Init /\ [][Next]_vars

\* The dispatchers' loops run on; failures are finitely many (Budget).
FairSpec == Spec /\ \A d \in Dispatcher : WF_vars(Dispatch(d))

-----------------------------------------------------------------------------
(* Properties.                                                             *)

\* Every variable holds values of its kind.
OutboxTypeOK ==
  /\ emit \in [Event -> [pc : Pc, row : Nat]]
  /\ outbox \in Seq(Event)
  /\ published \subseteq Rows
  /\ onStream \subseteq Event
  /\ todo \in [Dispatcher -> SUBSET Rows]
  /\ sent \in [Dispatcher -> SUBSET Rows]
  /\ failures \in [Failure -> Nat]

Stored == {outbox[i] : i \in Rows}

\* The outbox implements at-least-once delivery: a committed row is a promise, a row with a
\* published_at is settled.  In particular no row is ever marked as published, by its
\* emitter or by any dispatcher, before the event is on the stream, and every committed row
\* is delivered in the end, whatever fails and dies in between.
Promised == INSTANCE AtLeastOnce WITH
              promised  <- Stored \cup onStream,
              delivered <- onStream,
              settled   <- {outbox[i] : i \in published}

DeliversAtLeastOnce == Promised!FairSpec

\* An emit_event call that returns without its event on the stream or in the table has been
\* refused by the database twice and by Redis once: no single outage loses an event.
LossTakesThreeRefusals ==
  \A e \in Event :
    emit[e].pc = "returned" /\ e \notin Stored \cup onStream =>
      failures["db"] >= 2 /\ failures["redis"] >= 1
=============================================================================
