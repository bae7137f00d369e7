----------------------------- MODULE ChatSession -----------------------------
(***************************************************************************)
(* One chat session and the turns that change it (services/api/app/        *)
(* chat_service.py).  A turn loads the session from the cache of its       *)
(* replica or from the database, decides what to do, which may create a    *)
(* job, and writes the session back: it merges its copy into the latest    *)
(* row and updates the row if updated_at is what it expects, three times   *)
(* at most.  Then it puts the session into the cache of its replica, which *)
(* nothing ever invalidates.  Turns of one session run at the same time in *)
(* the threads of one replica and in several replicas.                     *)
(*                                                                         *)
(* The orchestrator writes to the session too: when the job of a workflow  *)
(* run that was started from the chat ends, it delivers a message and      *)
(* clears the job from the session, by a read and a write of the row that  *)
(* no turn's condition covers (services/api/app/main.py).                  *)
(*                                                                         *)
(* What the router and the language model decide is a choice.  A pending   *)
(* clarification is the question's origin and its fields, answered and     *)
(* open; a job and its workflow run have the name of the turn that created *)
(* them.                                                                   *)
(***************************************************************************)
EXTENDS Naturals, FiniteSets

CONSTANTS
  Turn,      \* the messages sent to the session
  Replica,   \* the API processes, each with its cache
  Field,     \* what a clarification may ask for
  NoTurn,    \* no job, no question
  Bounds     \* bounds, one of which holds throughout: the turns under way at once, the
             \* deliveries begun, whether processes die

ASSUME ChatSessionAssumption ==
  /\ NoTurn \notin Turn
  /\ IsFiniteSet(Turn)
  /\ Bounds \subseteq [atOnce : Nat, deliveries : Nat, restarts : BOOLEAN]

VARIABLES
  session,     \* ChatSessionRecord: what of metadata_json steers later turns, and updated_at
  cache,       \* _SESSION_CACHE of each replica: no entry, or one copy
  turn,        \* the turns
  delivery,    \* the delivery under way, and the workflow runs whose end is to be delivered
  answered,    \* history: per turn, the question its job answers
  lost,        \* history: turns that created a job or decided something and did not persist it
  overlapped,  \* history: a turn began while another was under way
  served,      \* history: the replicas that have handled a turn
  delivered,   \* history: the deliveries begun, the last one's updated_at, whether one has
               \* written over a turn's write that it had not read
  bound        \* the bound that holds

history == <<answered, lost, overlapped, served, bound>>
vars    == <<session, cache, turn, delivery, history, delivered>>

NoPending == [asked |-> NoTurn, known |-> {}, open |-> {}]

NewSession ==
  [pending |-> NoPending, active |-> NoTurn, run |-> NoTurn, version |-> 1, conflicts |-> 0,
   updated |-> 0]

\* pc; replica; warm: loaded from the cache; loaded, latest: copies of the row; pending, active,
\* run, clears: what to write; expected, misses: the state of the retry loop.
NewTurn(r) ==
  [pc |-> "new", replica |-> r, warm |-> FALSE, loaded |-> NewSession, pending |-> NoPending,
   active |-> NoTurn, run |-> NoTurn, clears |-> FALSE, latest |-> NewSession, expected |-> 0,
   misses |-> 0]

\* job: whose end is being delivered; copy: the row it has read; due: the runs not delivered.
NoDelivery == [job |-> NoTurn, copy |-> NewSession, due |-> {}]

\* A turn that is over.
Over(t, pc) == turn' = [turn EXCEPT ![t] = [NewTurn(@.replica) EXCEPT !.pc = pc]]

UnderWay(t) == turn[t].pc \notin {"new", "done", "dead"}

\* create_session has stored the session.
Init ==
  /\ session = NewSession
  /\ cache = [r \in Replica |-> {}]
  /\ turn \in [Turn -> {NewTurn(r) : r \in Replica}]
  /\ answered = [t \in Turn |-> NoTurn]
  /\ lost = {}
  /\ overlapped = FALSE
  /\ served = {}
  /\ delivery = NoDelivery
  /\ delivered = [count |-> 0, at |-> 0, over |-> FALSE]
  /\ bound \in Bounds

-----------------------------------------------------------------------------
(* Loading and deciding.                                                   *)

\* _build_turn_context: the cached copy if there is one, else the row.
Load(t) ==
  /\ turn[t].pc = "new"
  /\ Cardinality({u \in Turn : UnderWay(u)}) < bound.atOnce
  /\ LET r    == turn[t].replica
         warm == cache[r] # {}
     IN  /\ \E copy \in IF warm THEN cache[r] ELSE {session} :
              turn' = [turn EXCEPT ![t] = [NewTurn(r) EXCEPT
                         !.pc = "decide", !.warm = warm, !.loaded = copy, !.active = copy.active,
                         !.run = copy.run, !.pending = copy.pending,
                         !.expected = copy.updated]]
         /\ served' = served \cup {r}
  /\ overlapped' = (overlapped \/ \E u \in Turn : UnderWay(u))
  /\ UNCHANGED <<session, cache, delivery, answered, lost, delivered, bound>>

\* What the message makes of a pending clarification before it is routed: it starts another
\* request, it answers some of the open fields (_apply_pending_clarification_mapping, which
\* drops a clarification without open fields), or neither.
Restarted == [restarted |-> TRUE, pending |-> NoPending]

Mapped(p, fields) ==
  [restarted |-> FALSE,
   pending |-> IF fields = p.open THEN NoPending
               ELSE [p EXCEPT !.known = @ \cup fields, !.open = @ \ fields]]

Readings(p) == IF p.open = {} THEN {Mapped(p, {})}
               ELSE {Restarted} \cup {Mapped(p, fields) : fields \in SUBSET p.open}

Decides(t, pending, active, clears) ==
  turn' = [turn EXCEPT ![t].pc = "read", ![t].pending = pending, ![t].active = active,
                       ![t].clears = clears]

\* _execute_respond, and every tool or workflow that fails.
Respond(t) ==
  /\ turn[t].pc = "decide"
  /\ \E m \in Readings(turn[t].loaded.pending) :
       Decides(t, m.pending, turn[t].active, m.restarted)
  /\ UNCHANGED <<session, cache, delivery, history, delivered>>

\* The same with clear_pending_clarification; a tool call or a tool chain that succeeds.
RespondAndClear(t) ==
  /\ turn[t].pc = "decide"
  /\ Decides(t, NoPending, turn[t].active, TRUE)
  /\ UNCHANGED <<session, cache, delivery, history, delivered>>

\* _execute_ask_clarification, and a job or a workflow that lacks an input.
AskClarification(t) ==
  /\ turn[t].pc = "decide"
  /\ \E m \in Readings(turn[t].loaded.pending), known \in SUBSET Field :
       /\ m.pending.known \subseteq known
       /\ \E open \in (SUBSET (Field \ known)) \ {{}} :
            Decides(t, [asked |-> IF m.pending.open = {} THEN t ELSE m.pending.asked,
                        known |-> known, open |-> open], turn[t].active, FALSE)
  /\ UNCHANGED <<session, cache, delivery, history, delivered>>

\* The job a turn creates, and the question it answers unless the message started a request.
Answers(t, restarts) ==
  answered' = [answered EXCEPT ![t] = IF restarts THEN NoTurn ELSE turn[t].loaded.pending.asked]

\* Mutant of SubmitJob: the question is dropped from the turn's copy only, as the mapping does.
SubmitKeepsQuestion(t) ==
  /\ turn[t].pc = "decide"
  /\ \E restarts \in BOOLEAN : Answers(t, restarts)
  /\ Decides(t, NoPending, t, FALSE)
  /\ UNCHANGED <<session, cache, delivery, lost, overlapped, served, delivered, bound>>

\* _execute_submit_job: the job is committed before the session.
SubmitJob(t) ==
  /\ turn[t].pc = "decide"
  /\ \E restarts \in BOOLEAN : Answers(t, restarts)
  /\ Decides(t, NoPending, t, TRUE)
  /\ UNCHANGED <<session, cache, delivery, lost, overlapped, served, delivered, bound>>

\* _execute_run_workflow when the workflow starts: likewise, and its run becomes the active one.
RunWorkflow(t) ==
  /\ turn[t].pc = "decide"
  /\ \E restarts \in BOOLEAN : Answers(t, restarts)
  /\ turn' = [turn EXCEPT ![t].pc = "read", ![t].pending = NoPending, ![t].active = t,
                           ![t].run = t, ![t].clears = TRUE]
  /\ delivery' = [delivery EXCEPT !.due = @ \cup {t}]
  /\ UNCHANGED <<session, cache, lost, overlapped, served, delivered, bound>>

\* The language model is unavailable or has nothing to say: nothing of the turn is stored.
TurnFails(t) ==
  /\ turn[t].pc = "decide"
  /\ Over(t, "done")
  /\ UNCHANGED <<session, cache, delivery, history, delivered>>

-----------------------------------------------------------------------------
(* Persisting.                                                             *)

ReadLatest(t) ==
  /\ turn[t].pc = "read"
  /\ turn' = [turn EXCEPT ![t].pc = "write", ![t].latest = session]
  /\ UNCHANGED <<session, cache, delivery, history, delivered>>

\* Mutants of MergePending: the turn's copy replaces the latest; answered fields stay open.
MergeOverwrites(latest, desired) == IF desired.open = {} THEN latest ELSE desired

MergeUnresolved(latest, desired) ==
  IF desired.open = {} THEN latest ELSE [desired EXCEPT !.known = @ \cup latest.known]

\* _merge_clarification_state_for_persistence: what either knows is known; a clarification
\* without open fields is dropped.
MergePending(latest, desired) ==
  LET open == desired.open \ latest.known
  IN  IF desired.open = {} THEN latest
      ELSE IF open = {} THEN NoPending
      ELSE [desired EXCEPT !.known = @ \cup latest.known, !.open = open]

\* Mutant of Conflicts: the version just read is compared with itself.
ConflictsWithLatest(w) == w.latest.version > w.latest.version

Conflicts(w) == w.latest.version > w.loaded.version

Later(v, w) == IF v > w THEN v ELSE w

\* _merge_session_metadata_for_persistence: every key of the turn's copy replaces the latest.
Merged(w) ==
  [pending   |-> IF w.clears THEN NoPending ELSE MergePending(w.latest.pending, w.pending),
   active    |-> IF w.active = NoTurn THEN w.latest.active ELSE w.active,
   run       |-> IF w.run = NoTurn THEN w.latest.run ELSE w.run,
   version   |-> Later(w.latest.version, w.loaded.version) + 1,
   conflicts |-> w.latest.conflicts + (IF Conflicts(w) THEN 1 ELSE 0),
   updated   |-> session.updated + 1]

\* The UPDATE finds updated_at as expected, and the turn commits.  A turn that loaded from the
\* cache keeps what it wrote; one that loaded the row reads it again when it next looks at it.
WriteHits(t) ==
  /\ turn[t].pc = "write"
  /\ session.updated = turn[t].expected
  /\ session' = Merged(turn[t])
  /\ turn' = [turn EXCEPT ![t] = [NewTurn(@.replica) EXCEPT
                !.pc = "put", !.warm = turn[t].warm,
                !.latest = IF turn[t].warm THEN session' ELSE NewSession]]
  /\ UNCHANGED <<cache, delivery, history, delivered>>

\* Mutant of WriteMisses: the next attempt expects what the first one did.
MissesTheSame(t) ==
  /\ turn[t].pc = "write"
  /\ session.updated # turn[t].expected
  /\ turn[t].misses < 2
  /\ turn' = [turn EXCEPT ![t].pc = "read", ![t].misses = @ + 1, ![t].latest = NewSession]
  /\ UNCHANGED <<session, cache, delivery, history, delivered>>

\* The UPDATE finds nothing: the next attempt expects what this one has read.
WriteMisses(t) ==
  /\ turn[t].pc = "write"
  /\ session.updated # turn[t].expected
  /\ turn[t].misses < 2
  /\ turn' = [turn EXCEPT ![t].pc = "read", ![t].misses = @ + 1,
                          ![t].expected = turn[t].latest.updated, ![t].latest = NewSession]
  /\ UNCHANGED <<session, cache, delivery, history, delivered>>

\* After the third attempt the conflict is logged (_persist_turn), the messages are committed.
GiveUp(t) ==
  /\ turn[t].pc = "write"
  /\ session.updated # turn[t].expected
  /\ turn[t].misses = 2
  /\ turn' = [turn EXCEPT ![t].pc = "put", ![t].latest = turn[t].loaded]
  /\ lost' = lost \cup {t}
  /\ UNCHANGED <<session, cache, delivery, answered, overlapped, served, delivered, bound>>

\* Mutant of PutCache: what was loaded is cached, not what was written.
PutLoaded(t) ==
  /\ turn[t].pc = "put"
  /\ cache' = [cache EXCEPT ![turn[t].replica] = {turn[t].loaded}]
  /\ Over(t, "done")
  /\ UNCHANGED <<session, delivery, history, delivered>>

\* _put_cached_session at the end of handle_turn.
PutCache(t) ==
  /\ turn[t].pc = "put"
  /\ cache' = [cache EXCEPT ![turn[t].replica] =
                 {IF turn[t].warm THEN turn[t].latest ELSE session}]
  /\ Over(t, "done")
  /\ UNCHANGED <<session, delivery, history, delivered>>

-----------------------------------------------------------------------------
(* The orchestrator: _refresh_job_status calls                             *)
(* _deliver_chat_workflow_terminal_message in its transaction.             *)

ReadSession(t) ==
  /\ t \in delivery.due
  /\ delivery.job = NoTurn
  /\ delivered.count < bound.deliveries
  /\ delivery' = [delivery EXCEPT !.job = t, !.copy = session]
  /\ delivered' = [delivered EXCEPT !.count = @ + 1]
  /\ UNCHANGED <<session, cache, turn, history>>

Cleared(name, t) == IF name = t THEN NoTurn ELSE name

\* The row is written by its key: updated_at in any case, the metadata, all of it, if what was
\* read of it names the job or the run.  The version and the caches stay as they are.
Deliver(t) ==
  /\ delivery.job = t
  /\ LET read == delivery.copy
         rest == [read EXCEPT !.active = Cleared(@, t), !.run = Cleared(@, t)]
     IN  /\ session' = [(IF rest = read THEN session ELSE rest) EXCEPT
                          !.updated = session.updated + 1]
         /\ delivered' = [delivered EXCEPT !.at = session.updated + 1,
                             !.over = @ \/ (rest # read /\ read.updated # session.updated)]
  /\ delivery' = [NoDelivery EXCEPT !.due = delivery.due \ {t}]
  /\ UNCHANGED <<cache, turn, history>>

\* The process dies with the turns it was handling, its cache and the delivery it was making,
\* which the next refresh of the job makes again, and comes back.
Restart(r) ==
  /\ bound.restarts
  /\ cache' = [cache EXCEPT ![r] = {}]
  /\ lost' = lost \cup {t \in Turn : turn[t].replica = r /\ turn[t].pc \in {"read", "write"}}
  /\ turn' = [t \in Turn |-> IF turn[t].replica = r /\ UnderWay(t)
                             THEN [NewTurn(r) EXCEPT !.pc = IF t \in lost' THEN "dead" ELSE "done"]
                             ELSE turn[t]]
  /\ delivery' \in {delivery, [NoDelivery EXCEPT !.due = delivery.due]}
  /\ UNCHANGED <<session, answered, overlapped, served, delivered, bound>>

Persist(t) == \/ ReadLatest(t) \/ WriteHits(t) \/ WriteMisses(t) \/ GiveUp(t) \/ PutCache(t)

Decide(t) == \/ Respond(t) \/ RespondAndClear(t) \/ AskClarification(t) \/ SubmitJob(t)
             \/ RunWorkflow(t) \/ TurnFails(t)

Next == \/ \E t \in Turn : Load(t) \/ Decide(t) \/ Persist(t) \/ ReadSession(t) \/ Deliver(t)
        \/ \E r \in Replica : Restart(r)

Spec == Init /\ [][Next]_vars

-----------------------------------------------------------------------------
(* Properties.                                                             *)

\* A clarification is about fields that are answered or open, never both.
Pending == {p \in [asked : Turn \cup {NoTurn}, known : SUBSET Field, open : SUBSET Field] :
              p.known \cap p.open = {}}

Session == [pending : Pending, active : Turn \cup {NoTurn}, run : Turn \cup {NoTurn},
            version : Nat, conflicts : Nat, updated : Nat]

TurnRecord ==
  [pc : {"new", "decide", "read", "write", "put", "done", "dead"}, replica : Replica,
   warm : BOOLEAN, loaded : Session, pending : Pending, active : Turn \cup {NoTurn},
   run : Turn \cup {NoTurn}, clears : BOOLEAN, latest : Session, expected : Nat, misses : 0..2]

\* Every variable holds values of its type.
TypeOK ==
  /\ session \in Session
  /\ cache \in [Replica -> SUBSET Session]
  /\ turn \in [Turn -> TurnRecord]
  /\ answered \in [Turn -> Turn \cup {NoTurn}]
  /\ lost \in SUBSET Turn
  /\ overlapped \in BOOLEAN
  /\ served \in SUBSET Replica
  /\ bound \in Bounds
  /\ delivery \in [job : Turn \cup {NoTurn}, copy : Session, due : SUBSET Turn]
  /\ delivered \in [count : 0..bound.deliveries, at : Nat, over : BOOLEAN]

Writes(t) == turn[t].pc = "write" /\ turn'[t].pc = "put" /\ session' # session

\* A turn changes of the session only what it has decided, unless the session counts a
\* conflict or the orchestrator has written since the turn's copy was: no other stale copy,
\* cached or loaded long ago, overwrites silently (_chat_state_conflict_count;
\* docs/chat-architecture-hardening-implementation-plan.md:318).
StaleWriteIsCounted ==
  [][\A t \in Turn : Writes(t) =>
       \/ session'.conflicts > session.conflicts
       \/ turn[t].loaded.updated < delivered.at
       \/ /\ session'.active # session.active => turn[t].active = t
          /\ session'.run # session.run => turn[t].run = t
          /\ session'.pending # session.pending =>
               turn[t].clears \/ turn[t].pending # turn[t].loaded.pending]_vars

\* What a user has answered stays answered while the clarification is pending, whichever turn
\* writes it back with whatever copy (_merge_clarification_state_for_persistence); only a
\* delivery that writes over a turn it has not read takes an answer back.
AnswersKept ==
  [][session.pending.open # {} /\ session'.pending.open # {}
       => \/ session.pending.known \subseteq session'.pending.known
          \/ session'.updated = delivered'.at /\ delivered'.over]_vars

\* Two turns never each start a job for the same question unless the session shows a conflict,
\* the first one did not get to persist (the job is committed before the session is), or a
\* delivery wrote over what a turn had persisted.
AnsweredOnce ==
  \A t, u \in Turn :
    (t # u /\ answered[t] # NoTurn /\ answered[t] = answered[u])
      => \/ session.conflicts > 0 \/ delivered.over
         \/ lost # {} \/ UnderWay(t) \/ UnderWay(u)

\* The cache is sound for one replica: turns that do not overlap and are handled by one process
\* never conflict, and are never given up unless two deliveries came between.
ConflictNeedsOverlap ==
  session.conflicts > 0 \/ (\E t \in lost : turn[t].pc # "dead")
    => overlapped \/ Cardinality(served) > 1 \/ delivered.count > 1

\* A turn is given up only when the session was written twice since the state it loaded: the
\* attempts, which expect what an earlier one has read, absorb one write and no more
\* (_persist_chat_session_state).
LossTakesTwoWrites ==
  \A t \in lost : turn[t].pc = "put" => session.updated >= turn[t].loaded.updated + 2
=============================================================================
