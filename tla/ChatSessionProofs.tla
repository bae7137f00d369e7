-------------------------- MODULE ChatSessionProofs --------------------------
(***************************************************************************)
(* Theorems about ChatSession, for any number of turns, replicas, fields   *)
(* and deliveries.  What a turn may overwrite depends on the copies of the *)
(* row that turns and caches hold: of each the invariant says how it is    *)
(* related to the row (Known), and of each turn how far its attempts have  *)
(* come (Attempts).                                                        *)
(*                                                                         *)
(* Two further invariants rest on it.  Questions and Settled: a turn is    *)
(* done with its question before another can see it, and as long as no     *)
(* conflict, loss or delivery over a turn has occurred, a turn writes over *)
(* the version it has loaded and takes the question it answers out of the  *)
(* row (OneAnswer).  Served and InTurn: while turns come one by one to one *)
(* replica, at most one delivery separates what it has cached from the row *)
(* (OneReplicaIsSound).                                                    *)
(***************************************************************************)
EXTENDS ChatSession, FiniteSetTheorems, TLAPS

\* What c, a copy of the row or of what was written to it, says of the row s: equal updated_at
\* means the same row, and equal versions without a delivery since (at) the same contents.
Known(c, s, at) ==
  /\ c.updated <= s.updated
  /\ c.updated = s.updated => c = s
  /\ c.updated >= at =>
       /\ c.version <= s.version
       /\ c.version = s.version =>
            c.pending = s.pending /\ c.active = s.active /\ c.run = s.run

\* The copies there are.
Copies == {c \in Session : \/ c \in {NewSession, delivery.copy}
                           \/ \E r \in Replica : c \in cache[r]
                           \/ \E t \in Turn : c \in {turn[t].loaded, turn[t].latest}}

CopiesKnown ==
  /\ delivered.at <= session.updated
  /\ \A c \in Copies : Known(c, session, delivered.at)

Trying(t) == turn[t].pc \in {"decide", "read", "write"}

\* Each attempt expects what was read before it, the first one what was loaded.
Attempts(t) ==
  /\ Trying(t) =>
       LET w == turn[t]
       IN  /\ t \notin lost
           /\ w.pc = "decide" => w.misses = 0
           /\ w.loaded.updated <= w.expected
           /\ w.expected <= session.updated
           /\ w.misses = 0 => w.expected = w.loaded.updated
           /\ w.misses > 0 => session.updated > w.loaded.updated
           /\ w.misses = 2 => w.expected > w.loaded.updated
           /\ w.active \in {w.loaded.active, t}
           /\ w.run \in {w.loaded.run, t}
           /\ w.pc = "write" => /\ w.expected <= w.latest.updated
                                /\ w.misses > 0 => w.latest.updated > w.loaded.updated
  /\ turn[t].pc = "new" => t \notin lost
  /\ turn[t].pc = "put" /\ t \in lost => session.updated >= turn[t].loaded.updated + 2

ChatInv == TypeOK /\ CopiesKnown /\ \A t \in Turn : Attempts(t)

-----------------------------------------------------------------------------
(* Types.                                                                  *)

\* What the session, a turn and a clarification begin with.
LEMMA NewTyped ==
  /\ NoPending \in Pending
  /\ NewSession \in Session
  /\ \A r \in Replica : NewTurn(r) \in TurnRecord
<1>1. NoPending \in Pending
  BY DEF NoPending, Pending
<1>2. NewSession \in Session
  BY <1>1 DEF NewSession, Session
<1>3. \A r \in Replica : NewTurn(r) \in TurnRecord
  BY <1>1, <1>2 DEF NewTurn, TurnRecord
<1> QED
  BY <1>1, <1>2, <1>3

\* What a message makes of a clarification is a clarification.
LEMMA ReadingsTyped ==
  ASSUME NEW p \in Pending
  PROVE  \A m \in Readings(p) : m.pending \in Pending /\ m.restarted \in BOOLEAN
<1>1. ASSUME NEW fields \in SUBSET p.open
      PROVE  Mapped(p, fields).pending \in Pending /\ Mapped(p, fields).restarted \in BOOLEAN
  BY NewTyped DEF Mapped, Pending
<1>2. Restarted.pending \in Pending /\ Restarted.restarted \in BOOLEAN
  BY NewTyped DEF Restarted
<1> QED
  BY <1>1, <1>2 DEF Readings

\* A merged clarification is one; merging what equals the latest changes nothing.
LEMMA MergeTyped ==
  ASSUME NEW p \in Pending, NEW q \in Pending
  PROVE  MergePending(p, q) \in Pending /\ MergePending(p, p) = p
<1>1. MergePending(p, q) \in Pending
  BY NewTyped DEF MergePending, Pending
<1>2. MergePending(p, p) = p
  <2>1. p.open \ p.known = p.open /\ p.known \cup p.known = p.known
    BY DEF Pending
  <2>2. [p EXCEPT !.known = @ \cup p.known, !.open = p.open] = p
    BY <2>1 DEF Pending
  <2> QED
    BY <2>1, <2>2 DEF MergePending
<1> QED
  BY <1>1, <1>2

\* What a turn writes is a session.
LEMMA MergedTyped ==
  ASSUME TypeOK, NEW w \in TurnRecord
  PROVE  Merged(w) \in Session
<1>1. w.latest \in Session /\ w.loaded \in Session /\ w.pending \in Pending /\ session \in Session
  BY DEF TypeOK, TurnRecord
<1>2. (IF w.clears THEN NoPending ELSE MergePending(w.latest.pending, w.pending)) \in Pending
  BY <1>1, NewTyped, MergeTyped DEF Session
<1>3. w.active \in Turn \cup {NoTurn} /\ w.run \in Turn \cup {NoTurn}
  BY DEF TurnRecord
<1>4. Later(w.latest.version, w.loaded.version) + 1 \in Nat
  BY <1>1 DEF Later, Session
<1> QED
  BY <1>1, <1>2, <1>3, <1>4 DEF Merged, Session

\* A decision.
LEMMA DecidesTyped ==
  ASSUME TypeOK, NEW t \in Turn, NEW p \in Pending, NEW a \in Turn \cup {NoTurn},
         NEW c \in BOOLEAN, Decides(t, p, a, c)
  PROVE  turn' \in [Turn -> TurnRecord]
<1> DEFINE w == [turn[t] EXCEPT !.pc = "read", !.pending = p, !.active = a, !.clears = c]
<1>1. turn[t] \in TurnRecord
  BY DEF TypeOK
<1>2. w \in TurnRecord
  BY <1>1 DEF TurnRecord
<1>3. turn' = [turn EXCEPT ![t] = w]
  BY DEF Decides, TypeOK
<1> QED
  BY <1>2, <1>3 DEF TypeOK

\* Every step keeps the types.
LEMMA TypeStep ==
  ASSUME TypeOK, [Next]_vars
  PROVE  TypeOK'
<1> USE NewTyped
<1>1. ASSUME NEW t \in Turn, Load(t)
      PROVE  TypeOK'
  <2> DEFINE r == turn[t].replica
  <2>1. PICK copy \in (IF cache[r] # {} THEN cache[r] ELSE {session}) :
          turn' = [turn EXCEPT ![t] = [NewTurn(r) EXCEPT
                     !.pc = "decide", !.warm = (cache[r] # {}), !.loaded = copy,
                     !.active = copy.active, !.run = copy.run, !.pending = copy.pending,
                     !.expected = copy.updated]]
    BY <1>1 DEF Load
  <2>2. r \in Replica /\ copy \in Session
    BY <2>1 DEF TypeOK, TurnRecord
  <2>3. [NewTurn(r) EXCEPT
           !.pc = "decide", !.warm = (cache[r] # {}), !.loaded = copy, !.active = copy.active,
           !.run = copy.run, !.pending = copy.pending, !.expected = copy.updated] \in TurnRecord
    <3>1. NewTurn(r) \in TurnRecord
      BY <2>2
    <3>2. /\ copy.active \in Turn \cup {NoTurn} /\ copy.run \in Turn \cup {NoTurn}
          /\ copy.pending \in Pending /\ copy.updated \in Nat
      BY <2>2 DEF Session
    <3> HIDE DEF r
    <3> QED
      BY <2>2, <3>1, <3>2 DEF TurnRecord
  <2>4. turn' \in [Turn -> TurnRecord]
    BY <2>1, <2>3 DEF TypeOK
  <2>5. served' \in SUBSET Replica /\ overlapped' \in BOOLEAN
    BY <1>1, <2>2 DEF Load, TypeOK
  <2> QED
    BY <1>1, <2>4, <2>5 DEF Load, TypeOK
<1>2. ASSUME NEW t \in Turn, Decide(t)
      PROVE  TypeOK'
  <2>1. /\ turn[t].loaded.pending \in Pending
        /\ turn[t].active \in Turn \cup {NoTurn}
        /\ turn[t].loaded.pending.asked \in Turn \cup {NoTurn}
        /\ turn[t].replica \in Replica
    BY DEF TypeOK, TurnRecord, Session, Pending
  <2>2. CASE Respond(t)
    <3>1. turn' \in [Turn -> TurnRecord]
      BY <2>1, <2>2, ReadingsTyped, DecidesTyped DEF Respond
    <3> QED
      BY <2>2, <3>1 DEF Respond, TypeOK, history
  <2>3. CASE RespondAndClear(t)
    <3>1. turn' \in [Turn -> TurnRecord]
      BY <2>1, <2>3, DecidesTyped DEF RespondAndClear
    <3> QED
      BY <2>3, <3>1 DEF RespondAndClear, TypeOK, history
  <2>4. CASE AskClarification(t)
    <3>1. PICK m \in Readings(turn[t].loaded.pending), known \in SUBSET Field :
            /\ m.pending.known \subseteq known
            /\ \E open \in (SUBSET (Field \ known)) \ {{}} :
                 Decides(t, [asked |-> IF m.pending.open = {} THEN t ELSE m.pending.asked,
                             known |-> known, open |-> open], turn[t].active, FALSE)
      BY <2>4 DEF AskClarification
    <3>2. PICK open \in (SUBSET (Field \ known)) \ {{}} :
            Decides(t, [asked |-> IF m.pending.open = {} THEN t ELSE m.pending.asked,
                        known |-> known, open |-> open], turn[t].active, FALSE)
      BY <3>1
    <3>3. [asked |-> IF m.pending.open = {} THEN t ELSE m.pending.asked,
           known |-> known, open |-> open] \in Pending
      <4>1. m.pending.asked \in Turn \cup {NoTurn}
        BY <2>1, ReadingsTyped DEF Pending
      <4> QED
        BY <4>1 DEF Pending
    <3>4. turn' \in [Turn -> TurnRecord]
      BY <2>1, <3>2, <3>3, DecidesTyped
    <3> QED
      BY <2>4, <3>4 DEF AskClarification, TypeOK, history
  <2>5. CASE SubmitJob(t)
    <3>1. turn' \in [Turn -> TurnRecord]
      BY <2>5, DecidesTyped DEF SubmitJob
    <3>2. answered' \in [Turn -> Turn \cup {NoTurn}]
      BY <2>1, <2>5 DEF SubmitJob, Answers, TypeOK
    <3> QED
      BY <2>5, <3>1, <3>2 DEF SubmitJob, TypeOK
  <2>6. CASE RunWorkflow(t)
    <3> DEFINE w == [turn[t] EXCEPT !.pc = "read", !.pending = NoPending, !.active = t,
                                    !.run = t, !.clears = TRUE]
    <3>1. turn[t] \in TurnRecord
      BY DEF TypeOK
    <3>2. w \in TurnRecord
      BY <3>1 DEF TurnRecord
    <3>3. turn' = [turn EXCEPT ![t] = w]
      BY <2>6 DEF RunWorkflow, TypeOK
    <3>4. turn' \in [Turn -> TurnRecord]
      BY <3>2, <3>3 DEF TypeOK
    <3>5. answered' \in [Turn -> Turn \cup {NoTurn}]
      BY <2>1, <2>6 DEF RunWorkflow, Answers, TypeOK
    <3>6. delivery' \in [job : Turn \cup {NoTurn}, copy : Session, due : SUBSET Turn]
      BY <2>6 DEF RunWorkflow, TypeOK
    <3> QED
      BY <2>6, <3>4, <3>5, <3>6 DEF RunWorkflow, TypeOK
  <2>7. CASE TurnFails(t)
    <3>1. turn' \in [Turn -> TurnRecord]
      BY <2>1, <2>7 DEF TurnFails, Over, TypeOK, TurnRecord, NewTurn
    <3> QED
      BY <2>7, <3>1 DEF TurnFails, TypeOK, history
  <2> QED
    BY <1>2, <2>2, <2>3, <2>4, <2>5, <2>6, <2>7 DEF Decide
<1>3. ASSUME NEW t \in Turn, Persist(t)
      PROVE  TypeOK'
  <2>1. turn[t] \in TurnRecord /\ turn[t].replica \in Replica /\ turn[t].latest \in Session
        /\ turn[t].latest.updated \in Nat /\ turn[t].loaded \in Session /\ session \in Session
    BY DEF TypeOK, TurnRecord, Session
  <2>2. CASE ReadLatest(t)
    <3>1. [turn[t] EXCEPT !.pc = "write", !.latest = session] \in TurnRecord
      BY <2>1 DEF TurnRecord
    <3>2. turn' = [turn EXCEPT ![t] = [turn[t] EXCEPT !.pc = "write", !.latest = session]]
      BY <2>2 DEF ReadLatest, TypeOK
    <3>3. turn' \in [Turn -> TurnRecord]
      BY <3>1, <3>2 DEF TypeOK
    <3> QED
      BY <2>2, <3>3 DEF ReadLatest, TypeOK, history
  <2>3. CASE WriteHits(t)
    <3>1. session' \in Session
      BY <2>1, <2>3, MergedTyped DEF WriteHits
    <3>2. turn' \in [Turn -> TurnRecord]
      BY <2>1, <2>3, <3>1 DEF WriteHits, TypeOK, TurnRecord, NewTurn
    <3> QED
      BY <2>3, <3>1, <3>2 DEF WriteHits, TypeOK, history
  <2>4. CASE WriteMisses(t)
    <3>1. turn[t].misses + 1 \in 0..2
      BY <2>1, <2>4 DEF WriteMisses, TurnRecord
    <3>2. turn' \in [Turn -> TurnRecord]
      BY <2>1, <2>4, <3>1 DEF WriteMisses, TypeOK, TurnRecord
    <3> QED
      BY <2>4, <3>2 DEF WriteMisses, TypeOK, history
  <2>5. CASE GiveUp(t)
    <3>1. turn' \in [Turn -> TurnRecord]
      BY <2>1, <2>5 DEF GiveUp, TypeOK, TurnRecord
    <3> QED
      BY <2>5, <3>1 DEF GiveUp, TypeOK
  <2>6. CASE PutCache(t)
    <3>1. turn' \in [Turn -> TurnRecord]
      BY <2>1, <2>6 DEF PutCache, Over, TypeOK, TurnRecord, NewTurn
    <3>2. cache' \in [Replica -> SUBSET Session]
      BY <2>1, <2>6 DEF PutCache, TypeOK
    <3> QED
      BY <2>6, <3>1, <3>2 DEF PutCache, TypeOK, history
  <2> QED
    BY <1>3, <2>2, <2>3, <2>4, <2>5, <2>6 DEF Persist
<1>4. ASSUME NEW t \in Turn, ReadSession(t)
      PROVE  TypeOK'
  <2>1. delivery' \in [job : Turn \cup {NoTurn}, copy : Session, due : SUBSET Turn]
    BY <1>4 DEF ReadSession, TypeOK
  <2>2. bound.deliveries \in Nat
    BY ChatSessionAssumption DEF TypeOK
  <2>3. delivered.count + 1 \in 0..bound.deliveries
    BY <1>4, <2>2 DEF ReadSession, TypeOK
  <2>4. delivered' \in [count : 0..bound.deliveries, at : Nat, over : BOOLEAN]
    BY <1>4, <2>3 DEF ReadSession, TypeOK
  <2> QED
    BY <1>4, <2>1, <2>4 DEF ReadSession, TypeOK, history
<1>5. ASSUME NEW t \in Turn, Deliver(t)
      PROVE  TypeOK'
  <2> DEFINE read == delivery.copy
             rest == [read EXCEPT !.active = Cleared(@, t), !.run = Cleared(@, t)]
  <2>1. read \in Session /\ rest \in Session /\ session \in Session
    BY DEF TypeOK, Session, Cleared
  <2>2. /\ session' = [(IF rest = read THEN session ELSE rest) EXCEPT
                        !.updated = session.updated + 1]
        /\ delivered' = [delivered EXCEPT !.at = session.updated + 1,
                           !.over = @ \/ (rest # read /\ read.updated # session.updated)]
    BY <1>5 DEF Deliver
  <2>3. session.updated + 1 \in Nat
    BY <2>1 DEF Session
  <2>4. session' \in Session
    BY <2>1, <2>2, <2>3 DEF Session
  <2>5. delivered' \in [count : 0..bound.deliveries, at : Nat, over : BOOLEAN]
    BY <2>2, <2>3 DEF TypeOK
  <2>6. delivery' \in [job : Turn \cup {NoTurn}, copy : Session, due : SUBSET Turn]
    BY <1>5 DEF Deliver, TypeOK, NoDelivery
  <2> QED
    BY <1>5, <2>4, <2>5, <2>6 DEF Deliver, TypeOK, history
<1>6. ASSUME NEW r \in Replica, Restart(r)
      PROVE  TypeOK'
  <2>1. cache' \in [Replica -> SUBSET Session] /\ lost' \in SUBSET Turn
    BY <1>6 DEF Restart, TypeOK
  <2>2. \A t \in Turn : [NewTurn(r) EXCEPT !.pc = IF t \in lost' THEN "dead" ELSE "done"]
                          \in TurnRecord
    BY DEF TurnRecord, NewTurn
  <2>3. turn' \in [Turn -> TurnRecord]
    BY <1>6, <2>2 DEF Restart, TypeOK
  <2>4. delivery' \in [job : Turn \cup {NoTurn}, copy : Session, due : SUBSET Turn]
    BY <1>6 DEF Restart, TypeOK, NoDelivery
  <2> QED
    BY <1>6, <2>1, <2>3, <2>4 DEF Restart, TypeOK
<1>7. CASE UNCHANGED vars
  BY <1>7 DEF vars, history, TypeOK
<1> QED
  BY <1>1, <1>2, <1>3, <1>4, <1>5, <1>6, <1>7 DEF Next

-----------------------------------------------------------------------------
(* Copies.                                                                 *)

\* What caches and turns hold are copies.
LEMMA CopiesHeld ==
  ASSUME TypeOK
  PROVE  /\ NewSession \in Copies
         /\ \A r \in Replica : cache[r] \subseteq Copies
         /\ \A t \in Turn : turn[t].loaded \in Copies /\ turn[t].latest \in Copies
         /\ delivery.copy \in Copies
<1>1. \A r \in Replica : cache[r] \subseteq Session
  BY DEF TypeOK
<1>2. \A t \in Turn : turn[t].loaded \in Session /\ turn[t].latest \in Session
  BY DEF TypeOK, TurnRecord
<1>3. delivery.copy \in Session
  BY DEF TypeOK
<1> QED
  BY <1>1, <1>2, <1>3, NewTyped DEF Copies

\* A turn's write gives the row a version no copy has.
LEMMA KnownWrite ==
  ASSUME NEW s \in Session, NEW s2 \in Session, NEW c \in Session, NEW at \in Nat,
         Known(c, s, at), s2.updated = s.updated + 1, s2.version > s.version
  PROVE  Known(c, s2, at)
BY DEF Known, Session

\* A delivery outdates every copy.
LEMMA KnownDelivery ==
  ASSUME NEW s \in Session, NEW s2 \in Session, NEW c \in Session, NEW at \in Nat,
         Known(c, s, at), s2.updated = s.updated + 1
  PROVE  Known(c, s2, s2.updated)
BY DEF Known, Session

\* The row knows itself.
LEMMA KnownRow ==
  ASSUME NEW s \in Session, NEW at
  PROVE  Known(s, s, at)
BY DEF Known, Session

\* A step copies nothing but the row, as it was or as it is written.
LEMMA CopiesStep ==
  ASSUME TypeOK, [Next]_vars
  PROVE  Copies' \subseteq Copies \cup {session, session'}
<1> DEFINE Held == Copies \cup {session, session'}
<1> USE CopiesHeld
<1>0. ASSUME \A r \in Replica : cache'[r] \subseteq Held, delivery'.copy \in Held,
             \A u \in Turn : turn'[u].loaded \in Held /\ turn'[u].latest \in Held
      PROVE  Copies' \subseteq Held
  <2>1. \A c \in Copies' : \/ c \in {NewSession, delivery'.copy}
                           \/ \E r \in Replica : c \in cache'[r]
                           \/ \E u \in Turn : c \in {turn'[u].loaded, turn'[u].latest}
    BY DEF Copies
  <2> QED
    BY <1>0, <2>1
<1>1. ASSUME NEW t \in Turn, cache' = cache, delivery'.copy = delivery.copy,
             \A u \in Turn \ {t} : turn'[u] = turn[u],
             turn'[t].loaded \in Held, turn'[t].latest \in Held
      PROVE  Copies' \subseteq Held
  BY <1>0, <1>1
<1>2. ASSUME NEW t \in Turn, Load(t)
      PROVE  Copies' \subseteq Held
  <2>1. PICK copy \in (IF cache[turn[t].replica] # {} THEN cache[turn[t].replica]
                       ELSE {session}) :
          turn' = [turn EXCEPT ![t] = [NewTurn(turn[t].replica) EXCEPT
                     !.pc = "decide", !.warm = (cache[turn[t].replica] # {}), !.loaded = copy,
                     !.active = copy.active, !.run = copy.run, !.pending = copy.pending,
                     !.expected = copy.updated]]
    BY <1>2 DEF Load
  <2>2. turn[t].replica \in Replica
    BY DEF TypeOK, TurnRecord
  <2>3. copy \in Held
    BY <2>1, <2>2 DEF Copies
  <2>4. turn'[t].loaded = copy /\ turn'[t].latest = NewSession
    BY <2>1 DEF TypeOK, NewTurn
  <2>5. /\ cache' = cache /\ delivery' = delivery
        /\ \A u \in Turn \ {t} : turn'[u] = turn[u]
    BY <1>2, <2>1 DEF Load, TypeOK
  <2> QED
    BY <1>1, <2>3, <2>4, <2>5 DEF Copies
<1>3. ASSUME NEW t \in Turn, Decide(t)
      PROVE  Copies' \subseteq Held
  <2>1. cache' = cache /\ delivery'.copy = delivery.copy
    BY <1>3 DEF Decide, Respond, RespondAndClear, AskClarification, SubmitJob, RunWorkflow,
                TurnFails, TypeOK
  <2>2. /\ \A u \in Turn \ {t} : turn'[u] = turn[u]
        /\ \/ turn'[t].loaded = turn[t].loaded /\ turn'[t].latest = turn[t].latest
           \/ turn'[t].loaded = NewSession /\ turn'[t].latest = NewSession
    <3>1. CASE TurnFails(t)
      BY <3>1 DEF TurnFails, Over, TypeOK, NewTurn
    <3>2. CASE RunWorkflow(t)
      BY <3>2 DEF RunWorkflow, TypeOK, TurnRecord
    <3>3. ASSUME NEW p, NEW a, NEW c, Decides(t, p, a, c)
          PROVE  /\ \A u \in Turn \ {t} : turn'[u] = turn[u]
                 /\ turn'[t].loaded = turn[t].loaded /\ turn'[t].latest = turn[t].latest
      BY <3>3 DEF Decides, TypeOK, TurnRecord
    <3>4. CASE Respond(t)
      BY <3>3, <3>4 DEF Respond
    <3>5. CASE RespondAndClear(t)
      BY <3>3, <3>5 DEF RespondAndClear
    <3>6. CASE AskClarification(t)
      BY <3>3, <3>6 DEF AskClarification
    <3>7. CASE SubmitJob(t)
      BY <3>3, <3>7 DEF SubmitJob
    <3> QED
      BY <1>3, <3>1, <3>2, <3>4, <3>5, <3>6, <3>7 DEF Decide
  <2> QED
    BY <1>1, <2>1, <2>2 DEF Copies
<1>4. ASSUME NEW t \in Turn, Persist(t)
      PROVE  Copies' \subseteq Held
  <2>1. /\ turn[t].latest \in Copies /\ turn[t].loaded \in Copies /\ NewSession \in Copies
        /\ delivery' = delivery
    BY <1>4 DEF Persist, ReadLatest, WriteHits, WriteMisses, GiveUp, PutCache
  <2>2. CASE ReadLatest(t)
    <3>1. /\ cache' = cache /\ \A u \in Turn \ {t} : turn'[u] = turn[u]
          /\ turn'[t].loaded = turn[t].loaded /\ turn'[t].latest = session
      BY <2>2 DEF ReadLatest, TypeOK, TurnRecord
    <3> QED
      BY <1>1, <2>1, <3>1
  <2>3. CASE WriteHits(t)
    <3>1. /\ cache' = cache /\ \A u \in Turn \ {t} : turn'[u] = turn[u]
          /\ turn'[t].loaded = NewSession /\ turn'[t].latest \in {session', NewSession}
      BY <2>3 DEF WriteHits, TypeOK, TurnRecord, NewTurn
    <3> QED
      BY <1>1, <2>1, <3>1
  <2>4. CASE WriteMisses(t)
    <3>1. /\ cache' = cache /\ \A u \in Turn \ {t} : turn'[u] = turn[u]
          /\ turn'[t].loaded = turn[t].loaded /\ turn'[t].latest = NewSession
      BY <2>4 DEF WriteMisses, TypeOK, TurnRecord
    <3> QED
      BY <1>1, <2>1, <3>1
  <2>5. CASE GiveUp(t)
    <3>1. /\ cache' = cache /\ \A u \in Turn \ {t} : turn'[u] = turn[u]
          /\ turn'[t].loaded = turn[t].loaded /\ turn'[t].latest = turn[t].loaded
      BY <2>5 DEF GiveUp, TypeOK, TurnRecord
    <3> QED
      BY <1>1, <2>1, <3>1
  <2>6. CASE PutCache(t)
    <3>1. /\ \A r \in Replica : \A c \in cache'[r] : c \in cache[r] \cup {turn[t].latest, session}
          /\ \A u \in Turn \ {t} : turn'[u] = turn[u]
          /\ turn'[t].loaded = NewSession /\ turn'[t].latest = NewSession
      BY <2>6 DEF PutCache, Over, TypeOK, NewTurn
    <3>2. \A u \in Turn : turn'[u].loaded \in Held /\ turn'[u].latest \in Held
      BY <2>1, <3>1
    <3> QED
      BY <1>0, <2>1, <3>1, <3>2
  <2> QED
    BY <1>4, <2>2, <2>3, <2>4, <2>5, <2>6 DEF Persist
<1>5. ASSUME NEW t \in Turn, ReadSession(t) \/ Deliver(t)
      PROVE  Copies' \subseteq Held
  <2>1. delivery'.copy \in {delivery.copy, session, NewSession}
    BY <1>5 DEF ReadSession, Deliver, TypeOK, NoDelivery
  <2>2. cache' = cache /\ turn' = turn
    BY <1>5 DEF ReadSession, Deliver
  <2> QED
    BY <1>0, <2>1, <2>2
<1>6. ASSUME NEW r \in Replica, Restart(r)
      PROVE  Copies' \subseteq Held
  <2>1. \A s \in Replica : cache'[s] \subseteq cache[s]
    BY <1>6 DEF Restart, TypeOK
  <2>2. \A t \in Turn : \/ turn'[t] = turn[t]
                        \/ turn'[t].loaded = NewSession /\ turn'[t].latest = NewSession
    BY <1>6 DEF Restart, NewTurn
  <2>3. delivery'.copy \in {delivery.copy, NewSession}
    BY <1>6 DEF Restart, NoDelivery
  <2> QED
    BY <1>0, <2>1, <2>2, <2>3
<1>7. CASE UNCHANGED vars
  BY <1>7 DEF vars, history, Copies
<1> QED
  BY <1>2, <1>3, <1>4, <1>5, <1>6, <1>7 DEF Next

-----------------------------------------------------------------------------
(* The invariant.                                                          *)

\* An update that finds its row merges into the row as it is.
LEMMA WriteFacts ==
  ASSUME ChatInv, NEW t \in Turn, WriteHits(t)
  PROVE  /\ turn[t].latest = session
         /\ session' = Merged(turn[t])
         /\ session'.updated = session.updated + 1
         /\ session'.version > session.version
         /\ session' \in Session
<1>1. turn[t] \in TurnRecord /\ turn[t].latest \in Session /\ turn[t].loaded \in Session
      /\ session \in Session
  BY DEF ChatInv, TypeOK, TurnRecord
<1>2. turn[t].latest \in Copies
  BY CopiesHeld DEF ChatInv
<1>3. Known(turn[t].latest, session, delivered.at)
  BY <1>2 DEF ChatInv, CopiesKnown
<1>4. turn[t].pc = "write" /\ session.updated = turn[t].expected /\ session' = Merged(turn[t])
  BY DEF WriteHits
<1>5. turn[t].expected <= turn[t].latest.updated
  BY <1>4 DEF ChatInv, Attempts, Trying
<1>6. turn[t].latest.updated \in Nat /\ session.updated \in Nat
  BY <1>1 DEF Session
<1>7. turn[t].latest = session
  BY <1>3, <1>4, <1>5, <1>6 DEF Known
<1>8. session' \in Session
  BY <1>1, <1>4, MergedTyped DEF ChatInv
<1>9. /\ session'.updated = session.updated + 1
      /\ session'.version = Later(turn[t].latest.version, turn[t].loaded.version) + 1
  BY <1>4 DEF Merged
<1>10. session'.version > session.version
  BY <1>1, <1>7, <1>9 DEF Later, Session
<1> QED
  BY <1>4, <1>7, <1>8, <1>9, <1>10

\* A delivery writes the row, in a step that is the last delivery then.
LEMMA DeliverFacts ==
  ASSUME TypeOK, NEW t \in Turn, Deliver(t)
  PROVE  session'.updated = session.updated + 1 /\ delivered'.at = session'.updated
<1> DEFINE rest == [delivery.copy EXCEPT !.active = Cleared(@, t), !.run = Cleared(@, t)]
<1>1. session' = [(IF rest = delivery.copy THEN session ELSE rest) EXCEPT
                    !.updated = session.updated + 1]
  BY DEF Deliver
<1>2. session \in Session /\ rest \in Session
  BY DEF TypeOK, Session, Cleared
<1>3. session'.updated = session.updated + 1
  BY <1>1, <1>2 DEF Session
<1>4. delivered'.at = session.updated + 1
  BY DEF Deliver, TypeOK
<1> QED
  BY <1>3, <1>4

\* Nothing else writes the row.
LEMMA RowSteps ==
  ASSUME TypeOK, [Next]_vars
  PROVE  \/ session' = session /\ delivered'.at = delivered.at
         \/ \E t \in Turn : WriteHits(t) /\ delivered' = delivered
         \/ \E t \in Turn : Deliver(t)
<1>1. ASSUME NEW t \in Turn, Load(t) \/ Decide(t)
      PROVE  session' = session /\ delivered' = delivered
  BY <1>1 DEF Load, Decide, Respond, RespondAndClear, AskClarification, SubmitJob, RunWorkflow,
              TurnFails
<1>2. ASSUME NEW t \in Turn, Persist(t)
      PROVE  delivered' = delivered /\ (session' = session \/ WriteHits(t))
  BY <1>2 DEF Persist, ReadLatest, WriteHits, WriteMisses, GiveUp, PutCache
<1>3. ASSUME NEW t \in Turn, ReadSession(t)
      PROVE  session' = session /\ delivered'.at = delivered.at
  BY <1>3 DEF ReadSession, TypeOK
<1>4. ASSUME NEW r \in Replica, Restart(r)
      PROVE  session' = session /\ delivered' = delivered
  BY <1>4 DEF Restart
<1>5. CASE UNCHANGED vars
  BY <1>5 DEF vars
<1> QED
  BY <1>1, <1>2, <1>3, <1>4, <1>5 DEF Next

\* updated_at never goes back.
LEMMA RowGrows ==
  ASSUME ChatInv, [Next]_vars
  PROVE  /\ session.updated \in Nat /\ session'.updated \in Nat
         /\ session.updated <= session'.updated
<1>1. session.updated \in Nat
  BY DEF ChatInv, TypeOK, Session
<1>2. session' = session \/ session'.updated = session.updated + 1
  BY RowSteps, WriteFacts, DeliverFacts DEF ChatInv
<1> QED
  BY <1>1, <1>2

\* Every step keeps what the copies say of the row: they are outdated together.
LEMMA CopiesKnownStep ==
  ASSUME ChatInv, [Next]_vars
  PROVE  CopiesKnown'
<1>1. TypeOK /\ TypeOK' /\ session \in Session /\ session' \in Session
  BY TypeStep DEF ChatInv, TypeOK
<1>2. delivered.at \in Nat /\ session.updated \in Nat /\ delivered.at <= session.updated
  BY <1>1 DEF TypeOK, Session, ChatInv, CopiesKnown
<1>3. \A c \in Copies : c \in Session /\ Known(c, session, delivered.at)
  BY DEF ChatInv, CopiesKnown, Copies
<1>4. Known(session, session, delivered.at)
  BY <1>1, KnownRow
<1>5. Known(session', session', delivered'.at)
  BY <1>1, KnownRow
<1>6. CASE session' = session /\ delivered'.at = delivered.at
  BY <1>1, <1>2, <1>3, <1>4, <1>6, CopiesStep DEF CopiesKnown
<1>7. ASSUME NEW t \in Turn, WriteHits(t), delivered' = delivered
      PROVE  CopiesKnown'
  <2>1. session'.updated = session.updated + 1 /\ session'.version > session.version
    BY <1>7, WriteFacts
  <2>2. \A c \in Copies \cup {session} : Known(c, session', delivered.at)
    BY <1>1, <1>2, <1>3, <1>4, <2>1, KnownWrite
  <2>3. \A c \in Copies' : Known(c, session', delivered'.at)
    BY <1>1, <1>5, <1>7, <2>2, CopiesStep
  <2> QED
    BY <1>2, <1>7, <2>1, <2>3 DEF CopiesKnown
<1>8. ASSUME NEW t \in Turn, Deliver(t)
      PROVE  CopiesKnown'
  <2>1. session'.updated = session.updated + 1 /\ delivered'.at = session'.updated
    BY <1>1, <1>8, DeliverFacts
  <2>2. \A c \in Copies \cup {session} : Known(c, session', session'.updated)
    BY <1>1, <1>2, <1>3, <1>4, <2>1, KnownDelivery
  <2>3. \A c \in Copies' : Known(c, session', delivered'.at)
    BY <1>1, <1>5, <2>1, <2>2, CopiesStep
  <2> QED
    BY <1>2, <2>1, <2>3 DEF CopiesKnown
<1> QED
  BY <1>1, <1>6, <1>7, <1>8, RowSteps

\* A turn that does nothing in a step keeps its account of its attempts.
LEMMA AttemptsStay ==
  ASSUME ChatInv, [Next]_vars, NEW u \in Turn, turn'[u] = turn[u], u \in lost' => u \in lost
  PROVE  Attempts(u)'
<1>1. turn[u].loaded.updated \in Nat /\ turn[u].expected \in Nat
  BY DEF ChatInv, TypeOK, TurnRecord, Session
<1>2. Attempts(u)
  BY DEF ChatInv
<1> QED
  BY <1>1, <1>2, RowGrows DEF Attempts, Trying

\* Every step keeps the account of every turn's attempts.
LEMMA AttemptsStep ==
  ASSUME ChatInv, [Next]_vars, NEW u \in Turn
  PROVE  Attempts(u)'
<1>1. TypeOK /\ Attempts(u) /\ turn[u] \in TurnRecord /\ turn[u].loaded \in Session
      /\ turn[u].latest \in Session
  BY DEF ChatInv, TypeOK, TurnRecord
<1>2. /\ turn[u].loaded.updated \in Nat /\ turn[u].latest.updated \in Nat
      /\ turn[u].expected \in Nat /\ turn[u].misses \in 0..2 /\ session.updated \in Nat
  BY <1>1 DEF TypeOK, TurnRecord, Session
<1>3. ASSUME NEW t \in Turn, t # u, Load(t) \/ Decide(t) \/ Persist(t)
      PROVE  turn'[u] = turn[u] /\ (u \in lost' => u \in lost)
  <2>1. CASE Load(t) \/ Persist(t)
    BY <1>1, <1>3, <2>1 DEF Load, Persist, ReadLatest, WriteHits, WriteMisses, GiveUp, PutCache,
                            Over, TypeOK, history
  <2>2. CASE Decide(t)
    BY <1>1, <1>3, <2>2 DEF Decide, Respond, RespondAndClear, AskClarification, SubmitJob,
                            RunWorkflow, TurnFails, Decides, Over, TypeOK, history
  <2> QED
    BY <1>3, <2>1, <2>2
<1>4. CASE Load(u)
  <2>1. PICK copy \in (IF cache[turn[u].replica] # {} THEN cache[turn[u].replica]
                       ELSE {session}) :
          turn' = [turn EXCEPT ![u] = [NewTurn(turn[u].replica) EXCEPT
                     !.pc = "decide", !.warm = (cache[turn[u].replica] # {}), !.loaded = copy,
                     !.active = copy.active, !.run = copy.run, !.pending = copy.pending,
                     !.expected = copy.updated]]
    BY <1>4 DEF Load
  <2>2. turn[u].replica \in Replica
    BY <1>1 DEF TurnRecord
  <2>3. copy \in Copies \/ copy = session
    BY <1>1, <2>1, <2>2, CopiesHeld
  <2>4. copy.updated <= session.updated /\ copy.updated \in Nat
    BY <1>1, <1>2, <2>3 DEF ChatInv, CopiesKnown, Known, Copies, Session
  <2>5. /\ turn'[u].pc = "decide" /\ turn'[u].loaded = copy /\ turn'[u].active = copy.active
        /\ turn'[u].run = copy.run /\ turn'[u].expected = copy.updated /\ turn'[u].misses = 0
    BY <1>1, <2>1 DEF TypeOK, NewTurn
  <2>6. session' = session /\ lost' = lost /\ u \notin lost
    BY <1>1, <1>4 DEF Load, Attempts
  <2> QED
    BY <2>4, <2>5, <2>6 DEF Attempts, Trying
<1>5. CASE Decide(u)
  <2>1. session' = session /\ lost' = lost /\ turn[u].pc = "decide"
    BY <1>5 DEF Decide, Respond, RespondAndClear, AskClarification, SubmitJob, RunWorkflow,
                TurnFails, history
  <2>2. CASE TurnFails(u)
    <3>1. turn'[u].pc = "done"
      BY <1>1, <2>2 DEF TurnFails, Over, NewTurn, TypeOK
    <3> QED
      BY <3>1 DEF Attempts, Trying
  <2>3. ASSUME turn'[u].pc = "read", turn'[u].loaded = turn[u].loaded,
               turn'[u].expected = turn[u].expected, turn'[u].misses = turn[u].misses,
               turn'[u].active \in {turn[u].active, u}, turn'[u].run \in {turn[u].run, u}
        PROVE  Attempts(u)'
    BY <1>1, <2>1, <2>3 DEF Attempts, Trying
  <2>4. ASSUME NEW p, NEW a \in {turn[u].active, u}, NEW c, Decides(u, p, a, c)
        PROVE  Attempts(u)'
    <3>1. /\ turn'[u].pc = "read" /\ turn'[u].loaded = turn[u].loaded
          /\ turn'[u].expected = turn[u].expected /\ turn'[u].misses = turn[u].misses
          /\ turn'[u].active = a /\ turn'[u].run = turn[u].run
      BY <1>1, <2>4 DEF Decides, TypeOK, TurnRecord
    <3> QED
      BY <2>3, <3>1
  <2>5. CASE Respond(u)
    BY <2>4, <2>5 DEF Respond
  <2>6. CASE RespondAndClear(u)
    BY <2>4, <2>6 DEF RespondAndClear
  <2>7. CASE AskClarification(u)
    BY <2>4, <2>7 DEF AskClarification
  <2>8. CASE SubmitJob(u)
    BY <2>4, <2>8 DEF SubmitJob
  <2>9. CASE RunWorkflow(u)
    <3>1. /\ turn'[u].pc = "read" /\ turn'[u].loaded = turn[u].loaded
          /\ turn'[u].expected = turn[u].expected /\ turn'[u].misses = turn[u].misses
          /\ turn'[u].active = u /\ turn'[u].run = u
      BY <1>1, <2>9 DEF RunWorkflow, TypeOK, TurnRecord
    <3> QED
      BY <2>3, <3>1
  <2> QED
    BY <1>5, <2>2, <2>5, <2>6, <2>7, <2>8, <2>9 DEF Decide
<1>6. CASE Persist(u)
  <2>1. CASE ReadLatest(u)
    <3>1. /\ turn[u].pc = "read"
          /\ turn' = [turn EXCEPT ![u].pc = "write", ![u].latest = session]
          /\ session' = session /\ lost' = lost
      BY <2>1 DEF ReadLatest, history
    <3>2. /\ turn'[u].pc = "write" /\ turn'[u].latest = session
          /\ turn'[u].loaded = turn[u].loaded /\ turn'[u].expected = turn[u].expected
          /\ turn'[u].misses = turn[u].misses /\ turn'[u].active = turn[u].active
          /\ turn'[u].run = turn[u].run
      BY <1>1, <3>1 DEF TypeOK, TurnRecord
    <3> QED
      BY <1>1, <1>2, <3>1, <3>2 DEF Attempts, Trying
  <2>2. CASE WriteHits(u)
    <3>1. turn'[u].pc = "put" /\ u \notin lost /\ lost' = lost
      BY <1>1, <2>2 DEF WriteHits, history, Attempts, Trying, TypeOK, TurnRecord, NewTurn
    <3> QED
      BY <3>1 DEF Attempts, Trying
  <2>3. CASE WriteMisses(u)
    <3>1. /\ turn[u].pc = "write" /\ session.updated # turn[u].expected /\ turn[u].misses < 2
          /\ session' = session /\ lost' = lost
      BY <2>3 DEF WriteMisses, history
    <3>2. /\ turn'[u].pc = "read" /\ turn'[u].misses = turn[u].misses + 1
          /\ turn'[u].expected = turn[u].latest.updated /\ turn'[u].loaded = turn[u].loaded
          /\ turn'[u].active = turn[u].active /\ turn'[u].run = turn[u].run
      BY <1>1, <2>3 DEF WriteMisses, TypeOK, TurnRecord
    <3>3. turn[u].latest.updated <= session.updated
      BY <1>1, CopiesHeld DEF ChatInv, CopiesKnown, Known
    <3> QED
      BY <1>1, <1>2, <3>1, <3>2, <3>3 DEF Attempts, Trying
  <2>4. CASE GiveUp(u)
    <3>1. /\ turn[u].pc = "write" /\ session.updated # turn[u].expected /\ turn[u].misses = 2
          /\ session' = session
      BY <2>4 DEF GiveUp
    <3>2. turn'[u].pc = "put" /\ turn'[u].loaded = turn[u].loaded
      BY <1>1, <2>4 DEF GiveUp, TypeOK, TurnRecord
    <3> QED
      BY <1>1, <1>2, <3>1, <3>2 DEF Attempts, Trying
  <2>5. CASE PutCache(u)
    <3>1. turn'[u].pc = "done"
      BY <1>1, <2>5 DEF PutCache, Over, NewTurn, TypeOK
    <3> QED
      BY <3>1 DEF Attempts, Trying
  <2> QED
    BY <1>6, <2>1, <2>2, <2>3, <2>4, <2>5 DEF Persist
<1>7. ASSUME NEW t \in Turn, ReadSession(t) \/ Deliver(t)
      PROVE  turn' = turn /\ lost' = lost
  BY <1>7 DEF ReadSession, Deliver, history
<1>8. ASSUME NEW r \in Replica, Restart(r)
      PROVE  Attempts(u)'
  <2>1. CASE turn[u].replica = r /\ UnderWay(u)
    <3>1. turn'[u].pc \in {"dead", "done"}
      BY <1>8, <2>1 DEF Restart, NewTurn
    <3> QED
      BY <3>1 DEF Attempts, Trying
  <2>2. CASE ~(turn[u].replica = r /\ UnderWay(u))
    <3>1. turn'[u] = turn[u] /\ (u \in lost' => u \in lost)
      BY <1>8, <2>2 DEF Restart, UnderWay
    <3> QED
      BY <3>1, AttemptsStay
  <2> QED
    BY <2>1, <2>2
<1>9. CASE UNCHANGED vars
  BY <1>9, AttemptsStay DEF vars, history
<1> QED
  BY <1>3, <1>4, <1>5, <1>6, <1>7, <1>8, <1>9, AttemptsStay DEF Next

\* The invariant holds at first,
LEMMA InvInit == Init => ChatInv
<1> SUFFICES ASSUME Init
             PROVE  ChatInv
  OBVIOUS
<1> USE NewTyped
<1>1. \A t \in Turn : \E r \in Replica : turn[t] = NewTurn(r)
  BY DEF Init
<1>2. turn \in [Turn -> TurnRecord]
  BY DEF Init
<1>3. TypeOK
  <2>1. bound \in Bounds /\ 0 \in 0..bound.deliveries
    BY ChatSessionAssumption DEF Init
  <2>2. delivered \in [count : 0..bound.deliveries, at : Nat, over : BOOLEAN]
    BY <2>1 DEF Init
  <2>3. delivery \in [job : Turn \cup {NoTurn}, copy : Session, due : SUBSET Turn]
    BY DEF Init, NoDelivery
  <2>4. answered \in [Turn -> Turn \cup {NoTurn}] /\ lost \in SUBSET Turn
    BY DEF Init
  <2>5. session \in Session /\ cache \in [Replica -> SUBSET Session]
    BY DEF Init
  <2>6. overlapped \in BOOLEAN /\ served \in SUBSET Replica
    BY DEF Init
  <2> QED
    BY <1>2, <2>1, <2>2, <2>3, <2>4, <2>5, <2>6 DEF TypeOK
<1>4. session = NewSession /\ delivered.at = 0 /\ NewSession.updated = 0
  BY DEF Init, NewSession
<1>5. Copies \subseteq {NewSession}
  BY <1>1 DEF Init, Copies, NewTurn, NoDelivery
<1>6. CopiesKnown
  BY <1>4, <1>5, KnownRow DEF CopiesKnown
<1>7. \A t \in Turn : Attempts(t)
  BY <1>1 DEF Init, Attempts, Trying, NewTurn
<1> QED
  BY <1>3, <1>6, <1>7 DEF ChatInv

\* and every step keeps it.
LEMMA InvStep == ChatInv /\ [Next]_vars => ChatInv'
<1> SUFFICES ASSUME ChatInv, [Next]_vars
             PROVE  ChatInv'
  OBVIOUS
<1>1. TypeOK'
  BY TypeStep DEF ChatInv
<1>2. CopiesKnown'
  BY CopiesKnownStep
<1>3. \A t \in Turn : Attempts(t)'
  BY AttemptsStep
<1> QED
  BY <1>1, <1>2, <1>3 DEF ChatInv

\* The invariant.
LEMMA Invariant == Spec => []ChatInv
BY InvInit, InvStep, PTL DEF Spec

-----------------------------------------------------------------------------
(* The theorems.                                                           *)

\* Every variable keeps its type, for any number of turns, replicas, fields and deliveries.
THEOREM ChatTypeCorrect == Spec => []TypeOK
<1>1. ChatInv => TypeOK
  BY DEF ChatInv
<1> QED
  BY <1>1, Invariant, PTL

\* A turn is given up only when the session was written twice since the state it loaded.
THEOREM LossNeedsTwoWrites == Spec => []LossTakesTwoWrites
<1>1. ChatInv => LossTakesTwoWrites
  BY DEF ChatInv, TypeOK, Attempts, LossTakesTwoWrites
<1> QED
  BY <1>1, Invariant, PTL

\* What a turn writes without having decided it is counted as a conflict, or the orchestrator
\* has written since the turn's copy was.
LEMMA WriteIsCounted ==
  ASSUME ChatInv, NEW t \in Turn, WriteHits(t), session'.conflicts <= session.conflicts,
         turn[t].loaded.updated >= delivered.at
  PROVE  /\ session'.active # session.active => turn[t].active = t
         /\ session'.run # session.run => turn[t].run = t
         /\ session'.pending # session.pending =>
              turn[t].clears \/ turn[t].pending # turn[t].loaded.pending
<1> DEFINE w == turn[t]
<1>1. /\ w \in TurnRecord /\ w.loaded \in Session /\ session \in Session /\ w.latest = session
      /\ session' = Merged(w)
  BY WriteFacts DEF ChatInv, TypeOK, TurnRecord
<1>2. session.conflicts \in Nat /\ session.version \in Nat /\ w.loaded.version \in Nat
  BY <1>1 DEF Session
<1>3. session'.conflicts = session.conflicts + (IF Conflicts(w) THEN 1 ELSE 0)
  BY <1>1 DEF Merged
<1>4. session.version <= w.loaded.version
  BY <1>1, <1>2, <1>3 DEF Conflicts
<1>5. Known(w.loaded, session, delivered.at)
  BY CopiesHeld DEF ChatInv, CopiesKnown
<1>6. /\ w.loaded.pending = session.pending /\ w.loaded.active = session.active
      /\ w.loaded.run = session.run
  BY <1>2, <1>4, <1>5 DEF Known
<1>7. w.active \in {w.loaded.active, t} /\ w.run \in {w.loaded.run, t}
  BY DEF ChatInv, Attempts, Trying, WriteHits
<1>8. /\ session'.active = IF w.active = NoTurn THEN session.active ELSE w.active
      /\ session'.run = IF w.run = NoTurn THEN session.run ELSE w.run
      /\ session'.pending = IF w.clears THEN NoPending
                            ELSE MergePending(session.pending, w.pending)
  BY <1>1 DEF Merged
<1>9. session.pending \in Pending
  BY <1>1 DEF Session
<1>10. MergePending(session.pending, session.pending) = session.pending
  BY <1>9, MergeTyped
<1> QED
  BY <1>6, <1>7, <1>8, <1>10

\* A turn's step that ends in the cache's put and changes the row is its update.
LEMMA WritesAreHits ==
  ASSUME TypeOK, [Next]_vars, NEW t \in Turn, Writes(t)
  PROVE  WriteHits(t)
<1>1. turn'[t] # turn[t] /\ session' # session /\ turn[t].pc = "write" /\ turn'[t].pc = "put"
  BY DEF Writes
<1>2. ASSUME NEW u \in Turn, Deliver(u)
      PROVE  FALSE
  BY <1>1, <1>2 DEF Deliver
<1>3. ASSUME NEW u \in Turn, u # t, WriteHits(u)
      PROVE  FALSE
  BY <1>1, <1>3 DEF WriteHits, TypeOK
<1> QED
  BY <1>1, <1>2, <1>3, RowSteps

\* No turn overwrites the session with a stale copy unless a conflict is counted or a delivery
\* came between.
THEOREM StaleWritesCounted == Spec => StaleWriteIsCounted
<1>1. ASSUME ChatInv, [Next]_vars, NEW t \in Turn, Writes(t)
      PROVE  \/ session'.conflicts > session.conflicts
             \/ turn[t].loaded.updated < delivered.at
             \/ /\ session'.active # session.active => turn[t].active = t
                /\ session'.run # session.run => turn[t].run = t
                /\ session'.pending # session.pending =>
                     turn[t].clears \/ turn[t].pending # turn[t].loaded.pending
  <2>1. WriteHits(t)
    BY <1>1, WritesAreHits DEF ChatInv
  <2>2. /\ session.conflicts \in Nat /\ session'.conflicts \in Nat
        /\ turn[t].loaded.updated \in Nat /\ delivered.at \in Nat
    BY <1>1, <2>1, WriteFacts DEF ChatInv, TypeOK, TurnRecord, Session
  <2> QED
    BY <1>1, <2>1, <2>2, WriteIsCounted
<1>2. ChatInv /\ [Next]_vars =>
        [\A t \in Turn : Writes(t) =>
           \/ session'.conflicts > session.conflicts
           \/ turn[t].loaded.updated < delivered.at
           \/ /\ session'.active # session.active => turn[t].active = t
              /\ session'.run # session.run => turn[t].run = t
              /\ session'.pending # session.pending =>
                   turn[t].clears \/ turn[t].pending # turn[t].loaded.pending]_vars
  BY <1>1
<1> QED
  BY <1>2, Invariant, PTL DEF Spec, StaleWriteIsCounted

-----------------------------------------------------------------------------
(* What is answered stays answered.                                        *)

\* A delivery writes back what it has read, which is the row unless it writes over a turn.
LEMMA DeliveryWrites ==
  ASSUME ChatInv, NEW t \in Turn, Deliver(t)
  PROVE  /\ session'.pending \in {session.pending, delivery.copy.pending}
         /\ session'.version \in {session.version, delivery.copy.version}
         /\ session'.conflicts \in {session.conflicts, delivery.copy.conflicts}
         /\ ~delivered'.over => /\ ~delivered.over
                                /\ session'.pending = session.pending
                                /\ session'.version = session.version
                                /\ session'.conflicts = session.conflicts
<1> DEFINE read == delivery.copy
           rest == [read EXCEPT !.active = Cleared(@, t), !.run = Cleared(@, t)]
<1>1. read \in Session /\ session \in Session /\ rest \in Session
  BY DEF ChatInv, TypeOK, Session, Cleared
<1>2. /\ session' = [(IF rest = read THEN session ELSE rest) EXCEPT !.updated = session.updated + 1]
      /\ delivered'.over = (delivered.over \/ (rest # read /\ read.updated # session.updated))
  BY DEF Deliver, ChatInv, TypeOK
<1>3. /\ rest.pending = read.pending /\ rest.version = read.version
      /\ rest.conflicts = read.conflicts
  BY <1>1 DEF Session
<1>4. LET s == IF rest = read THEN session ELSE rest
      IN  /\ session'.pending = s.pending /\ session'.version = s.version
          /\ session'.conflicts = s.conflicts
  BY <1>1, <1>2 DEF Session
<1>5. read.updated = session.updated => read = session
  BY CopiesHeld DEF ChatInv, CopiesKnown, Known
<1> QED
  BY <1>2, <1>3, <1>4, <1>5

\* What is answered stays answered while the clarification is pending, for any number of turns,
\* unless a delivery writes over a turn it has not read.
THEOREM AnswersStay == Spec => AnswersKept
<1> DEFINE Kept == session.pending.open # {} /\ session'.pending.open # {}
                     => \/ session.pending.known \subseteq session'.pending.known
                        \/ session'.updated = delivered'.at /\ delivered'.over
<1>1. ASSUME ChatInv, [Next]_vars
      PROVE  Kept
  <2>1. TypeOK /\ session \in Session /\ session.pending \in Pending
    BY <1>1 DEF ChatInv, TypeOK, Session
  <2>2. CASE session' = session
    BY <2>2
  <2>3. ASSUME NEW t \in Turn, WriteHits(t)
        PROVE  Kept
    <3>1. session'.pending = IF turn[t].clears THEN NoPending
                             ELSE MergePending(session.pending, turn[t].pending)
      BY <1>1, <2>3, WriteFacts DEF Merged
    <3>2. turn[t].pending \in Pending
      BY <2>1 DEF TypeOK, TurnRecord
    <3> QED
      BY <2>1, <3>1, <3>2 DEF MergePending, NoPending, Pending
  <2>4. ASSUME NEW t \in Turn, Deliver(t)
        PROVE  Kept
    BY <1>1, <2>1, <2>4, DeliverFacts, DeliveryWrites DEF TypeOK
  <2> QED
    BY <1>1, <2>1, <2>2, <2>3, <2>4, RowSteps
<1>2. ChatInv /\ [Next]_vars => [Kept]_vars
  BY <1>1
<1>3. AnswersKept <=> [][Kept]_vars
  BY DEF AnswersKept
<1> QED
  BY <1>2, <1>3, Invariant, PTL DEF Spec

-----------------------------------------------------------------------------
(* What a turn does to itself.                                             *)

\* To the other turns it does nothing.
LEMMA OthersStay ==
  ASSUME TypeOK, NEW t \in Turn, Load(t) \/ Decide(t) \/ Persist(t)
  PROVE  \A u \in Turn : u # t => turn'[u] = turn[u] /\ answered'[u] = answered[u]
<1>1. CASE Load(t) \/ Persist(t)
  BY <1>1 DEF Load, Persist, ReadLatest, WriteHits, WriteMisses, GiveUp, PutCache,
              Over, TypeOK, history
<1>2. CASE Decide(t)
  BY <1>2 DEF Decide, Respond, RespondAndClear, AskClarification, SubmitJob,
              RunWorkflow, TurnFails, Decides, Over, Answers, TypeOK, history
<1> QED
  BY <1>1, <1>2

\* It loads a copy of its replica's cache, or the row.
LEMMA LoadIs ==
  ASSUME TypeOK, NEW t \in Turn, Load(t)
  PROVE  /\ turn[t].pc = "new" /\ turn'[t].pc = "decide"
         /\ turn'[t].replica = turn[t].replica
         /\ \/ turn'[t].loaded \in cache[turn[t].replica]
            \/ cache[turn[t].replica] = {} /\ turn'[t].loaded = session
         /\ turn'[t].pending = turn'[t].loaded.pending
         /\ served' = served \cup {turn[t].replica}
         /\ overlapped' = (overlapped \/ \E u \in Turn : UnderWay(u))
         /\ UNCHANGED <<session, cache, delivery, answered, lost, delivered>>
<1>1. PICK copy \in (IF cache[turn[t].replica] # {} THEN cache[turn[t].replica] ELSE {session}) :
        turn' = [turn EXCEPT ![t] = [NewTurn(turn[t].replica) EXCEPT
                   !.pc = "decide", !.warm = (cache[turn[t].replica] # {}), !.loaded = copy,
                   !.active = copy.active, !.run = copy.run, !.pending = copy.pending,
                   !.expected = copy.updated]]
  BY DEF Load
<1>2. /\ turn'[t].pc = "decide" /\ turn'[t].loaded = copy /\ turn'[t].pending = copy.pending
      /\ turn'[t].replica = turn[t].replica
  BY <1>1 DEF TypeOK, NewTurn
<1> QED
  BY <1>1, <1>2 DEF Load

\* The question of what a message makes of a clarification.
LEMMA ReadingAsks ==
  ASSUME NEW p \in Pending, NEW m \in Readings(p)
  PROVE  m.pending.asked \in {NoTurn, p.asked}
<1>1. ASSUME NEW fields
      PROVE  Mapped(p, fields).pending.asked \in {NoTurn, p.asked}
  BY DEF Mapped, NoPending, Pending
<1>2. Restarted.pending.asked = NoTurn
  BY DEF Restarted, NoPending
<1> QED
  BY <1>1, <1>2 DEF Readings

\* It fails; or it goes on to persist what it has decided, and if it creates a job, that
\* answers what it had loaded, and the question is dropped.
LEMMA DecideIs ==
  ASSUME TypeOK, NEW t \in Turn, Decide(t)
  PROVE  /\ turn[t].pc = "decide" /\ turn'[t].replica = turn[t].replica
         /\ \/ turn'[t].pc = "done" /\ answered' = answered
            \/ /\ turn'[t].pc = "read" /\ turn'[t].loaded = turn[t].loaded
               /\ turn'[t].pending.asked \in {NoTurn, t, turn[t].loaded.pending.asked}
               /\ \/ answered' = answered
                  \/ /\ turn'[t].clears
                     /\ answered'[t] \in {NoTurn, turn[t].loaded.pending.asked}
         /\ UNCHANGED <<session, cache, lost, delivered, overlapped, served>>
         /\ delivery'.copy = delivery.copy /\ delivery'.job = delivery.job
<1> DEFINE q == turn[t].loaded.pending.asked
<1>1. turn[t] \in TurnRecord /\ turn[t].loaded.pending \in Pending
  BY DEF TypeOK, TurnRecord, Session
<1>2. ASSUME NEW p, NEW a, NEW c, Decides(t, p, a, c)
      PROVE  /\ turn'[t].pc = "read" /\ turn'[t].loaded = turn[t].loaded
             /\ turn'[t].replica = turn[t].replica
             /\ turn'[t].pending = p /\ turn'[t].clears = c
  BY <1>1, <1>2 DEF Decides, TypeOK, TurnRecord
<1>3. /\ turn[t].pc = "decide"
      /\ UNCHANGED <<session, cache, lost, delivered, overlapped, served>>
      /\ delivery'.copy = delivery.copy /\ delivery'.job = delivery.job
  BY DEF Decide, Respond, RespondAndClear, AskClarification, SubmitJob, RunWorkflow, TurnFails,
         history, TypeOK
<1>4. NoPending.asked = NoTurn
  BY DEF NoPending
<1>5. CASE TurnFails(t)
  BY <1>1, <1>3, <1>5 DEF TurnFails, Over, NewTurn, TypeOK, TurnRecord, history
<1>6. CASE Respond(t)
  <2>1. PICK m \in Readings(turn[t].loaded.pending) :
          Decides(t, m.pending, turn[t].active, m.restarted)
    BY <1>6 DEF Respond
  <2>2. answered' = answered
    BY <1>6 DEF Respond, history
  <2> QED
    BY <1>1, <1>2, <1>3, <2>1, <2>2, ReadingAsks
<1>7. CASE RespondAndClear(t)
  BY <1>2, <1>3, <1>4, <1>7 DEF RespondAndClear, history
<1>8. CASE AskClarification(t)
  <2>1. PICK m \in Readings(turn[t].loaded.pending), known \in SUBSET Field :
          \E open \in (SUBSET (Field \ known)) \ {{}} :
            Decides(t, [asked |-> IF m.pending.open = {} THEN t ELSE m.pending.asked,
                        known |-> known, open |-> open], turn[t].active, FALSE)
    BY <1>8 DEF AskClarification
  <2>2. PICK open \in (SUBSET (Field \ known)) \ {{}} :
          Decides(t, [asked |-> IF m.pending.open = {} THEN t ELSE m.pending.asked,
                      known |-> known, open |-> open], turn[t].active, FALSE)
    BY <2>1
  <2>3. answered' = answered
    BY <1>8 DEF AskClarification, history
  <2>4. PICK p : Decides(t, p, turn[t].active, FALSE) /\ p.asked \in {NoTurn, t, q}
    <3> DEFINE r == [asked |-> IF m.pending.open = {} THEN t ELSE m.pending.asked,
                     known |-> known, open |-> open]
    <3>1. r.asked \in {NoTurn, t, q} /\ Decides(t, r, turn[t].active, FALSE)
      BY <1>1, <2>2, ReadingAsks
    <3> QED
      BY <3>1
  <2> QED
    BY <1>2, <1>3, <2>3, <2>4
<1>9. CASE SubmitJob(t)
  <2>1. answered'[t] \in {NoTurn, q}
    BY <1>9 DEF SubmitJob, Answers, TypeOK
  <2>2. Decides(t, NoPending, t, TRUE)
    BY <1>9 DEF SubmitJob
  <2> QED
    BY <1>2, <1>3, <1>4, <2>1, <2>2
<1>10. CASE RunWorkflow(t)
  <2>1. answered'[t] \in {NoTurn, q}
    BY <1>10 DEF RunWorkflow, Answers, TypeOK
  <2>2. /\ turn'[t].pc = "read" /\ turn'[t].loaded = turn[t].loaded
        /\ turn'[t].replica = turn[t].replica
        /\ turn'[t].pending = NoPending /\ turn'[t].clears
    BY <1>1, <1>10 DEF RunWorkflow, TypeOK, TurnRecord
  <2> QED
    BY <1>3, <1>4, <2>1, <2>2
<1> QED
  BY <1>5, <1>6, <1>7, <1>8, <1>9, <1>10 DEF Decide

\* An attempt goes on to the next, persists, or is the last; a turn that is through puts what
\* it has written, or the row, into the cache.
LEMMA PersistIs ==
  ASSUME TypeOK, NEW t \in Turn, Persist(t)
  PROVE  /\ turn'[t].replica = turn[t].replica
         /\ UNCHANGED <<answered, delivery, delivered, overlapped, served>>
         /\ \/ /\ turn[t].pc \in {"read", "write"} /\ turn'[t].pc \in {"read", "write"}
               /\ turn'[t].loaded = turn[t].loaded /\ turn'[t].pending = turn[t].pending
               /\ turn'[t].clears = turn[t].clears
               /\ UNCHANGED <<session, cache, lost>>
            \/ /\ WriteHits(t) /\ turn[t].pc = "write" /\ turn'[t].pc = "put"
               /\ turn'[t].warm => turn'[t].latest = session'
               /\ UNCHANGED <<cache, lost>>
            \/ /\ turn[t].pc = "write" /\ turn'[t].pc = "put"
               /\ turn[t].misses = 2 /\ session.updated # turn[t].expected
               /\ lost' = lost \cup {t} /\ UNCHANGED <<session, cache>>
            \/ /\ turn[t].pc = "put" /\ turn'[t].pc = "done"
               /\ cache' = [cache EXCEPT ![turn[t].replica] =
                              {IF turn[t].warm THEN turn[t].latest ELSE session}]
               /\ UNCHANGED <<session, lost>>
<1>1. turn[t] \in TurnRecord
  BY DEF TypeOK
<1>2. CASE ReadLatest(t)
  BY <1>1, <1>2 DEF ReadLatest, TypeOK, TurnRecord, history
<1>3. CASE WriteHits(t)
  BY <1>1, <1>3 DEF WriteHits, TypeOK, TurnRecord, NewTurn, history
<1>4. CASE WriteMisses(t)
  BY <1>1, <1>4 DEF WriteMisses, TypeOK, TurnRecord, history
<1>5. CASE GiveUp(t)
  BY <1>1, <1>5 DEF GiveUp, TypeOK, TurnRecord
<1>6. CASE PutCache(t)
  BY <1>1, <1>6 DEF PutCache, Over, TypeOK, TurnRecord, NewTurn, history
<1> QED
  BY <1>2, <1>3, <1>4, <1>5, <1>6 DEF Persist

-----------------------------------------------------------------------------
(* Questions and their answers.                                            *)

\* The turn that asked, if any, has stored its question or given it up.
AskedBefore(q) == q # NoTurn => turn[q].pc \in {"put", "done", "dead"}

\* The questions that copies ask and jobs answer were asked before, and a turn answers the one
\* it has loaded.
Questions ==
  /\ \A c \in Copies \cup {session} : AskedBefore(c.pending.asked)
  /\ \A t \in Turn :
       /\ AskedBefore(answered[t])
       /\ turn[t].pc \in {"new", "decide"} => answered[t] = NoTurn
       /\ Trying(t) => /\ turn[t].pending.asked \in {NoTurn, t, turn[t].loaded.pending.asked}
                       /\ answered[t] # NoTurn =>
                            turn[t].clears /\ answered[t] = turn[t].loaded.pending.asked

\* Nothing else changes turns or answers, but the death of a process.
LEMMA TurnSteps ==
  ASSUME TypeOK, [Next]_vars
  PROVE  \/ \E t \in Turn : Load(t) \/ Decide(t) \/ Persist(t)
         \/ \E r \in Replica : Restart(r)
         \/ UNCHANGED <<turn, answered, lost>>
<1>1. ASSUME NEW t \in Turn, ReadSession(t) \/ Deliver(t)
      PROVE  UNCHANGED <<turn, answered, lost>>
  BY <1>1 DEF ReadSession, Deliver, history
<1>2. CASE UNCHANGED vars
  BY <1>2 DEF vars, history
<1> QED
  BY <1>1, <1>2 DEF Next

\* A process that dies takes its turns with it.
LEMMA RestartIs ==
  ASSUME TypeOK, NEW r \in Replica, Restart(r)
  PROVE  /\ UNCHANGED <<session, answered, overlapped, served, delivered>>
         /\ delivery'.job # NoTurn => delivery' = delivery
         /\ lost \subseteq lost'
         /\ \A s \in Replica : cache'[s] = {} \/ (s # r /\ cache'[s] = cache[s])
         /\ \A u \in Turn :
              \/ turn'[u] = turn[u] /\ (u \in lost' => u \in lost)
                 /\ (turn[u].replica = r => ~UnderWay(u))
              \/ /\ turn[u].replica = r /\ turn'[u].replica = r /\ UnderWay(u)
                 /\ turn'[u].pc = IF u \in lost' THEN "dead" ELSE "done"
                 /\ turn[u].pc \in {"read", "write"} => u \in lost'
                 /\ u \in lost' => u \in lost \/ turn[u].pc \in {"read", "write"}
<1>1. /\ UNCHANGED <<session, answered, overlapped, served, delivered>>
      /\ cache' = [cache EXCEPT ![r] = {}]
      /\ lost' = lost \cup {t \in Turn : turn[t].replica = r /\ turn[t].pc \in {"read", "write"}}
      /\ turn' = [t \in Turn |->
                   IF turn[t].replica = r /\ UnderWay(t)
                   THEN [NewTurn(r) EXCEPT !.pc = IF t \in lost' THEN "dead" ELSE "done"]
                   ELSE turn[t]]
      /\ delivery' \in {delivery, [NoDelivery EXCEPT !.due = delivery.due]}
  BY DEF Restart
<1>2. delivery'.job # NoTurn => delivery' = delivery
  BY <1>1 DEF NoDelivery
<1>3. \A s \in Replica : cache'[s] = {} \/ (s # r /\ cache'[s] = cache[s])
  <2>1. cache' = [cache EXCEPT ![r] = {}] /\ cache \in [Replica -> SUBSET Session]
    BY <1>1 DEF TypeOK
  <2> QED
    BY <2>1
<1>4. ASSUME NEW u \in Turn
      PROVE  \/ turn'[u] = turn[u] /\ (u \in lost' => u \in lost)
                /\ (turn[u].replica = r => ~UnderWay(u))
             \/ /\ turn[u].replica = r /\ turn'[u].replica = r /\ UnderWay(u)
                /\ turn'[u].pc = IF u \in lost' THEN "dead" ELSE "done"
                /\ turn[u].pc \in {"read", "write"} => u \in lost'
                /\ u \in lost' => u \in lost \/ turn[u].pc \in {"read", "write"}
  <2>1. CASE turn[u].replica = r /\ UnderWay(u)
    <3>1. turn'[u].replica = r /\ turn'[u].pc = IF u \in lost' THEN "dead" ELSE "done"
      BY <1>1, <2>1 DEF NewTurn
    <3> QED
      BY <1>1, <2>1, <3>1
  <2>2. CASE ~(turn[u].replica = r /\ UnderWay(u))
    <3>1. turn'[u] = turn[u]
      BY <1>1, <2>2
    <3> QED
      BY <1>1, <2>2, <3>1 DEF UnderWay
  <2> QED
    BY <2>1, <2>2
<1> QED
  BY <1>1, <1>2, <1>3, <1>4

\* A turn that has stored what it decided, or given it up, begins no more.
LEMMA StoredStays ==
  ASSUME TypeOK, [Next]_vars, NEW q \in Turn, turn[q].pc \in {"put", "done", "dead"}
  PROVE  turn'[q].pc \in {"put", "done", "dead"}
<1>1. ASSUME NEW t \in Turn, Load(t) \/ Decide(t) \/ Persist(t)
      PROVE  turn'[q].pc \in {"put", "done", "dead"}
  <2>1. CASE t = q
    BY <1>1, <2>1, LoadIs, DecideIs, PersistIs
  <2>2. CASE t # q
    BY <1>1, <2>2, OthersStay
  <2> QED
    BY <2>1, <2>2
<1>2. ASSUME NEW r \in Replica, Restart(r)
      PROVE  turn'[q].pc \in {"put", "done", "dead"}
  BY <1>2, RestartIs
<1> QED
  BY <1>1, <1>2, TurnSteps

\* What a write says of the question: the row's, the one the turn has asked or the one it loaded.
LEMMA WriteAsks ==
  ASSUME ChatInv, Questions, NEW t \in Turn, WriteHits(t)
  PROVE  /\ session'.pending.asked \in
              {NoTurn, session.pending.asked, t, turn[t].loaded.pending.asked}
         /\ turn[t].clears => session'.pending = NoPending
<1>1. session'.pending = IF turn[t].clears THEN NoPending
                         ELSE MergePending(session.pending, turn[t].pending)
  BY WriteFacts DEF Merged
<1>2. turn[t].pending.asked \in {NoTurn, t, turn[t].loaded.pending.asked}
  BY DEF Questions, Trying, WriteHits
<1>3. turn[t].pending \in Pending
  BY DEF ChatInv, TypeOK, TurnRecord
<1> QED
  BY <1>1, <1>2, <1>3 DEF MergePending, NoPending, Pending

\* The row asks what was asked before.
LEMMA RowAsks ==
  ASSUME ChatInv, Questions, [Next]_vars
  PROVE  session'.pending.asked # NoTurn =>
           turn'[session'.pending.asked].pc \in {"put", "done", "dead"}
<1> DEFINE Stored(q) == q # NoTurn => turn'[q].pc \in {"put", "done", "dead"}
<1>1. TypeOK /\ TypeOK'
  BY TypeStep DEF ChatInv
<1>2. ASSUME NEW q \in Turn \cup {NoTurn}, AskedBefore(q)
      PROVE  Stored(q)
  BY <1>1, <1>2, StoredStays DEF AskedBefore
<1>3. ASSUME NEW c \in Copies \cup {session}
      PROVE  Stored(c.pending.asked)
  <2>1. c \in Session
    BY <1>1 DEF Copies, TypeOK
  <2>2. c.pending.asked \in Turn \cup {NoTurn}
    BY <2>1 DEF Session, Pending
  <2> QED
    BY <1>2, <2>2 DEF Questions
<1>4. ASSUME NEW t \in Turn, WriteHits(t)
      PROVE  Stored(session'.pending.asked)
  <2>1. Stored(t)
    BY <1>1, <1>4 DEF WriteHits, TypeOK, TurnRecord, NewTurn
  <2>2. turn[t].loaded \in Copies
    BY <1>1, CopiesHeld
  <2> HIDE DEF Stored
  <2>3. Stored(NoTurn)
    BY DEF Stored
  <2> QED
    BY <1>3, <1>4, <2>1, <2>2, <2>3, WriteAsks
<1>5. ASSUME NEW t \in Turn, Deliver(t)
      PROVE  Stored(session'.pending.asked)
  <2>1. delivery.copy \in Copies
    BY <1>1, CopiesHeld
  <2> HIDE DEF Stored
  <2> QED
    BY <1>3, <1>5, <2>1, DeliveryWrites
<1> HIDE DEF Stored
<1>6. Stored(session'.pending.asked)
  BY <1>1, <1>3, <1>4, <1>5, RowSteps
<1> QED
  BY <1>6 DEF Stored

\* Every step keeps questions and answers together.
LEMMA QuestionsStep ==
  ASSUME ChatInv, Questions, [Next]_vars
  PROVE  Questions'
<1> DEFINE Stored(q) == q # NoTurn => turn'[q].pc \in {"put", "done", "dead"}
<1>1. TypeOK /\ TypeOK'
  BY TypeStep DEF ChatInv
<1>2. ASSUME NEW q \in Turn \cup {NoTurn}, AskedBefore(q)
      PROVE  Stored(q)
  BY <1>1, <1>2, StoredStays DEF AskedBefore
<1>3. ASSUME NEW c \in Copies \cup {session}
      PROVE  Stored(c.pending.asked)
  <2>1. c \in Session
    BY <1>1 DEF Copies, TypeOK
  <2>2. c.pending.asked \in Turn \cup {NoTurn}
    BY <2>1 DEF Session, Pending
  <2> QED
    BY <1>2, <2>2 DEF Questions
<1>4. Stored(session'.pending.asked)
  BY RowAsks
<1> HIDE DEF Stored
<1>5. \A c \in Copies' \cup {session'} : Stored(c.pending.asked)
  BY <1>1, <1>3, <1>4, CopiesStep
<1> DEFINE Answer(t) ==
      /\ Stored(answered'[t])
      /\ turn'[t].pc \in {"new", "decide"} => answered'[t] = NoTurn
      /\ turn'[t].pc \in {"decide", "read", "write"} =>
           /\ turn'[t].pending.asked \in {NoTurn, t, turn'[t].loaded.pending.asked}
           /\ answered'[t] # NoTurn =>
                turn'[t].clears /\ answered'[t] = turn'[t].loaded.pending.asked
<1>6. ASSUME NEW t \in Turn
      PROVE  Answer(t)
  <2>1. /\ Stored(NoTurn) /\ Stored(answered[t])
        /\ Stored(turn[t].loaded.pending.asked)
    <3>1. answered[t] \in Turn \cup {NoTurn} /\ AskedBefore(answered[t])
      BY <1>1 DEF TypeOK, Questions
    <3>2. turn[t].loaded \in Copies
      BY <1>1, CopiesHeld
    <3> QED
      BY <1>2, <1>3, <3>1, <3>2 DEF Stored
  <2>2. ASSUME turn'[t] = turn[t], answered'[t] = answered[t]
        PROVE  Answer(t)
    BY <2>1, <2>2 DEF Questions, Trying
  <2>3. CASE Load(t)
    <3>1. answered' = answered
      BY <2>3 DEF Load
    <3> QED
      BY <1>1, <2>1, <2>3, <3>1, LoadIs DEF Questions
  <2>4. CASE Decide(t)
    BY <1>1, <2>1, <2>4, DecideIs DEF Questions
  <2>5. CASE Persist(t)
    BY <1>1, <2>1, <2>5, PersistIs DEF Questions, Trying
  <2>6. ASSUME NEW u \in Turn, u # t, Load(u) \/ Decide(u) \/ Persist(u)
        PROVE  Answer(t)
    <3>1. turn'[t] = turn[t] /\ answered'[t] = answered[t]
      BY <1>1, <2>6, OthersStay
    <3> QED
      BY <2>2, <3>1
  <2>7. ASSUME NEW r \in Replica, Restart(r)
        PROVE  Answer(t)
    <3>1. \/ turn'[t] = turn[t]
          \/ turn'[t].pc \in {"dead", "done"}
      BY <1>1, <2>7, RestartIs
    <3>2. answered' = answered
      BY <1>1, <2>7, RestartIs
    <3> QED
      BY <2>1, <2>2, <3>1, <3>2
  <2> HIDE DEF Answer
  <2> QED
    BY <1>1, <2>2, <2>3, <2>4, <2>5, <2>6, <2>7, TurnSteps
<1> QED
  BY <1>5, <1>6 DEF Questions, AskedBefore, Stored, Trying

-----------------------------------------------------------------------------
(* One answer to a question.                                               *)

\* Nothing has happened that AnsweredOnce excepts.
Quiet == session.conflicts = 0 /\ ~delivered.over /\ lost = {}

\* Then a copy of the current version has the question of the row, which no turn that persisted
\* has answered, and no two of them have answered the same.
Settled ==
  Quiet =>
    /\ \A c \in Copies : /\ c.version <= session.version
                         /\ c.version = session.version => c.pending = session.pending
    /\ \A t \in Turn : answered[t] # NoTurn /\ ~Trying(t) => session.pending.asked # answered[t]
    /\ \A t, u \in Turn :
         t # u /\ answered[t] # NoTurn /\ answered[t] = answered[u] => Trying(t) \/ Trying(u)

\* What is lost stays lost.
LEMMA LostGrows ==
  ASSUME TypeOK, [Next]_vars
  PROVE  lost \subseteq lost'
<1>1. ASSUME NEW t \in Turn, Load(t) \/ Decide(t)
      PROVE  lost' = lost
  BY <1>1, DecideIs DEF Load
<1>2. ASSUME NEW t \in Turn, Persist(t)
      PROVE  lost \subseteq lost'
  BY <1>2, PersistIs
<1> QED
  BY <1>1, <1>2, TurnSteps, RestartIs

\* What writing over a turn has done is not undone.
LEMMA OverStays ==
  ASSUME ChatInv, [Next]_vars, ~delivered'.over
  PROVE  ~delivered.over
<1>1. TypeOK
  BY DEF ChatInv
<1>2. ASSUME NEW t \in Turn, Load(t) \/ Decide(t)
      PROVE  delivered' = delivered
  BY <1>2 DEF Load, Decide, Respond, RespondAndClear, AskClarification, SubmitJob, RunWorkflow,
              TurnFails
<1>3. ASSUME NEW t \in Turn, Persist(t)
      PROVE  delivered' = delivered
  BY <1>1, <1>3, PersistIs
<1>4. ASSUME NEW t \in Turn, ReadSession(t)
      PROVE  delivered'.over = delivered.over
  BY <1>1, <1>4 DEF ReadSession, TypeOK
<1>5. ASSUME NEW t \in Turn, Deliver(t)
      PROVE  ~delivered.over
  BY <1>5, DeliveryWrites
<1>6. ASSUME NEW r \in Replica, Restart(r)
      PROVE  delivered' = delivered
  BY <1>6 DEF Restart
<1>7. CASE UNCHANGED vars
  BY <1>7 DEF vars
<1> QED
  BY <1>2, <1>3, <1>4, <1>5, <1>6, <1>7 DEF Next

\* What an update makes of the count of conflicts.
LEMMA WriteCounts ==
  ASSUME ChatInv, NEW t \in Turn, WriteHits(t)
  PROVE  /\ session.conflicts \in Nat /\ session'.conflicts \in Nat
         /\ session.version \in Nat /\ turn[t].loaded.version \in Nat
         /\ session'.conflicts = session.conflicts \/ session'.conflicts = session.conflicts + 1
         /\ session'.conflicts # session.conflicts =>
              session.version > turn[t].loaded.version
         /\ session'.conflicts = session.conflicts =>
              session.version <= turn[t].loaded.version
<1>1. /\ session \in Session /\ turn[t].latest = session /\ session' = Merged(turn[t])
      /\ session' \in Session /\ turn[t].loaded \in Session
  BY WriteFacts DEF ChatInv, TypeOK, TurnRecord
<1>2. session'.conflicts = session.conflicts
                           + (IF session.version > turn[t].loaded.version THEN 1 ELSE 0)
  BY <1>1 DEF Merged, Conflicts
<1> QED
  BY <1>1, <1>2 DEF Session

\* In a quiet step a turn writes over the row it has loaded, and a delivery changes nothing
\* that matters.
LEMMA QuietStep ==
  ASSUME ChatInv, Settled, [Next]_vars, Quiet'
  PROVE  /\ Quiet
         /\ \/ session'.version = session.version /\ session'.pending = session.pending
            \/ \E t \in Turn : /\ WriteHits(t)
                               /\ session'.version > session.version
                               /\ turn[t].loaded.pending = session.pending
<1>1. TypeOK /\ lost = {} /\ ~delivered.over
  BY LostGrows, OverStays DEF Quiet, ChatInv
<1>2. session'.conflicts = 0 /\ ~delivered'.over
  BY DEF Quiet
<1>3. CASE session' = session
  BY <1>1, <1>2, <1>3 DEF Quiet
<1>4. ASSUME NEW t \in Turn, Deliver(t)
      PROVE  Quiet /\ session'.version = session.version /\ session'.pending = session.pending
  BY <1>1, <1>2, <1>4, DeliveryWrites DEF Quiet
<1>5. ASSUME NEW t \in Turn, WriteHits(t)
      PROVE  Quiet /\ session'.version > session.version /\ turn[t].loaded.pending = session.pending
  <2>1. session.conflicts = 0 /\ session.version <= turn[t].loaded.version
    BY <1>2, <1>5, WriteCounts
  <2>2. Quiet
    BY <1>1, <2>1 DEF Quiet
  <2>3. turn[t].loaded \in Copies
    BY <1>1, CopiesHeld
  <2>4. turn[t].loaded.version <= session.version
    BY <2>2, <2>3 DEF Settled
  <2>5. turn[t].loaded.version = session.version
    BY <1>5, <2>1, <2>4, WriteCounts
  <2> QED
    BY <1>5, <2>2, <2>3, <2>5, WriteFacts DEF Settled
<1> QED
  BY <1>1, <1>3, <1>4, <1>5, RowSteps

\* A step is the update of one turn.
LEMMA OneUpdate ==
  ASSUME TypeOK, NEW t \in Turn, NEW u \in Turn, WriteHits(t), WriteHits(u)
  PROVE  t = u
<1>1. turn'[t].pc = "put" /\ turn[t].pc = "write"
  BY DEF WriteHits, TypeOK, TurnRecord, NewTurn
<1>2. u # t => turn'[t] = turn[t]
  BY DEF WriteHits, TypeOK
<1> QED
  BY <1>1, <1>2

\* In a quiet step a turn that keeps an answer stops trying only by its update.
LEMMA StopsByUpdate ==
  ASSUME ChatInv, Questions, [Next]_vars, lost' = {}, NEW t \in Turn,
         answered'[t] # NoTurn, ~(turn'[t].pc \in {"decide", "read", "write"})
  PROVE  /\ answered'[t] = answered[t]
         /\ ~Trying(t) \/ WriteHits(t)
<1>1. TypeOK
  BY DEF ChatInv
<1>2. turn[t].pc \in {"new", "decide"} => answered[t] = NoTurn
  BY DEF Questions
<1>3. CASE turn'[t] = turn[t] /\ answered'[t] = answered[t]
  BY <1>3 DEF Trying
<1>4. CASE Load(t) \/ Decide(t)
  <2>1. ~Load(t)
    BY <1>1, LoadIs
  <2> QED
    BY <1>1, <1>2, <1>4, <2>1, DecideIs
<1>5. CASE Persist(t)
  BY <1>1, <1>5, PersistIs DEF Trying
<1>6. ASSUME NEW u \in Turn, u # t, Load(u) \/ Decide(u) \/ Persist(u)
      PROVE  turn'[t] = turn[t] /\ answered'[t] = answered[t]
  BY <1>1, <1>6, OthersStay
<1>7. ASSUME NEW r \in Replica, Restart(r)
      PROVE  answered'[t] = answered[t] /\ ~Trying(t)
  <2>1. /\ answered' = answered
        /\ \/ turn'[t] = turn[t]
           \/ turn[t].pc \in {"read", "write"} => t \in lost'
    BY <1>1, <1>7, RestartIs
  <2> QED
    BY <1>2, <2>1 DEF Trying
<1> QED
  BY <1>1, <1>3, <1>4, <1>5, <1>6, <1>7, TurnSteps

\* Every step keeps the row and the answers apart.
LEMMA SettledStep ==
  ASSUME ChatInv, Questions, Settled, [Next]_vars, Quiet'
  PROVE  /\ \A c \in Copies' : /\ c.version <= session'.version
                               /\ c.version = session'.version => c.pending = session'.pending
         /\ \A t \in Turn : answered'[t] # NoTurn /\ ~Trying(t)' =>
              session'.pending.asked # answered'[t]
         /\ \A t, u \in Turn :
              t # u /\ answered'[t] # NoTurn /\ answered'[t] = answered'[u] =>
                Trying(t)' \/ Trying(u)'
<1>1. /\ TypeOK /\ TypeOK' /\ Quiet /\ lost' = {}
      /\ session \in Session /\ session' \in Session
  BY TypeStep, QuietStep DEF ChatInv, TypeOK, Quiet
<1>2. /\ session.version \in Nat /\ session'.version \in Nat
      /\ \A c \in Copies : c.version \in Nat
  BY <1>1 DEF Session, Copies
<1>3. ASSUME NEW c \in Copies \cup {session}
      PROVE  /\ c.version <= session'.version
             /\ c.version = session'.version => c.pending = session'.pending
  <2>1. /\ c.version <= session.version
        /\ c.version = session.version => c.pending = session.pending
    BY <1>1, <1>2 DEF Settled
  <2>2. \/ session'.version = session.version /\ session'.pending = session.pending
        \/ session'.version > session.version
    BY QuietStep
  <2> QED
    BY <1>2, <2>1, <2>2
<1>4. \A c \in Copies' : /\ c.version <= session'.version
                         /\ c.version = session'.version => c.pending = session'.pending
  BY <1>1, <1>2, <1>3, CopiesStep
<1>5. ASSUME NEW t \in Turn, answered'[t] # NoTurn, ~Trying(t)'
      PROVE  /\ answered'[t] = answered[t]
             /\ ~Trying(t) \/ WriteHits(t)
  BY <1>1, <1>5, StopsByUpdate DEF Trying
<1>6. ASSUME NEW t \in Turn, answered'[t] # NoTurn, ~Trying(t)'
      PROVE  session'.pending.asked # answered'[t]
  <2>1. CASE WriteHits(t)
    <3>1. turn[t].clears
      BY <1>5, <1>6, <2>1 DEF Questions, Trying, WriteHits
    <3> QED
      BY <1>6, <2>1, <3>1, WriteAsks DEF NoPending
  <2>2. CASE ~Trying(t)
    <3>1. session.pending.asked # answered[t] /\ AskedBefore(answered[t])
          /\ answered'[t] = answered[t]
      BY <1>1, <1>5, <1>6, <2>2 DEF Settled, Questions
    <3>2. ASSUME NEW u \in Turn, WriteHits(u), turn[u].loaded.pending = session.pending
          PROVE  session'.pending.asked # answered'[t]
      <4>1. session'.pending.asked \in {NoTurn, session.pending.asked, u}
        BY <3>2, WriteAsks
      <4>2. turn[u].pc = "write"
        BY <3>2 DEF WriteHits
      <4> QED
        BY <1>6, <3>1, <4>1, <4>2 DEF AskedBefore
    <3> QED
      BY <3>1, <3>2, QuietStep
  <2> QED
    BY <1>5, <1>6, <2>1, <2>2
<1>7. ASSUME NEW t \in Turn, NEW u \in Turn, t # u, WriteHits(t), ~Trying(u),
             answered[u] # NoTurn, answered[t] = answered[u]
      PROVE  FALSE
  <2>1. answered[t] = turn[t].loaded.pending.asked /\ turn[t].pc = "write"
    BY <1>7 DEF Questions, Trying, WriteHits
  <2>2. PICK w \in Turn : WriteHits(w) /\ turn[w].loaded.pending = session.pending
    <3>1. session'.version > session.version
      BY <1>7, WriteFacts
    <3> QED
      BY <1>2, <3>1, QuietStep
  <2>3. w = t
    BY <1>1, <1>7, <2>2, OneUpdate
  <2>4. session.pending.asked # answered[u]
    BY <1>1, <1>7 DEF Settled
  <2> QED
    BY <1>7, <2>1, <2>2, <2>3, <2>4
<1>8. ASSUME NEW t \in Turn, NEW u \in Turn, t # u, WriteHits(t), WriteHits(u)
      PROVE  FALSE
  BY <1>1, <1>8, OneUpdate
<1>9. ASSUME NEW t \in Turn, NEW u \in Turn, t # u, answered'[t] # NoTurn,
             answered'[t] = answered'[u], ~Trying(t)', ~Trying(u)'
      PROVE  FALSE
  <2>1. /\ answered'[t] = answered[t] /\ answered'[u] = answered[u]
        /\ ~Trying(t) \/ WriteHits(t)
        /\ ~Trying(u) \/ WriteHits(u)
    BY <1>5, <1>9
  <2>2. ~(~Trying(t) /\ ~Trying(u))
    BY <1>1, <1>9, <2>1 DEF Settled
  <2> QED
    BY <1>7, <1>8, <1>9, <2>1, <2>2
<1> QED
  BY <1>4, <1>6, <1>9

\* They hold at first,
LEMMA AnswersInit == Init => Questions /\ Settled
<1> SUFFICES ASSUME Init
             PROVE  Questions /\ Settled
  OBVIOUS
<1>1. \A t \in Turn : \E r \in Replica : turn[t] = NewTurn(r)
  BY DEF Init
<1>2. Copies \cup {session} = {NewSession}
  BY <1>1, NewTyped DEF Init, Copies, NewTurn, NoDelivery
<1>3. \A t \in Turn : answered[t] = NoTurn /\ turn[t].pc = "new"
  BY <1>1 DEF Init, NewTurn
<1>4. NewSession.pending.asked = NoTurn /\ NewSession.version = 1
  BY DEF NewSession, NoPending
<1>5. Questions
  BY <1>2, <1>3, <1>4 DEF Questions, AskedBefore, Trying
<1>6. session = NewSession
  BY <1>2
<1>7. \A c \in Copies : c = NewSession
  BY <1>2
<1>8. Settled
  BY <1>3, <1>4, <1>6, <1>7 DEF Settled
<1> QED
  BY <1>5, <1>8

\* Two turns never each start a job for the same question, for any number of turns and replicas,
\* unless the session shows a conflict, one of them did not get to persist, or a delivery wrote
\* over what a turn had persisted.
THEOREM OneAnswer == Spec => []AnsweredOnce
<1> DEFINE Inv == ChatInv /\ Questions /\ Settled
<1>1. Init => Inv
  BY InvInit, AnswersInit
<1>2. Inv /\ [Next]_vars => Inv'
  <2>1. Inv /\ [Next]_vars => Settled'
    BY SettledStep DEF Settled
  <2> QED
    BY <2>1, InvStep, QuestionsStep
<1>3. Inv => AnsweredOnce
  <2> SUFFICES ASSUME Inv, NEW t \in Turn, NEW u \in Turn, t # u, answered[t] # NoTurn,
                      answered[t] = answered[u]
               PROVE  \/ session.conflicts > 0 \/ delivered.over
                      \/ lost # {} \/ UnderWay(t) \/ UnderWay(u)
    BY DEF AnsweredOnce
  <2>1. session.conflicts \in Nat
    BY DEF ChatInv, TypeOK, Session
  <2>2. Quiet => Trying(t) \/ Trying(u)
    BY DEF Settled
  <2> QED
    BY <2>1, <2>2 DEF Quiet, Trying, UnderWay
<1> QED
  BY <1>1, <1>2, <1>3, PTL DEF Spec

-----------------------------------------------------------------------------
(* One replica and one turn at a time.                                     *)

\* What ConflictNeedsOverlap is about: one turn at a time, one replica, at most one delivery.
Serial == ~overlapped /\ (\A r, s \in served : r = s) /\ delivered.count <= 1

\* The row s is no version ahead of c, and at most the one delivery, which was at at.
Recent(c, s, at) ==
  /\ s.version <= c.version
  /\ s.updated <= c.updated + (IF at = 0 THEN 0 ELSE 1)

\* The replicas that have handled a turn; the row a delivery has read.
Served ==
  /\ IsFiniteSet(served)
  /\ \A r \in Replica : cache[r] # {} => r \in served
  /\ \A t \in Turn : UnderWay(t) => turn[t].replica \in served
  /\ delivery.job # NoTurn => /\ delivered.count > 0
                              /\ delivery.copy.version <= session.version

\* Nothing conflicts, no turn is given up, and what is cached, loaded or about to be cached is
\* recent.
Orderly ==
  /\ session.conflicts = 0 /\ delivery.copy.conflicts = 0
  /\ \A t \in lost : turn[t].pc = "dead"
  /\ \A t, u \in Turn : UnderWay(t) /\ UnderWay(u) => t = u
  /\ delivered.at > 0 => delivered.count = 1 /\ delivery.job = NoTurn
  /\ (\A t \in Turn : turn[t].pc # "put") =>
       \A r \in Replica : \A c \in cache[r] : Recent(c, session, delivered.at)
  /\ \A t \in Turn : Trying(t) => Recent(turn[t].loaded, session, delivered.at)
  /\ \A t \in Turn : turn[t].pc = "put" /\ turn[t].warm =>
       Recent(turn[t].latest, session, delivered.at)

InTurn == Serial => Orderly

\* The row is recent.
LEMMA RowRecent ==
  ASSUME NEW s \in Session, NEW at
  PROVE  Recent(s, s, at)
BY DEF Recent, Session

\* What the orchestrator's two steps do.
LEMMA ReadIs ==
  ASSUME TypeOK, NEW t \in Turn, ReadSession(t)
  PROVE  /\ delivery'.job = t /\ delivery'.copy = session
         /\ delivered'.count = delivered.count + 1 /\ delivered'.at = delivered.at
         /\ UNCHANGED <<session, cache, turn, lost, overlapped, served>>
BY DEF ReadSession, TypeOK, history

LEMMA DeliverIs ==
  ASSUME ChatInv, Served, NEW t \in Turn, Deliver(t)
  PROVE  /\ delivery.job # NoTurn /\ delivery'.job = NoTurn /\ delivery'.copy = NewSession
         /\ delivered'.count = delivered.count
         /\ session'.updated = session.updated + 1 /\ delivered'.at = session.updated + 1
         /\ session'.version <= session.version
         /\ session'.conflicts \in {session.conflicts, delivery.copy.conflicts}
         /\ UNCHANGED <<cache, turn, lost, overlapped, served>>
<1>1. /\ delivery.job = t /\ delivery' = [NoDelivery EXCEPT !.due = delivery.due \ {t}]
      /\ UNCHANGED <<cache, turn, lost, overlapped, served>>
  BY DEF Deliver, history
<1>2. delivered'.count = delivered.count
  BY DEF Deliver, ChatInv, TypeOK
<1>3. delivery.job # NoTurn /\ delivery'.job = NoTurn /\ delivery'.copy = NewSession
  BY <1>1, ChatSessionAssumption DEF NoDelivery
<1>4. session'.updated = session.updated + 1 /\ delivered'.at = session.updated + 1
  BY DeliverFacts DEF ChatInv
<1>5. session.version \in Nat /\ delivery.copy.version <= session.version
  BY <1>3 DEF Served, ChatInv, TypeOK, Session
<1> QED
  BY <1>1, <1>2, <1>3, <1>4, <1>5, DeliveryWrites

\* What a turn's loading and deciding leave alone.
LEMMA LoadLeaves ==
  ASSUME NEW t \in Turn, Load(t)
  PROVE  /\ UNCHANGED <<session, cache, delivery, lost, delivered>>
         /\ overlapped' = (overlapped \/ \E u \in Turn : UnderWay(u))
BY DEF Load

LEMMA DecideLeaves ==
  ASSUME NEW t \in Turn, Decide(t)
  PROVE  UNCHANGED delivered
BY DEF Decide, Respond, RespondAndClear, AskClarification, SubmitJob, RunWorkflow, TurnFails

\* Every step keeps the account of the replicas.
LEMMA ServedStep ==
  ASSUME ChatInv, Served, [Next]_vars
  PROVE  Served'
<1>1. TypeOK /\ TypeOK'
  BY TypeStep DEF ChatInv
<1>2. delivered.count \in Nat /\ delivered'.count \in Nat /\ bound.deliveries \in Nat
  BY <1>1, ChatSessionAssumption DEF TypeOK
<1>3. ASSUME NEW t \in Turn, Load(t)
      PROVE  Served'
  <2>1. IsFiniteSet(served')
    BY <1>1, <1>3, LoadIs, FS_AddElement DEF Served
  <2>2. /\ UNCHANGED <<session, cache, delivery, delivered>> /\ turn[t].replica \in served'
        /\ served \subseteq served' /\ turn'[t].replica = turn[t].replica
        /\ \A u \in Turn : u # t => turn'[u] = turn[u]
    BY <1>1, <1>3, LoadIs, LoadLeaves, OthersStay
  <2> QED
    BY <2>1, <2>2 DEF Served, UnderWay
<1>4. ASSUME NEW t \in Turn, Decide(t)
      PROVE  Served'
  <2>1. /\ UNCHANGED <<session, cache, delivered, served>>
        /\ delivery'.copy = delivery.copy /\ delivery'.job = delivery.job
        /\ UnderWay(t) /\ turn'[t].replica = turn[t].replica
        /\ \A u \in Turn : u # t => turn'[u] = turn[u]
    BY <1>1, <1>4, DecideIs, DecideLeaves, OthersStay DEF UnderWay
  <2> QED
    BY <2>1 DEF Served, UnderWay
<1>5. ASSUME NEW t \in Turn, Persist(t)
      PROVE  Served'
  <2>1. /\ UNCHANGED <<delivery, delivered, served>>
        /\ UnderWay(t) /\ turn'[t].replica = turn[t].replica
        /\ \A u \in Turn : u # t => turn'[u] = turn[u]
    BY <1>1, <1>5, PersistIs, OthersStay DEF UnderWay, WriteHits
  <2>2. \A r \in Replica : cache'[r] # {} => r \in served
    <3>1. CASE cache' = cache
      BY <3>1 DEF Served
    <3>2. CASE \E c : cache' = [cache EXCEPT ![turn[t].replica] = {c}]
      BY <1>1, <2>1, <3>2 DEF Served, TypeOK
    <3> QED
      BY <1>1, <1>5, <3>1, <3>2, PersistIs
  <2>3. session.version \in Nat /\ session'.version \in Nat /\ delivery.copy.version \in Nat
    BY <1>1 DEF TypeOK, Session
  <2>4. session' = session \/ session'.version > session.version
    BY <1>1, <1>5, PersistIs, WriteFacts
  <2>5. delivery'.job # NoTurn => /\ delivered'.count > 0
                                  /\ delivery'.copy.version <= session'.version
    BY <2>1, <2>3, <2>4 DEF Served
  <2> QED
    BY <2>1, <2>2, <2>5 DEF Served, UnderWay
<1>6. ASSUME NEW t \in Turn, ReadSession(t)
      PROVE  Served'
  <2>1. session.version \in Nat
    BY <1>1 DEF TypeOK, Session
  <2> QED
    BY <1>1, <1>2, <1>6, <2>1, ReadIs DEF Served, UnderWay
<1>7. ASSUME NEW t \in Turn, Deliver(t)
      PROVE  Served'
  BY <1>7, DeliverIs DEF Served, UnderWay
<1>8. ASSUME NEW r \in Replica, Restart(r)
      PROVE  Served'
  <2>1. \A u \in Turn : UnderWay(u)' => turn'[u] = turn[u]
    BY <1>1, <1>8, RestartIs DEF UnderWay
  <2>2. \A s \in Replica : cache'[s] # {} => cache[s] # {}
    BY <1>1, <1>8, RestartIs
  <2>3. /\ delivery'.job # NoTurn => delivery' = delivery
        /\ UNCHANGED <<served, session, delivered>>
    BY <1>1, <1>8, RestartIs
  <2> QED
    BY <2>1, <2>2, <2>3 DEF Served, UnderWay
<1>9. CASE UNCHANGED vars
  BY <1>9 DEF vars, history, Served, UnderWay
<1> QED
  BY <1>3, <1>4, <1>5, <1>6, <1>7, <1>8, <1>9 DEF Next

\* Turns that came one by one came one by one before.
LEMMA SerialBefore ==
  ASSUME ChatInv, Served, [Next]_vars, Serial'
  PROVE  Serial
<1>1. TypeOK /\ TypeOK'
  BY TypeStep DEF ChatInv
<1>2. delivered.count \in Nat /\ delivered'.count \in Nat
  BY <1>1, ChatSessionAssumption DEF TypeOK
<1>3. ASSUME ~overlapped' => ~overlapped, served \subseteq served',
             delivered.count <= delivered'.count
      PROVE  Serial
  BY <1>2, <1>3 DEF Serial
<1>4. ASSUME NEW t \in Turn, Load(t)
      PROVE  Serial
  <2>1. ~overlapped' => ~overlapped
    BY <1>4, LoadLeaves
  <2>2. served \subseteq served' /\ delivered' = delivered
    BY <1>1, <1>4, LoadIs, LoadLeaves
  <2> QED
    BY <1>2, <1>3, <2>1, <2>2
<1>5. ASSUME NEW t \in Turn, Decide(t)
      PROVE  Serial
  BY <1>1, <1>2, <1>3, <1>5, DecideIs, DecideLeaves
<1>6. ASSUME NEW t \in Turn, Persist(t)
      PROVE  Serial
  BY <1>1, <1>2, <1>3, <1>6, PersistIs
<1>7. ASSUME NEW t \in Turn, ReadSession(t)
      PROVE  Serial
  BY <1>1, <1>2, <1>3, <1>7, ReadIs
<1>8. ASSUME NEW t \in Turn, Deliver(t)
      PROVE  Serial
  BY <1>2, <1>3, <1>8, DeliverIs
<1>9. ASSUME NEW r \in Replica, Restart(r)
      PROVE  Serial
  BY <1>1, <1>2, <1>3, <1>9, RestartIs
<1>10. CASE UNCHANGED vars
  BY <1>10 DEF vars, history, Serial
<1> QED
  BY <1>4, <1>5, <1>6, <1>7, <1>8, <1>9, <1>10 DEF Next

\* A turn that is loaded alone loads what is recent,
LEMMA LoadOrderly ==
  ASSUME ChatInv, Served, Orderly, ~overlapped', NEW t \in Turn, Load(t)
  PROVE  Orderly'
<1>1. /\ TypeOK /\ session \in Session
  BY DEF ChatInv, TypeOK
<1>2. /\ UNCHANGED <<session, cache, delivery, lost, delivered>>
      /\ \A u \in Turn : ~UnderWay(u)
  BY LoadLeaves
<1>3. /\ turn'[t].pc = "decide" /\ turn[t].pc = "new"
      /\ \A u \in Turn : u # t => turn'[u] = turn[u]
  BY <1>1, LoadIs, OthersStay
<1>4. Recent(turn'[t].loaded, session, delivered.at)
  <2>1. turn[t].replica \in Replica
    BY <1>1 DEF TypeOK, TurnRecord
  <2>2. \A u \in Turn : turn[u].pc # "put"
    BY <1>2 DEF UnderWay
  <2>3. \A r \in Replica : \A c \in cache[r] : Recent(c, session, delivered.at)
    BY <2>2 DEF Orderly
  <2>4. Recent(session, session, delivered.at)
    BY <1>1, RowRecent
  <2> QED
    BY <1>1, <2>1, <2>3, <2>4, LoadIs
<1>5. \A u \in lost : turn'[u].pc = "dead"
  BY <1>1, <1>3 DEF Orderly, TypeOK
<1>6. \A u, v \in Turn : UnderWay(u)' /\ UnderWay(v)' => u = v
  BY <1>2, <1>3 DEF UnderWay
<1>7. \A r \in Replica : \A c \in cache[r] : Recent(c, session, delivered.at)
  BY <1>2 DEF Orderly, UnderWay
<1>8. \A u \in Turn : turn'[u].pc \in {"decide", "read", "write"} =>
        Recent(turn'[u].loaded, session, delivered.at)
  BY <1>3, <1>4 DEF Orderly, Trying
<1>9. \A u \in Turn : turn'[u].pc = "put" /\ turn'[u].warm =>
        Recent(turn'[u].latest, session, delivered.at)
  BY <1>3 DEF Orderly
<1> QED
  BY <1>2, <1>5, <1>6, <1>7, <1>8, <1>9 DEF Orderly, Trying

\* and keeps it while it decides;
LEMMA DecideOrderly ==
  ASSUME ChatInv, Orderly, NEW t \in Turn, Decide(t)
  PROVE  Orderly'
<1>1. TypeOK
  BY DEF ChatInv
<1>2. /\ UNCHANGED <<session, cache, lost, delivered>>
      /\ delivery'.copy = delivery.copy /\ delivery'.job = delivery.job
      /\ turn[t].pc = "decide"
      /\ turn'[t].pc = "done" \/ (turn'[t].pc = "read" /\ turn'[t].loaded = turn[t].loaded)
      /\ \A u \in Turn : u # t => turn'[u] = turn[u]
  BY <1>1, DecideIs, DecideLeaves, OthersStay
<1>3. \A u \in lost : turn'[u].pc = "dead"
  BY <1>1, <1>2 DEF Orderly, TypeOK
<1>4. \A u, v \in Turn : UnderWay(u)' /\ UnderWay(v)' => u = v
  BY <1>2 DEF UnderWay, Orderly
<1>5. (\A u \in Turn : turn'[u].pc # "put") =>
        \A r \in Replica : \A c \in cache[r] : Recent(c, session, delivered.at)
  BY <1>2 DEF Orderly
<1>6. \A u \in Turn : turn'[u].pc \in {"decide", "read", "write"} =>
        Recent(turn'[u].loaded, session, delivered.at)
  BY <1>2 DEF Orderly, Trying
<1>7. \A u \in Turn : turn'[u].pc = "put" /\ turn'[u].warm =>
        Recent(turn'[u].latest, session, delivered.at)
  BY <1>2 DEF Orderly
<1> QED
  BY <1>2, <1>3, <1>4, <1>5, <1>6, <1>7 DEF Orderly, Trying

\* its update finds the version it has loaded, it is not given up, since that takes two writes,
\* and what it caches is all that is cached.
LEMMA PersistOrderly ==
  ASSUME ChatInv, Served, Orderly, Serial, NEW t \in Turn, Persist(t)
  PROVE  Orderly'
<1>1. TypeOK /\ session \in Session /\ turn[t] \in TurnRecord
  BY DEF ChatInv, TypeOK
<1>2. /\ UNCHANGED <<delivery, delivered>> /\ UnderWay(t)
      /\ \A u \in Turn : u # t => turn'[u] = turn[u] /\ ~UnderWay(u)
  <2>1. UnderWay(t)
    BY <1>1, PersistIs DEF UnderWay, WriteHits
  <2> QED
    BY <1>1, <2>1, PersistIs, OthersStay DEF Orderly
<1>3. \A u, v \in Turn : UnderWay(u)' /\ UnderWay(v)' => u = v
  BY <1>2 DEF UnderWay
<1>4. turn'[t].pc \in {"read", "write", "put", "done"}
  BY <1>1, PersistIs
<1>5. CASE /\ turn[t].pc \in {"read", "write"} /\ turn'[t].pc \in {"read", "write"}
           /\ turn'[t].loaded = turn[t].loaded
           /\ UNCHANGED <<session, cache, lost>>
  <2>1. \A u \in lost : turn'[u].pc = "dead"
    BY <1>1, <1>2, <1>5 DEF Orderly, TypeOK
  <2>2. \A r \in Replica : \A c \in cache[r] : Recent(c, session, delivered.at)
    <3>1. \A u \in Turn : turn[u].pc # "put"
      BY <1>2, <1>5 DEF UnderWay
    <3> QED
      BY <3>1 DEF Orderly
  <2>3. \A u \in Turn : turn'[u].pc \in {"decide", "read", "write"} =>
          Recent(turn'[u].loaded, session, delivered.at)
    BY <1>2, <1>5 DEF Orderly, Trying
  <2>4. \A u \in Turn : turn'[u].pc = "put" /\ turn'[u].warm =>
          Recent(turn'[u].latest, session, delivered.at)
    BY <1>2, <1>5 DEF Orderly
  <2> QED
    BY <1>2, <1>3, <1>5, <2>1, <2>2, <2>3, <2>4 DEF Orderly, Trying
<1>6. CASE /\ WriteHits(t) /\ turn[t].pc = "write" /\ turn'[t].pc = "put"
           /\ turn'[t].warm => turn'[t].latest = session'
           /\ UNCHANGED <<cache, lost>>
  <2>1. Recent(turn[t].loaded, session, delivered.at)
    BY <1>6 DEF Orderly, Trying
  <2>2. session'.conflicts = 0
    BY <1>6, <2>1, WriteCounts DEF Orderly, Recent
  <2>3. \A u \in lost : turn'[u].pc = "dead"
    BY <1>1, <1>2, <1>6 DEF Orderly, TypeOK
  <2>4. Recent(session', session', delivered.at)
    BY <1>6, WriteFacts, RowRecent
  <2>5. \A u \in Turn : u # t => turn'[u].pc \notin {"decide", "read", "write", "put"}
    BY <1>2 DEF UnderWay
  <2> QED
    BY <1>2, <1>3, <1>6, <2>2, <2>3, <2>4, <2>5 DEF Orderly, Trying
<1>7. ASSUME turn[t].pc = "write", turn[t].misses = 2, session.updated # turn[t].expected
      PROVE  FALSE
  <2>1. turn[t].expected > turn[t].loaded.updated /\ turn[t].expected <= session.updated
    BY <1>7 DEF ChatInv, Attempts, Trying
  <2>2. session.updated <= turn[t].loaded.updated + 1
    <3>1. turn[t].loaded.updated \in Nat /\ session.updated \in Nat
      BY <1>1 DEF TurnRecord, Session
    <3> QED
      BY <1>7, <3>1 DEF Orderly, Trying, Recent
  <2> QED
    BY <1>1, <1>7, <2>1, <2>2 DEF TurnRecord, Session
<1>8. CASE /\ turn[t].pc = "put" /\ turn'[t].pc = "done"
           /\ cache' = [cache EXCEPT ![turn[t].replica] =
                          {IF turn[t].warm THEN turn[t].latest ELSE session}]
           /\ UNCHANGED <<session, lost>>
  <2>1. \A u \in lost : turn'[u].pc = "dead"
    BY <1>1, <1>2, <1>8 DEF Orderly, TypeOK
  <2>2. \A u \in Turn : turn'[u].pc \notin {"decide", "read", "write", "put"}
    BY <1>2, <1>8 DEF UnderWay
  <2>3. Recent(IF turn[t].warm THEN turn[t].latest ELSE session, session, delivered.at)
    BY <1>1, <1>8, RowRecent DEF Orderly
  <2>4. \A r \in Replica : r # turn[t].replica => cache[r] = {}
    BY <1>2 DEF Served, Serial
  <2>5. \A r \in Replica : \A c \in cache'[r] : Recent(c, session, delivered.at)
    BY <1>1, <1>8, <2>3, <2>4 DEF TypeOK
  <2> QED
    BY <1>2, <1>3, <1>8, <2>1, <2>2, <2>5 DEF Orderly, Trying
<1> QED
  BY <1>1, <1>5, <1>6, <1>7, <1>8, PersistIs

\* The one delivery writes the row once, by no version more.
LEMMA DeliveryOrderly ==
  ASSUME ChatInv, Served, Orderly, delivered'.count <= 1, NEW t \in Turn,
         ReadSession(t) \/ Deliver(t)
  PROVE  Orderly'
<1>1. TypeOK /\ session \in Session /\ delivered.at \in Nat /\ delivered.count \in Nat
  BY ChatSessionAssumption DEF ChatInv, TypeOK
<1>2. CASE ReadSession(t)
  <2>1. /\ delivered'.at = 0 /\ delivered.at = 0
    BY <1>1, <1>2, ReadIs DEF Orderly
  <2> QED
    BY <1>1, <1>2, <2>1, ReadIs DEF Orderly, UnderWay, Trying
<1>3. CASE Deliver(t)
  <2>1. /\ delivery.job # NoTurn /\ delivery'.job = NoTurn /\ delivery'.copy = NewSession
        /\ delivered'.count = delivered.count
        /\ session'.updated = session.updated + 1 /\ delivered'.at = session.updated + 1
        /\ session'.version <= session.version
        /\ session'.conflicts = 0
        /\ UNCHANGED <<cache, turn, lost, overlapped, served>>
    BY <1>3, DeliverIs DEF Orderly
  <2>2. delivered.at = 0 /\ delivered'.count = 1
    BY <1>1, <2>1 DEF Orderly, Served
  <2>3. session.version \in Nat /\ session'.version \in Nat /\ session.updated \in Nat
    BY <1>1, TypeStep DEF TypeOK, Session, Next
  <2>4. ASSUME NEW c \in Copies, Recent(c, session, delivered.at)
        PROVE  Recent(c, session', delivered'.at)
    <3>1. c.version \in Nat /\ c.updated \in Nat
      BY DEF Copies, Session
    <3>2. session.version <= c.version /\ session.updated <= c.updated
      BY <2>2, <2>3, <2>4, <3>1 DEF Recent
    <3> QED
      BY <2>1, <2>3, <3>1, <3>2 DEF Recent
  <2>5. (\A u \in Turn : turn[u].pc # "put") =>
          \A r \in Replica : \A c \in cache[r] : Recent(c, session', delivered'.at)
    BY <1>1, <2>4, CopiesHeld DEF Orderly
  <2>6. \A u \in Turn : Trying(u) => Recent(turn[u].loaded, session', delivered'.at)
    BY <1>1, <2>4, CopiesHeld DEF Orderly
  <2>7. \A u \in Turn : turn[u].pc = "put" /\ turn[u].warm =>
          Recent(turn[u].latest, session', delivered'.at)
    BY <1>1, <2>4, CopiesHeld DEF Orderly
  <2>8. delivery'.copy.conflicts = 0
    BY <2>1 DEF NewSession
  <2> QED
    BY <2>1, <2>2, <2>5, <2>6, <2>7, <2>8 DEF Orderly, UnderWay, Trying
<1> QED
  BY <1>2, <1>3

\* A process that dies leaves nothing cached.
LEMMA RestartOrderly ==
  ASSUME ChatInv, Served, Orderly, Serial, NEW r \in Replica, Restart(r)
  PROVE  Orderly'
<1>1. TypeOK
  BY DEF ChatInv
<1>2. UNCHANGED <<session, delivered>>
  BY <1>1, RestartIs
<1>3. /\ delivery'.copy.conflicts = 0
      /\ delivered.at > 0 => delivered.count = 1 /\ delivery'.job = NoTurn
  BY <1>1 DEF Restart, Orderly, NoDelivery, NewSession
<1>4. \A u \in lost' : turn'[u].pc = "dead"
  <2>1. \A u \in Turn : u \in lost' => turn'[u].pc = "dead"
    BY <1>1, RestartIs DEF Orderly
  <2>2. lost' \subseteq Turn
    BY <1>1 DEF Restart, TypeOK
  <2> QED
    BY <2>1, <2>2
<1>5. \A u \in Turn : UnderWay(u)' => turn'[u] = turn[u]
  BY <1>1, RestartIs DEF UnderWay
<1>6. \A u, v \in Turn : UnderWay(u)' /\ UnderWay(v)' => u = v
  BY <1>5 DEF UnderWay, Orderly
<1>7. ASSUME \A u \in Turn : turn'[u].pc # "put", NEW s \in Replica, NEW c \in cache'[s]
      PROVE  Recent(c, session, delivered.at)
  <2>1. s # r /\ c \in cache[s] /\ s \in served
    BY <1>1, <1>7, RestartIs DEF Served
  <2>2. ASSUME NEW u \in Turn, turn[u].pc = "put"
        PROVE  FALSE
    <3>1. turn[u].replica = r /\ UnderWay(u)
      BY <1>1, <1>7, <2>2, RestartIs
    <3> QED
      BY <2>1, <3>1 DEF Served, Serial
  <2> QED
    BY <2>1, <2>2 DEF Orderly
<1>8. \A u \in Turn : turn'[u].pc \in {"decide", "read", "write"} =>
        Recent(turn'[u].loaded, session, delivered.at)
  BY <1>5 DEF Orderly, Trying, UnderWay
<1>9. \A u \in Turn : turn'[u].pc = "put" /\ turn'[u].warm =>
        Recent(turn'[u].latest, session, delivered.at)
  BY <1>5 DEF Orderly, UnderWay
<1> QED
  BY <1>2, <1>3, <1>4, <1>6, <1>7, <1>8, <1>9 DEF Orderly, Trying

\* Every step keeps the order there is when turns come one by one.
LEMMA InTurnStep ==
  ASSUME ChatInv, Served, InTurn, [Next]_vars
  PROVE  InTurn'
<1> SUFFICES ASSUME Serial'
             PROVE  Orderly'
  BY DEF InTurn
<1>1. Serial /\ Orderly
  BY SerialBefore DEF InTurn
<1>2. ~overlapped' /\ delivered'.count <= 1
  BY DEF Serial
<1>3. CASE UNCHANGED vars
  BY <1>1, <1>3 DEF vars, history, Orderly, Trying, UnderWay
<1> QED
  BY <1>1, <1>2, <1>3, LoadOrderly, DecideOrderly, PersistOrderly, DeliveryOrderly, RestartOrderly
     DEF Next

\* The cache is sound for one replica: turns that come one by one and are handled by one process
\* never conflict, and are never given up unless two deliveries came between.
THEOREM OneReplicaIsSound == Spec => []ConflictNeedsOverlap
<1> DEFINE Inv == ChatInv /\ Served /\ InTurn
<1>1. Init => Inv
  <2> SUFFICES ASSUME Init
               PROVE  Served /\ InTurn
    BY InvInit
  <2>1. \A t \in Turn : \E r \in Replica : turn[t] = NewTurn(r)
    BY DEF Init
  <2>2. \A t \in Turn : turn[t].pc = "new"
    <3>1. \A r \in Replica : NewTurn(r).pc = "new"
      BY DEF NewTurn
    <3> QED
      BY <2>1, <3>1
  <2>3. /\ session.conflicts = 0 /\ delivery.copy.conflicts = 0 /\ delivery.job = NoTurn
        /\ delivered.at = 0 /\ lost = {} /\ \A r \in Replica : cache[r] = {}
    BY DEF Init, NewSession, NoDelivery
  <2>4. Served
    BY <2>2, <2>3, FS_EmptySet DEF Init, Served, UnderWay
  <2> QED
    BY <2>2, <2>3, <2>4 DEF InTurn, Orderly, Trying, UnderWay
<1>2. Inv /\ [Next]_vars => Inv'
  BY InvStep, ServedStep, InTurnStep
<1>3. Inv => ConflictNeedsOverlap
  <2> SUFFICES ASSUME Inv, ~overlapped, ~(Cardinality(served) > 1), ~(delivered.count > 1)
               PROVE  ~(session.conflicts > 0 \/ \E t \in lost : turn[t].pc # "dead")
    BY DEF ConflictNeedsOverlap
  <2>1. ASSUME NEW r \in served, NEW s \in served, r # s
        PROVE  FALSE
    <3>1. Cardinality({r, s}) = 2 /\ IsFiniteSet({r, s})
      <4>1. IsFiniteSet({s}) /\ Cardinality({s}) = 1
        BY FS_Singleton
      <4>2. {s} \cup {r} = {r, s} /\ r \notin {s}
        BY <2>1
      <4> QED
        BY <4>1, <4>2, FS_AddElement
    <3>2. IsFiniteSet(served) /\ {r, s} \subseteq served
      BY DEF Served
    <3>3. Cardinality({r, s}) <= Cardinality(served) /\ Cardinality(served) \in Nat
      BY <3>2, FS_Subset, FS_CardinalityType
    <3> QED
      BY <3>1, <3>3
  <2>2. delivered.count \in Nat /\ session.conflicts \in Nat
    BY ChatSessionAssumption DEF ChatInv, TypeOK, Session
  <2>3. Serial
    BY <2>1, <2>2 DEF Serial
  <2> QED
    BY <2>2, <2>3 DEF InTurn, Orderly
<1> QED
  BY <1>1, <1>2, <1>3, PTL DEF Spec
=============================================================================
