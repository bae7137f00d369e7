---------------------------- MODULE RunLockProofs ----------------------------
(***************************************************************************)
(* Theorems about RunLock, for any number of agents and any lease.  None   *)
(* of the invariants is inductive: what makes a write sound is what its    *)
(* request read and that nobody has written since (KnowsRow); what makes   *)
(* an overtaking write impossible before a lease has run out is that only  *)
(* the holder has then anything to write (InTime).                         *)
(***************************************************************************)
EXTENDS RunLock, TLAPS

\* A request that will write the row it has read.
Pending(a) == request[a].op \in {"update", "delete"}

\* What such a request read still stands while nobody has written.
KnowsRow ==
  \A a \in Agent :
    Pending(a) =>
      /\ request[a].op = "delete" => request[a].own
      /\ request[a].gone => request[a].changed /\ row.holder # a
      /\ ~request[a].changed => IF request[a].own THEN row.holder = a
                                ELSE row.holder # NoAgent /\ row.left = 0

\* Before any lease has run out only the holder has a request that writes the row.
InTime ==
  ~expired => /\ ~overtook
              /\ row.holder # NoAgent => row.left > 0
              /\ \A a \in Agent : Pending(a) => request[a].own /\ ~request[a].changed

LockInv == TypeOK /\ KnowsRow /\ RefusedWhileHeld /\ InTime

\* The types a written row and its expiry have.
LEMMA WriteTyped ==
  ASSUME TypeOK, NEW r \in [holder : Agent \cup {NoAgent}, left : 0..Ttl], Write(r)
  PROVE  /\ row' = r /\ row' \in [holder : Agent \cup {NoAgent}, left : 0..Ttl]
         /\ expired' \in BOOLEAN
         /\ ~expired' => ~expired /\ (r.holder # NoAgent => r.left > 0)
<1>1. /\ row' = r /\ expired' \in BOOLEAN
      /\ ~expired' => ~expired /\ (r.holder # NoAgent => r.left # 0)
  BY Zenon DEF Write, TypeOK
<1>2. r.left # 0 => r.left > 0
  BY RunLockAssumption
<1> QED
  BY <1>1, <1>2

\* An answered request is over, and the requests that have read the row are marked.
LEMMA AnswerMarks ==
  ASSUME TypeOK, NEW a \in Agent, NEW deleted \in BOOLEAN, Answer(a, deleted)
  PROVE  /\ request' \in [Agent -> Request]
         /\ ~Pending(a)'
         /\ \A b \in Agent \ {a} :
              /\ Pending(b)' <=> Pending(b)
              /\ ~Pending(b) => request'[b] = request[b]
              /\ Pending(b) => /\ request'[b].op = request[b].op
                               /\ request'[b].own = request[b].own
                               /\ request'[b].changed
                               /\ request'[b].gone = (request[b].gone \/ deleted)
<1>1. Ttl \in Nat
  BY RunLockAssumption
<1>2. NoRequest \in Request
  BY <1>1 DEF NoRequest, Request
<1> QED
  BY <1>2 DEF TypeOK, Answer, Pending, Request, NoRequest

LEMMA InitInv == Init => LockInv
<1> SUFFICES ASSUME Init PROVE LockInv
  OBVIOUS
<1>1. Ttl \in Nat /\ NoRequest \in Request /\ NoRequest.op = "none"
  BY RunLockAssumption DEF NoRequest, Request
<1>2. TypeOK
  <2>1. 0 \in 0..Ttl
    BY RunLockAssumption
  <2>2. row \in [holder : Agent \cup {NoAgent}, left : 0..Ttl]
    BY <2>1 DEF Init, NoRow
  <2> QED
    BY <1>1, <2>1, <2>2 DEF Init, TypeOK
<1>3. \A a \in Agent : ~Pending(a)
  BY <1>1 DEF Init, Pending
<1>4. RefusedWhileHeld
  BY RunLockAssumption DEF Init, RefusedWhileHeld, NoRow
<1>5. KnowsRow /\ InTime
  BY <1>3 DEF Init, KnowsRow, InTime, NoRow
<1> QED
  BY <1>2, <1>4, <1>5 DEF LockInv

\* Reading the row.
LEMMA AskInv ==
  ASSUME LockInv, NEW a \in Agent, AcquireReads(a) \/ ReleaseReads(a)
  PROVE  LockInv'
<1> USE DEF LockInv
<1>1. /\ UNCHANGED <<row, lease, expired, overtook>>
      /\ request' = [request EXCEPT ![a] = request'[a]] /\ request'[a] \in Request
      /\ ~request'[a].changed /\ ~request'[a].gone
      /\ request'[a].op = "delete" => request'[a].own
      /\ Pending(a)' => IF request'[a].own THEN row.holder = a
                        ELSE row.holder # NoAgent /\ row.left = 0
  <2>0. /\ NoRequest = [op |-> "none", left |-> 0, own |-> FALSE, changed |-> FALSE, gone |-> FALSE]
        /\ Ttl \in Nat /\ 0 \in 0..Ttl /\ Ttl \in 0..Ttl /\ DOMAIN request = Agent
    BY RunLockAssumption DEF TypeOK, NoRequest
  <2>1. CASE AcquireReads(a)
    <3> DEFINE q == [NoRequest EXCEPT !.op = IF row.holder = NoAgent THEN "insert" ELSE "update",
                                      !.left = Ttl, !.own = row.holder = a]
    <3>1. /\ UNCHANGED <<row, lease, expired, overtook>> /\ request' = [request EXCEPT ![a] = q]
          /\ row.holder \in {NoAgent, a} \/ row.left = 0
      BY <2>1 DEF AcquireReads, Asks
    <3>2. /\ q \in Request /\ ~q.changed /\ ~q.gone /\ q.op # "delete"
          /\ q.op = "update" => row.holder # NoAgent
          /\ q.own <=> row.holder = a
      BY <2>0 DEF Request
    <3> HIDE DEF q
    <3>3. request'[a] = q
      BY <2>0, <3>1
    <3> QED
      BY <3>1, <3>2, <3>3 DEF Pending
  <2>2. CASE ReleaseReads(a)
    <3> DEFINE q == [NoRequest EXCEPT !.op = "delete", !.own = TRUE]
    <3>1. /\ UNCHANGED <<row, lease, expired, overtook>> /\ request' = [request EXCEPT ![a] = q]
          /\ row.holder = a
      BY <2>2 DEF ReleaseReads, Releases
    <3>2. q \in Request /\ ~q.changed /\ ~q.gone /\ q.own
      BY <2>0 DEF Request
    <3> HIDE DEF q
    <3>3. request'[a] = q
      BY <2>0, <3>1
    <3> QED
      BY <3>1, <3>2, <3>3
  <2> QED
    BY <2>1, <2>2
<1>2. TypeOK' /\ RefusedWhileHeld'
  BY <1>1 DEF TypeOK, RefusedWhileHeld
<1>3. \A b \in Agent \ {a} : request'[b] = request[b]
  BY <1>1 DEF TypeOK
<1>4. KnowsRow'
  BY <1>1, <1>3 DEF KnowsRow, Pending
<1>5. InTime'
  BY <1>1, <1>3, RunLockAssumption DEF InTime, Pending, TypeOK
<1> QED
  BY <1>2, <1>4, <1>5

\* A first row.
LEMMA InsertInv ==
  ASSUME LockInv, NEW a \in Agent, InsertWrites(a)
  PROVE  LockInv'
<1> USE DEF LockInv
<1> DEFINE r == [holder |-> a, left |-> request[a].left]
<1>0. /\ a # NoAgent /\ r \in [holder : Agent \cup {NoAgent}, left : 0..Ttl]
      /\ r.holder = a /\ r.left = request[a].left /\ request[a].left \in 0..Ttl
  BY RunLockAssumption DEF TypeOK, Request
<1>1. /\ Write(r) /\ Answer(a, FALSE) /\ row.holder = NoAgent
      /\ lease' = [lease EXCEPT ![a] = request[a].left] /\ overtook' = overtook
  BY DEF InsertWrites, Grant
<1> HIDE DEF r
<1>2. /\ row' = r
      /\ ~expired' => ~expired /\ (r.holder # NoAgent => r.left > 0)
      /\ expired' \in BOOLEAN
  BY <1>0, <1>1, WriteTyped
<1>3. /\ request' \in [Agent -> Request]
      /\ ~Pending(a)'
      /\ \A b \in Agent \ {a} : /\ Pending(b)' <=> Pending(b)
                                /\ Pending(b) => /\ request'[b].op = request[b].op
                                                 /\ request'[b].own = request[b].own
                                                 /\ request'[b].changed
                                                 /\ request'[b].gone = request[b].gone
  BY <1>1, AnswerMarks DEF TypeOK, Request
<1>4. TypeOK'
  <2>1. lease' \in [Agent -> 0..Ttl]
    BY <1>0, <1>1 DEF TypeOK
  <2> QED
    BY <1>0, <1>1, <1>2, <1>3, <2>1 DEF TypeOK
<1>5. KnowsRow'
  <2>1. \A b \in Agent : Pending(b)' => Pending(b) /\ b # a
    BY <1>3
  <2> QED
    BY <1>0, <1>2, <1>3, <2>1 DEF KnowsRow
<1>6. RefusedWhileHeld'
  <2> SUFFICES ASSUME ~overtook, NEW b \in Agent
               PROVE  (IF row'.holder = b THEN row'.left ELSE 0) = lease'[b]
    BY <1>1 DEF RefusedWhileHeld
  <2>1. lease[b] = 0
    BY <1>1, RunLockAssumption DEF RefusedWhileHeld
  <2>2. lease'[b] = IF b = a THEN request[a].left ELSE lease[b]
    BY <1>1 DEF TypeOK
  <2> QED
    BY <1>0, <1>2, <2>1, <2>2
<1>7. ~expired => \A b \in Agent : ~Pending(b)
  BY <1>1, RunLockAssumption DEF InTime, KnowsRow
<1>8. InTime'
  <2>1. ~expired' => \A b \in Agent : ~Pending(b)'
    BY <1>2, <1>3, <1>7
  <2> QED
    BY <1>1, <1>2, <2>1 DEF InTime
<1> QED
  BY <1>4, <1>5, <1>6, <1>8

\* A request that wrote nothing.
LEMMA NothingWrittenInv ==
  ASSUME LockInv, NEW a \in Agent, InsertLoses(a) \/ RowIsGone(a)
  PROVE  LockInv'
<1> USE DEF LockInv
<1>1. /\ UNCHANGED <<row, expired, overtook>>
      /\ request' = [request EXCEPT ![a] = NoRequest]
      /\ lease' = lease \/ (lease' = [lease EXCEPT ![a] = 0] /\ row.holder # a)
  BY DEF InsertLoses, RowIsGone, KnowsRow, Pending, TypeOK
<1>2. NoRequest \in Request
  BY RunLockAssumption DEF NoRequest, Request
<1>3. TypeOK'
  BY <1>1, <1>2, RunLockAssumption DEF TypeOK
<1>4. request'[a].op = "none" /\ \A b \in Agent \ {a} : request'[b] = request[b]
  BY <1>1 DEF TypeOK, NoRequest
<1>5. KnowsRow'
  BY <1>1, <1>4 DEF KnowsRow, Pending
<1>6. RefusedWhileHeld'
  BY <1>1, RunLockAssumption DEF RefusedWhileHeld, TypeOK
<1>7. InTime'
  BY <1>1, <1>4 DEF InTime, Pending
<1> QED
  BY <1>3, <1>5, <1>6, <1>7

\* An update or a delete.
LEMMA WriteInv ==
  ASSUME LockInv, NEW a \in Agent, UpdateWrites(a) \/ DeleteWrites(a)
  PROVE  LockInv'
<1> USE DEF LockInv
<1> DEFINE taker == IF request[a].own THEN row.holder ELSE a
           r     == IF request[a].op = "update"
                    THEN [holder |-> taker, left |-> request[a].left] ELSE NoRow
           gone  == request[a].op = "delete"
<1>a. a # NoAgent /\ row.holder \in Agent \cup {NoAgent} /\ request[a].left \in 0..Ttl /\ Ttl \in Nat
  BY RunLockAssumption DEF TypeOK, Request
<1>0. r \in [holder : Agent \cup {NoAgent}, left : 0..Ttl] /\ gone \in BOOLEAN
  BY <1>a DEF NoRow
<1>1. /\ Pending(a) /\ ~request[a].gone /\ Write(r) /\ Answer(a, gone)
      /\ overtook' = (overtook \/ request[a].changed)
      /\ lease' = [lease EXCEPT ![a] = IF gone THEN 0
                                       ELSE IF taker = a THEN request[a].left ELSE @]
  BY DEF UpdateWrites, DeleteWrites, Pending
<1>2. /\ row' = r /\ expired' \in BOOLEAN
      /\ ~expired' => ~expired /\ (r.holder # NoAgent => r.left > 0)
  BY <1>0, <1>1, WriteTyped
<1>3. /\ request' \in [Agent -> Request]
      /\ ~Pending(a)'
      /\ \A b \in Agent \ {a} : /\ Pending(b)' <=> Pending(b)
                                /\ Pending(b) => /\ request'[b].op = request[b].op
                                                 /\ request'[b].own = request[b].own
                                                 /\ request'[b].changed
                                                 /\ request'[b].gone = (request[b].gone \/ gone)
  BY <1>0, <1>1, AnswerMarks
<1>4. TypeOK'
  <2>1. lease' \in [Agent -> 0..Ttl]
    BY <1>1, <1>a DEF TypeOK
  <2>2. request[a].changed \in BOOLEAN
    BY DEF TypeOK, Request
  <2> HIDE DEF r, gone, taker
  <2> QED
    BY <1>0, <1>1, <1>2, <1>3, <2>1, <2>2 DEF TypeOK
<1>5. r.holder \in {NoAgent, a, row.holder} /\ (gone => r.holder = NoAgent)
  BY DEF NoRow
<1>6. KnowsRow'
  BY <1>2, <1>3, <1>5, RunLockAssumption DEF KnowsRow
<1>7. ~request[a].changed => IF request[a].own THEN row.holder = a
                             ELSE row.holder # NoAgent /\ row.left = 0 /\ ~gone
  BY <1>1 DEF KnowsRow
<1>8. RefusedWhileHeld'
  <2> SUFFICES ASSUME ~overtook', NEW b \in Agent
               PROVE  (IF row'.holder = b THEN row'.left ELSE 0) = lease'[b]
    BY DEF RefusedWhileHeld
  <2>1. ~overtook /\ ~request[a].changed
    BY <1>1
  <2>2. (IF row.holder = b THEN row.left ELSE 0) = lease[b]
    BY <2>1 DEF RefusedWhileHeld
  <2>3. IF gone THEN r.holder = NoAgent ELSE r.holder = a /\ taker = a /\ r.left = request[a].left
    BY <1>1, <1>7, <2>1 DEF NoRow, Pending
  <2>4. b # a => lease[b] = 0
    BY <1>7, <2>1, <2>2
  <2>5. b \in DOMAIN lease /\ a \in DOMAIN lease
    BY DEF TypeOK
  <2> HIDE DEF r, gone, taker
  <2> QED
    BY <1>1, <1>2, <1>a, <2>3, <2>4, <2>5, RunLockAssumption
<1>9. ~expired => /\ ~request[a].changed /\ row.holder = a
                  /\ \A b \in Agent \ {a} : ~Pending(b)
  BY <1>1 DEF InTime, KnowsRow
<1>10. InTime'
  BY <1>1, <1>2, <1>3, <1>9 DEF InTime
<1> QED
  BY <1>4, <1>6, <1>8, <1>10

\* The passing of time.
LEMMA TickInv ==
  ASSUME LockInv, Tick
  PROVE  LockInv'
<1> USE DEF LockInv
<1>0. Ttl \in Nat /\ \A n \in 0..Ttl : Less(n) \in 0..Ttl /\ Less(0) = 0
  BY RunLockAssumption DEF Less
<1>1. row.left \in 0..Ttl /\ row \in [holder : Agent \cup {NoAgent}, left : 0..Ttl]
  BY DEF TypeOK
<1> DEFINE r == [row EXCEPT !.left = Less(@)]
<1>2. /\ r \in [holder : Agent \cup {NoAgent}, left : 0..Ttl] /\ Write(r) /\ overtook' = overtook
      /\ r.holder = row.holder /\ r.left = Less(row.left)
      /\ lease' = [a \in Agent |-> Less(lease[a])]
      /\ request' = [a \in Agent |-> [request[a] EXCEPT !.left = Less(@)]]
  BY <1>0, <1>1 DEF Tick
<1> HIDE DEF r
<1>3. /\ row' = r /\ expired' \in BOOLEAN
      /\ ~expired' => ~expired /\ (r.holder # NoAgent => r.left > 0)
  BY <1>2, WriteTyped
<1>4. \A a \in Agent :
        /\ request'[a] \in Request
        /\ request'[a].op = request[a].op /\ request'[a].own = request[a].own
        /\ request'[a].changed = request[a].changed /\ request'[a].gone = request[a].gone
  BY <1>0, <1>2 DEF TypeOK, Request
<1>5. TypeOK'
  BY <1>0, <1>2, <1>3, <1>4 DEF TypeOK
<1>6. KnowsRow'
  BY <1>0, <1>2, <1>3, <1>4 DEF KnowsRow, Pending
<1>7. RefusedWhileHeld'
  BY <1>0, <1>2, <1>3 DEF RefusedWhileHeld, TypeOK
<1>8. InTime'
  BY <1>2, <1>3, <1>4 DEF InTime, Pending
<1> QED
  BY <1>5, <1>6, <1>7, <1>8

\* The invariant holds in every behaviour.
LEMMA InvHolds == Spec => []LockInv
<1>1. LockInv /\ [Next]_vars => LockInv'
  <2> SUFFICES ASSUME LockInv, [Next]_vars PROVE LockInv'
    OBVIOUS
  <2>1. CASE UNCHANGED vars
    BY <2>1 DEF vars, LockInv, TypeOK, KnowsRow, RefusedWhileHeld, InTime, Pending
  <2> QED
    BY <2>1, AskInv, InsertInv, NothingWrittenInv, WriteInv, TickInv DEF Next
<1> QED
  BY <1>1, InitInv, PTL DEF Spec

\* The lock is refused to others for exactly as long as an agent holds a lease of it, unless a
\* request has written a row that changed since it read it.
THEOREM BlocksWhileHeld == Spec => []RefusedWhileHeld
<1>1. LockInv => RefusedWhileHeld
  BY DEF LockInv
<1> QED
  BY <1>1, InvHolds, PTL

\* At most one agent holds an unexpired lease, with the same exception, for any number of
\* agents and concurrent requests.
THEOREM Exclusive == Spec => []LockIsExclusive
<1>1. LockInv => LockIsExclusive
  <2> SUFFICES ASSUME LockInv, ~overtook, NEW a \in Agent, NEW b \in Agent,
                      lease[a] > 0, lease[b] > 0
               PROVE  a = b
    BY DEF LockIsExclusive
  <2>1. \A c \in Agent : lease[c] > 0 => row.holder = c
    BY DEF LockInv, RefusedWhileHeld, TypeOK
  <2> QED
    BY <2>1
<1> QED
  BY <1>1, InvHolds, PTL

\* The exception cannot occur before some lease has run out.
THEOREM NoRaceInTime == Spec => []RaceNeedsExpiry
<1>1. LockInv => RaceNeedsExpiry
  BY DEF LockInv, InTime, RaceNeedsExpiry
<1> QED
  BY <1>1, InvHolds, PTL

\* Every variable keeps its type.
THEOREM LockTypeCorrect == Spec => []TypeOK
<1>1. LockInv => TypeOK
  BY DEF LockInv
<1> QED
  BY <1>1, InvHolds, PTL
=============================================================================
