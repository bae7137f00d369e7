------------------------------- MODULE RunLock -------------------------------
(***************************************************************************)
(* One named lock of a run (run_context_service.acquire_lock and           *)
(* release_lock): a database row with a holder and an expiry, and the      *)
(* agents that ask for it over HTTP.  A request reads the row in one step  *)
(* and writes it, by primary key and without a condition, in another;      *)
(* requests of different agents interleave.  Only the insert of a first    *)
(* row is guarded, by the unique constraint on (run_id, resource).         *)
(*                                                                         *)
(* Time is counted in ticks.  Expiries are kept as the ticks left, so that *)
(* no clock grows without bound.                                           *)
(***************************************************************************)
EXTENDS Naturals

CONSTANTS
  Agent,    \* the agents that may ask for the lock
  NoAgent,  \* the holder of no row
  Ttl       \* the lease of a grant (ttl_seconds), in ticks

ASSUME RunLockAssumption ==
  /\ NoAgent \notin Agent
  /\ Ttl \in Nat \ {0}

VARIABLES
  row,      \* AgentLockRecord: holder_agent_id (NoAgent: no row) and the ticks to expires_at
  request,  \* per agent, the request between its reading and its writing
  lease,    \* per agent, the ticks left of the last lock it was granted and has not released
  expired,  \* history: a row has stood with its lease run out
  overtook  \* history: a request wrote a row that had changed since it read it

vars == <<row, request, lease, expired, overtook>>

NoRow == [holder |-> NoAgent, left |-> 0]

\* op: what will be written; left: the ticks left of the lease asked for; own: whether the
\* row read was the agent's; changed: whether that row has been written since; gone: deleted.
NoRequest == [op |-> "none", left |-> 0, own |-> FALSE, changed |-> FALSE, gone |-> FALSE]

Init ==
  /\ row = NoRow
  /\ request = [a \in Agent |-> NoRequest]
  /\ lease = [a \in Agent |-> 0]
  /\ expired = FALSE
  /\ overtook = FALSE

\* The row becomes r.
Write(r) ==
  /\ row' = r
  /\ expired' = (expired \/ (r.holder # NoAgent /\ r.left = 0))

-----------------------------------------------------------------------------
Asks(a) ==
  /\ request' = [request EXCEPT ![a] =
       [NoRequest EXCEPT !.op = IF row.holder = NoAgent THEN "insert" ELSE "update",
                         !.left = Ttl, !.own = row.holder = a]]
  /\ UNCHANGED <<row, lease, expired, overtook>>

\* Mutant of AcquireReads: the expiry of another agent's lock is not looked at.
AcquireReadsAnyRow(a) == request[a].op = "none" /\ Asks(a)

\* acquire_lock up to its write: refused when another agent holds a lease that has not
\* expired; otherwise an insert, or an update of a row that is the agent's or has expired.
AcquireReads(a) ==
  /\ request[a].op = "none"
  /\ row.holder \in {NoAgent, a} \/ row.left = 0
  /\ Asks(a)

Releases(a) ==
  /\ request' = [request EXCEPT ![a] = [NoRequest EXCEPT !.op = "delete", !.own = TRUE]]
  /\ UNCHANGED <<row, lease, expired, overtook>>

\* Mutant of ReleaseReads: any agent may release the lock.
ReleaseReadsAnyRow(a) == request[a].op = "none" /\ row.holder # NoAgent /\ Releases(a)

\* release_lock up to its delete: the row must be the agent's.
ReleaseReads(a) ==
  /\ request[a].op = "none"
  /\ row.holder = a
  /\ Releases(a)

\* The request of a has written the row and is over; who has read the row learns nothing of it.
Answer(a, deleted) ==
  request' = [b \in Agent |->
    IF b = a THEN NoRequest
    ELSE IF request[b].op \in {"update", "delete"}
         THEN [request[b] EXCEPT !.changed = TRUE, !.gone = @ \/ deleted]
         ELSE request[b]]

\* The lock is a's.
Grant(a) ==
  /\ Write([holder |-> a, left |-> request[a].left])
  /\ lease' = [lease EXCEPT ![a] = request[a].left]
  /\ Answer(a, FALSE)
  /\ UNCHANGED overtook

\* The first row.
InsertWrites(a) ==
  /\ request[a].op = "insert"
  /\ row.holder = NoAgent
  /\ Grant(a)

\* Mutant of InsertLoses: the loser of the race takes the row over.
InsertOverwrites(a) == request[a].op = "insert" /\ row.holder # NoAgent /\ Grant(a)

\* The unique constraint refuses a second insert: IntegrityError, rollback, None.
InsertLoses(a) ==
  /\ request[a].op = "insert"
  /\ row.holder # NoAgent
  /\ request' = [request EXCEPT ![a] = NoRequest]
  /\ UNCHANGED <<row, lease, expired, overtook>>

\* UPDATE by primary key.  Only changed columns are written: an agent that read its own row
\* writes the expiry, not the holder.  The lock returned is the row read back.
UpdateWrites(a) ==
  /\ request[a].op = "update"
  /\ ~request[a].gone
  /\ LET holder == IF request[a].own THEN row.holder ELSE a
     IN  /\ Write([holder |-> holder, left |-> request[a].left])
         /\ lease' = [lease EXCEPT ![a] = IF holder = a THEN request[a].left ELSE @]
  /\ overtook' = (overtook \/ request[a].changed)
  /\ Answer(a, FALSE)

\* Mutant of DeleteWrites: the row is marked as expired and kept.
DeleteKeepsRow(a) ==
  /\ request[a].op = "delete"
  /\ ~request[a].gone
  /\ lease' = [lease EXCEPT ![a] = 0]
  /\ overtook' = (overtook \/ request[a].changed)
  /\ Answer(a, TRUE)
  /\ UNCHANGED <<row, expired>>

\* DELETE by primary key, whoever holds the row by now.
DeleteWrites(a) ==
  /\ request[a].op = "delete"
  /\ ~request[a].gone
  /\ Write(NoRow)
  /\ lease' = [lease EXCEPT ![a] = 0]
  /\ overtook' = (overtook \/ request[a].changed)
  /\ Answer(a, TRUE)

\* The row is gone: the update raises (StaleDataError), the delete only warns and answers True.
RowIsGone(a) ==
  /\ request[a].op \in {"update", "delete"}
  /\ request[a].gone
  /\ lease' = [lease EXCEPT ![a] = IF request[a].op = "delete" THEN 0 ELSE @]
  /\ request' = [request EXCEPT ![a] = NoRequest]
  /\ UNCHANGED <<row, expired, overtook>>

\* Mutant of Less: time does not end at the expiry.
LessForever(n) == IF n = 0 THEN Ttl + 1 ELSE n - 1

\* One tick less.
Less(n) == IF n = 0 THEN 0 ELSE n - 1

\* Time passes for the expiry of the row, of the requests under way and of the leases.
Tick ==
  /\ Write([row EXCEPT !.left = Less(@)])
  /\ request' = [a \in Agent |-> [request[a] EXCEPT !.left = Less(@)]]
  /\ lease' = [a \in Agent |-> Less(lease[a])]
  /\ UNCHANGED overtook

Next ==
  \/ \E a \in Agent : \/ AcquireReads(a) \/ ReleaseReads(a)
                      \/ InsertWrites(a) \/ InsertLoses(a)
                      \/ UpdateWrites(a) \/ DeleteWrites(a) \/ RowIsGone(a)
  \/ Tick

Spec == Init /\ [][Next]_vars

-----------------------------------------------------------------------------
(* Properties.                                                             *)

Request == [op : {"none", "insert", "update", "delete"}, left : 0..Ttl,
            own : BOOLEAN, changed : BOOLEAN, gone : BOOLEAN]

\* Every variable holds values of its type.
TypeOK ==
  /\ row \in [holder : Agent \cup {NoAgent}, left : 0..Ttl]
  /\ request \in [Agent -> Request]
  /\ lease \in [Agent -> 0..Ttl]
  /\ expired \in BOOLEAN
  /\ overtook \in BOOLEAN

\* Two agents never hold unexpired leases of the lock at once, whatever first requests,
\* refreshes, steals and releases race each other, except after a request has written a row
\* that changed between its reading and its writing (acquire_lock and release_lock write by
\* primary key alone, run_context_service.py:672 and :737).
LockIsExclusive ==
  overtook \/ \A a, b \in Agent : lease[a] > 0 /\ lease[b] > 0 => a = b

\* With the same exception, the lock is refused to others for exactly as long as an agent
\* holds a lease of it: a released or lost lock blocks nobody, a granted one blocks everybody
\* (the test of expires_at, run_context_service.py:668).
RefusedWhileHeld ==
  overtook \/ \A a \in Agent : (IF row.holder = a THEN row.left ELSE 0) = lease[a]

\* Agents that refresh or release in time never meet that exception: a request overwrites
\* what it has not read only after some lease has run out.
RaceNeedsExpiry == overtook => expired
=============================================================================
