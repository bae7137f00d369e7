----------------------------- MODULE AtLeastOnce -----------------------------
(***************************************************************************)
(* What the API promises of an event it has accepted to emit: it is put on *)
(* its stream one or more times, and it is settled (no longer looked       *)
(* after) only once it is there.                                           *)
(***************************************************************************)
CONSTANT Event

VARIABLES
  promised,    \* events that will be delivered
  delivered,   \* events that have been delivered at least once
  settled      \* events somebody has stopped looking after

vars == <<promised, delivered, settled>>

Init == promised = {} /\ delivered = {} /\ settled = {}

Promise(e) ==
  /\ promised' = promised \cup {e}
  /\ UNCHANGED <<delivered, settled>>

\* A delivery; it may be of an event not promised before, or delivered already.
Deliver(e) ==
  /\ promised' = promised \cup {e}
  /\ delivered' = delivered \cup {e}
  /\ UNCHANGED settled

\* Only events that were delivered are settled.
Settle ==
  /\ settled' \in SUBSET (settled \cup delivered)
  /\ settled \subseteq settled'
  /\ UNCHANGED <<promised, delivered>>

Next ==
  \/ \E e \in Event : Promise(e) \/ Deliver(e)
  \/ Settle

Spec == Init /\ [][Next]_vars

\* What is promised is delivered.
FairSpec == Spec /\ \A e \in Event : WF_vars(e \in promised /\ Deliver(e))
=============================================================================
