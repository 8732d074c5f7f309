------------------------------ MODULE Delivery ------------------------------
(***************************************************************************)
(* What the outbox promises of each of its rows, whatever the pollers, the *)
(* requests and the backoff do: it is delivered at least once or given up. *)
(* A row is sent only after its peer handled the event, and one given up   *)
(* is never taken up again.  A row that is sent stays so until it is       *)
(* purged, with one exception: the write that said so took effect, but its *)
(* answer was a failure.  Such a row may yet be recanted, and every one of *)
(* them costs a failure.                                                   *)
(***************************************************************************)
EXTENDS Naturals

CONSTANT Events

VARIABLES
  status,   \* of the row: OutboxEventStatus, or "none" and "purged"
  handled,  \* the events their peer has handled
  unsure,   \* the rows that are sent though writing that failed
  faults    \* the crashes and the writes that failed

vars == <<status, handled, unsure, faults>>

Init ==
  /\ status = [e \in Events |-> "none"]
  /\ handled = {}
  /\ unsure = {}
  /\ faults = 0

GoTo(e, from, to) ==
  /\ status[e] = from
  /\ status' = [status EXCEPT ![e] = to]
  /\ UNCHANGED handled

Sure == UNCHANGED <<unsure, faults>>

\* A request outlives its row: it may be handled when that was given up.
Handle(e) ==
  /\ status[e] # "none"
  /\ handled' = handled \union {e}
  /\ UNCHANGED status
  /\ Sure

Insert(e) == GoTo(e, "none", "pending") /\ Sure
Sent(e)   == e \in handled /\ GoTo(e, "pending", "sent") /\ Sure
GiveUp(e) == GoTo(e, "pending", "failed") /\ Sure
Purge(e)  == e \notin unsure /\ GoTo(e, "sent", "purged") /\ Sure

\* The write failed and took effect all the same ...
SentUnsure(e) ==
  /\ e \in handled
  /\ GoTo(e, "pending", "sent")
  /\ unsure' = unsure \union {e}
  /\ faults' = faults + 1

\* ... so the delivery is taken for a failed one.
Recant(e) ==
  /\ e \in unsure
  /\ \E to \in {"pending", "failed"} : GoTo(e, "sent", to)
  /\ unsure' = unsure \ {e}
  /\ UNCHANGED faults

\* A crash or a failed write without effect, after which a row that was sent
\* may be safe: who would have recanted it is gone.
Fail ==
  /\ faults' = faults + 1
  /\ unsure' \in SUBSET unsure
  /\ UNCHANGED <<status, handled>>

Next ==
  \/ \E e \in Events :
       \/ Insert(e) \/ Handle(e) \/ Sent(e) \/ GiveUp(e) \/ Purge(e)
       \/ SentUnsure(e) \/ Recant(e)
  \/ Fail

Spec == Init /\ [][Next]_vars
=============================================================================
