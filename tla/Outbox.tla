------------------------------- MODULE Outbox -------------------------------
(***************************************************************************)
(* The transactional outbox of the orders service: rows inserted with the  *)
(* change they tell of, drained by the poller of each replica, handled by  *)
(* the peers (audit and inventory) and purged once sent.                   *)
(*                                                                         *)
(* A tick works on copies of the rows it read.  Requests and answers are   *)
(* lost or late, so a peer may handle a request nobody waits for any more. *)
(* Time counts in units of backoffBaseMs.                                  *)
(***************************************************************************)
EXTENDS Naturals, FiniteSets

CONSTANTS
  Events,        \* rows of outbox_events, named by their rank in createdAt
  Destinations,  \* the peers the rows may be for, "none" if not routable
  Pollers,       \* replicas of the orders service
  BatchSize,     \* OUTBOX_BATCH_SIZE
  MaxAttempts,   \* OUTBOX_MAX_ATTEMPTS
  MaxBackoff,    \* OUTBOX_BACKOFF_MAX_MS
  Healthy,       \* peers that answer every request in time
  MaxFaults      \* bound on the ticks cut short and the answers not saved

Peers == {"audit", "inventory"}

\* parseIntEnv and the defaults make every setting a positive integer.
Setting == Nat \ {0}

ASSUME EventsAssumption      == Events \subseteq Nat
ASSUME DestinationAssumption == Destinations \subseteq [Events -> Peers \union {"none"}]
ASSUME HealthyAssumption     == Healthy \subseteq Peers
ASSUME BoundsAssumption      ==
  /\ BatchSize \in Setting /\ MaxAttempts \in Setting /\ MaxBackoff \in Setting
  /\ MaxFaults \in Nat

VARIABLES
  destination, \* of the row, from its eventType
  status,     \* of the row: OutboxEventStatus, or "none" and "purged"
  attempts,   \* of the row
  wait,       \* time left to nextAttemptAt
  tick,       \* what the poller of each replica is doing
  net,        \* requests on their way to a peer
  handled,    \* the events that have taken effect at their peer
  faults

rowVars == <<destination, status, attempts, wait>>
vars    == <<destination, status, attempts, wait, tick, net, handled, faults>>

Statuses == {"none", "pending", "sent", "failed", "purged"}

\* A tick holds the rows still to do as it read them, the destinations that
\* failed in it and, while it delivers a row, that row with its attempts.
Idle    == [step |-> "idle"]
Copies  == [event : Events, attempts : Nat]
Reading == [step : {"next"}, batch : SUBSET Copies, failed : SUBSET Peers]
Delivering ==
  [step : {"send", "acked", "error"}, batch : SUBSET Copies,
   failed : SUBSET Peers, event : Events, attempts : Nat]

Requests == [poller : Pollers, event : Events, attempt : Nat]

At(p, step) == tick[p].step = step

RequestOf(p) ==
  [poller |-> p, event |-> tick[p].event, attempt |-> tick[p].attempts]

Awaited(r) == At(r.poller, "send") /\ RequestOf(r.poller) = r

\* Mutant: the backoff doubles for ever.
BackoffUncapped(n) == 2 ^ (n - 1)
\* calculateBackoffMs, for the attempts it is called with: 1 and more.
Backoff(n) == IF 2 ^ (n - 1) <= MaxBackoff THEN 2 ^ (n - 1) ELSE MaxBackoff

Init ==
  /\ destination \in Destinations
  /\ status = [e \in Events |-> "none"]
  /\ attempts = [e \in Events |-> 0]
  /\ wait = [e \in Events |-> 0]
  /\ tick = [p \in Pollers |-> Idle]
  /\ net = {}
  /\ handled = {}
  /\ faults = 0

\* insertWithin, when the transaction around it commits.
Insert(e) ==
  /\ status[e] = "none"
  /\ status' = [status EXCEPT ![e] = "pending"]
  /\ UNCHANGED <<destination, attempts, wait, tick, net, handled, faults>>

-----------------------------------------------------------------------------
(* A tick of a poller *)

\* Mutant: a row that used up its attempts is not claimed.
DueWithAttemptsLeft ==
  {e \in Events : status[e] = "pending" /\ wait[e] = 0 /\ attempts[e] < MaxAttempts}
\* Mutant: rows of any status are claimed.
DueInAnyStatus == {e \in Events : status[e] # "none" /\ wait[e] = 0}
Due == {e \in Events : status[e] = "pending" /\ wait[e] = 0}

\* claimDue: the oldest due rows, read without a lock.
Claim(p) ==
  /\ tick[p] = Idle
  /\ \E rows \in (SUBSET Due) \ {{}} :
       /\ Cardinality(rows) <= BatchSize
       /\ rows = Due \/ Cardinality(rows) = BatchSize
       /\ \A e \in rows, d \in Due \ rows : e < d
       /\ tick' = [tick EXCEPT ![p] =
                     [step |-> "next", failed |-> {},
                      batch |-> {[event |-> e, attempts |-> attempts[e]] : e \in rows}]]
  /\ UNCHANGED <<rowVars, net, handled, faults>>

\* The rows are taken from the oldest to the newest.
IsNext(p, c) == c \in tick[p].batch /\ \A d \in tick[p].batch : c.event <= d.event

\* The tick goes on with the rows left of its batch, or ends.
GoOn(p, batch, failed) ==
  tick' = [tick EXCEPT ![p] =
             IF batch = {} THEN Idle
             ELSE [step |-> "next", batch |-> batch, failed |-> failed]]

\* A row of a destination that failed in this tick is left for a later one.
Skip(p) ==
  /\ At(p, "next")
  /\ \E c \in tick[p].batch : /\ IsNext(p, c)
                              /\ destination[c.event] \in tick[p].failed
                              /\ GoOn(p, tick[p].batch \ {c}, tick[p].failed)
  /\ UNCHANGED <<rowVars, net, handled, faults>>

\* markAttempt writes the row from its copy; then the request is sent, or, if
\* no peer matches, the row is marked with an error at once.
MarkAttempt(p) ==
  /\ At(p, "next")
  /\ \E c \in tick[p].batch :
       LET e == c.event
           n == c.attempts + 1
           routable == destination[e] \in Peers
       IN /\ IsNext(p, c)
          /\ destination[e] \notin tick[p].failed
          /\ attempts' = [attempts EXCEPT ![e] = n]
          /\ wait' = [wait EXCEPT ![e] = Backoff(n)]
          /\ tick' = [tick EXCEPT ![p] =
                        [step |-> IF routable THEN "send" ELSE "error",
                         batch |-> @.batch \ {c}, failed |-> @.failed,
                         event |-> e, attempts |-> n]]
          /\ net' = IF routable
                    THEN net \union {[poller |-> p, event |-> e, attempt |-> n]}
                    ELSE net
  /\ UNCHANGED <<destination, status, handled, faults>>

\* Mutant: not hearing from the peer in time is taken for an answer.
TimeoutPasses(p) ==
  /\ At(p, "send")
  /\ tick' = [tick EXCEPT ![p].step = "acked"]
  /\ UNCHANGED <<rowVars, net, handled, faults>>

\* The timeout of the send, or a connection that fails: the request may yet
\* be handled.
Timeout(p) ==
  /\ At(p, "send")
  /\ destination[tick[p].event] \notin Healthy
  /\ tick' = [tick EXCEPT ![p].step = "error"]
  /\ UNCHANGED <<rowVars, net, handled, faults>>

MarkSent(p) ==
  /\ At(p, "acked")
  /\ status' = [status EXCEPT ![tick[p].event] = "sent"]
  /\ GoOn(p, tick[p].batch, tick[p].failed)
  /\ UNCHANGED <<destination, attempts, wait, net, handled, faults>>

\* Mutant: a row is given up at its last attempt but one.
ErrorStatusEarly(n) == IF n + 1 >= MaxAttempts THEN "failed" ELSE "pending"
ErrorStatus(n) == IF n >= MaxAttempts THEN "failed" ELSE "pending"

MarkError(p) ==
  /\ At(p, "error")
  /\ LET e == tick[p].event
     IN /\ status' = [status EXCEPT ![e] = ErrorStatus(tick[p].attempts)]
        /\ GoOn(p, tick[p].batch, tick[p].failed \union ({destination[e]} \intersect Peers))
  /\ UNCHANGED <<destination, attempts, wait, net, handled, faults>>

-----------------------------------------------------------------------------
(* The peers, the other jobs and the environment *)

\* The peer handles a request, an eventId it knows as a no-op, and answers;
\* the answer counts if the poller still waits for it and it is not lost.
Handle(r) ==
  /\ r \in net
  /\ net' = net \ {r}
  /\ handled' = handled \union {r.event}
  /\ \/ /\ Awaited(r)
        /\ tick' = [tick EXCEPT ![r.poller].step = "acked"]
     \/ /\ ~ Awaited(r) \/ destination[r.event] \notin Healthy
        /\ UNCHANGED tick
  /\ UNCHANGED <<rowVars, faults>>

\* The request does not reach the peer, or the peer fails to handle it.
Lose(r) ==
  /\ r \in net
  /\ destination[r.event] \notin Healthy
  /\ net' = net \ {r}
  /\ UNCHANGED <<rowVars, tick, handled, faults>>

\* deleteSentOlderThan leaves pending and failed rows alone ...
Purgeable == {e \in Events : status[e] = "sent"}

\* ... and the daily purge waits for the retention, days that outlast any tick.
Purge(e) ==
  /\ e \in Purgeable
  /\ \A p \in Pollers : ~ At(p, "idle") =>
       /\ \A c \in tick[p].batch : c.event # e
       /\ ~ At(p, "next") => tick[p].event # e
  /\ status' = [status EXCEPT ![e] = "purged"]
  /\ UNCHANGED <<destination, attempts, wait, tick, net, handled, faults>>

Elapse ==
  /\ \E e \in Events : wait[e] > 0
  /\ wait' = [e \in Events |-> IF wait[e] > 0 THEN wait[e] - 1 ELSE 0]
  /\ UNCHANGED <<destination, status, attempts, tick, net, handled, faults>>

\* The process dies, or the UPDATE of markAttempt or markError fails, before
\* it took effect or after, and its error leaves the tick: a request that
\* was due after markAttempt may not have been sent.
CutShort(p) ==
  /\ tick[p] # Idle
  /\ faults < MaxFaults
  /\ faults' = faults + 1
  /\ tick' = [tick EXCEPT ![p] = Idle]
  /\ \/ UNCHANGED net
     \/ At(p, "send") /\ net' = net \ {RequestOf(p)}
  /\ UNCHANGED <<rowVars, handled>>

\* markSent fails inside the try of deliver, and so ends in its catch, though
\* the UPDATE may have taken effect and only its answer was lost.
SentNotSaved(p) ==
  /\ At(p, "acked")
  /\ faults < MaxFaults
  /\ faults' = faults + 1
  /\ tick' = [tick EXCEPT ![p].step = "error"]
  /\ status' \in {status, [status EXCEPT ![tick[p].event] = "sent"]}
  /\ UNCHANGED <<destination, attempts, wait, net, handled>>

Step(p) ==
  Claim(p) \/ Skip(p) \/ MarkAttempt(p) \/ Timeout(p) \/ MarkSent(p) \/ MarkError(p)

Next ==
  \/ \E p \in Pollers : Step(p) \/ CutShort(p) \/ SentNotSaved(p)
  \/ \E r \in net : Handle(r) \/ Lose(r)
  \/ \E e \in Events : Insert(e) \/ Purge(e)
  \/ Elapse

Spec == Init /\ [][Next]_vars

(***************************************************************************)
(* The @Interval fires, a send ends by its timeout and the clock runs; no  *)
(* peer but the healthy ones has to answer.                                *)
(***************************************************************************)
HandleHealthy == \E r \in net : destination[r.event] \in Healthy /\ Handle(r)

FairSpec ==
  /\ Spec
  /\ WF_vars(Elapse)
  /\ WF_vars(HandleHealthy)
  /\ \A p \in Pollers : WF_vars(Step(p))

-----------------------------------------------------------------------------
TypeOK ==
  /\ destination \in Destinations
  /\ status \in [Events -> Statuses]
  /\ attempts \in [Events -> Nat]
  /\ wait \in [Events -> 0 .. MaxBackoff]
  /\ tick \in [Pollers -> {Idle} \union Reading \union Delivering]
  /\ net \subseteq Requests
  /\ handled \subseteq Events
  /\ faults \in 0 .. MaxFaults

(***************************************************************************)
(* A row is only taken for sent once its peer has handled the event, never *)
(* because the bytes left or a timeout passed (README.md:435).             *)
(***************************************************************************)
SentWasHandled ==
  \A e \in Events : status[e] \in {"sent", "purged"} => e \in handled

(***************************************************************************)
(* One replica: a row is given up after MaxAttempts attempts and no fewer, *)
(* and only a tick cut short between markAttempt and markError adds one.   *)
(***************************************************************************)
AttemptsCounted ==
  \A e \in Events :
    /\ attempts[e] <= MaxAttempts + faults
    /\ status[e] = "failed" => attempts[e] >= MaxAttempts

\* The rows that markSent wrote, though it failed: markError comes next.
Unsure ==
  {e \in Events :
     status[e] = "sent" /\ \E p \in Pollers : At(p, "error") /\ tick[p].event = e}

\* What a replica that works alone implements.
Promise == INSTANCE Delivery WITH unsure <- Unsure

(***************************************************************************)
(* One replica keeps the promise of the outbox (README.md:435-447): ticks  *)
(* on stale copies, late requests and late errors included, no row is sent *)
(* before it was handled, or taken up again after it was given up, and one *)
(* that is sent comes back only if the UPDATE that said so failed and took *)
(* effect all the same, for the catch then writes over it.                 *)
(***************************************************************************)
KeepsItsPromise == Promise!Spec

(***************************************************************************)
(* Every row leaves the outbox's queue for good: sent, or failed when its  *)
(* attempts run out.  An error that a replica, or a failed markSent, finds *)
(* too late may bring a row back, but not for ever.  A row of a healthy    *)
(* peer ends as sent, with fewer faults than attempts, also behind the     *)
(* rows of a peer that is down (outbox-poller:103-105).                    *)
(***************************************************************************)
Settles ==
  \A e \in Events :
    (status[e] = "pending") ~>
      [](\/ status[e] \in {"sent", "purged"}
         \/ status[e] = "failed" /\ destination[e] \notin Healthy)
=============================================================================
