---------------------------- MODULE Outbox_proofs ----------------------------
(***************************************************************************)
(* What the outbox promises whatever the batch and the attempts are.  With *)
(* any number of replicas a row is sent only when its event was handled.   *)
(* With one replica a tick believes of its rows what the database says of  *)
(* them, but for a row that a failed markSent has written, so the attempts *)
(* are counted and the promise of Delivery.tla is kept.                    *)
(***************************************************************************)
EXTENDS Outbox, FiniteSetTheorems, TLAPS

\* TypeOK without the clock, which no other theorem needs (see OutboxTypes).
DeliveryTypes ==
  /\ status \in [Events -> Statuses]
  /\ attempts \in [Events -> Nat]
  /\ tick \in [Pollers -> {Idle} \union Reading \union Delivering]
  /\ net \subseteq Requests
  /\ handled \subseteq Events

\* An answer says that the event was handled.
AckedIsHandled ==
  \A p \in Pollers : At(p, "acked") => tick[p].event \in handled

Inv == DeliveryTypes /\ AckedIsHandled /\ SentWasHandled

\* The batch and the failed destinations of a tick that goes on.
LEMMA GoOnType ==
  ASSUME DeliveryTypes, NEW p \in Pollers, NEW batch \in SUBSET Copies,
         NEW failed \in SUBSET Peers, GoOn(p, batch, failed)
  PROVE  /\ tick' \in [Pollers -> {Idle} \union Reading \union Delivering]
         /\ \A q \in Pollers : q # p => tick'[q] = tick[q]
         /\ tick'[p].step # "acked"
<1>1. tick' = [tick EXCEPT ![p] = IF batch = {} THEN Idle
                 ELSE [step |-> "next", batch |-> batch, failed |-> failed]]
  BY DEF GoOn
<1>2. [step |-> "next", batch |-> batch, failed |-> failed] \in Reading
  BY DEF Reading
<1>3. tick'[p] \in {Idle} \union Reading
  BY <1>1, <1>2 DEF DeliveryTypes
<1>4. tick'[p].step # "acked"
  BY <1>3 DEF Idle, Reading
<1> QED
  BY <1>1, <1>3, <1>4 DEF DeliveryTypes

\* A tick that is past its claim holds copies of rows and names of peers.
LEMMA RunningTick ==
  ASSUME DeliveryTypes, NEW p \in Pollers, ~ At(p, "idle")
  PROVE  /\ tick[p].batch \in SUBSET Copies
         /\ tick[p].failed \in SUBSET Peers
         /\ ~ At(p, "next") => /\ tick[p] \in Delivering
                               /\ tick[p].event \in Events
                               /\ tick[p].attempts \in Nat
  BY DEF DeliveryTypes, At, Idle, Reading, Delivering

\* A tick that goes on, or begins, is not in the middle of a delivery.
LEMMA TickGoesOn ==
  ASSUME DeliveryTypes, NEW p \in Pollers,
         \/ Claim(p)
         \/ \E batch, failed : GoOn(p, batch, failed)
  PROVE  tick'[p].step \in {"idle", "next"}
BY DEF DeliveryTypes, Claim, GoOn, Idle

THEOREM InitInv == Init => Inv
<1> SUFFICES ASSUME Init PROVE Inv
  OBVIOUS
<1>1. tick \in [Pollers -> {Idle} \union Reading \union Delivering]
  BY DEF Init
<1>2. DeliveryTypes
  BY <1>1 DEF Init, DeliveryTypes, Statuses
<1>3. AckedIsHandled
  BY DEF Init, AckedIsHandled, At, Idle
<1> QED
  BY <1>2, <1>3 DEF Init, Inv, SentWasHandled

\* The steps of a tick keep the invariant.
LEMMA StepInv ==
  ASSUME Inv, NEW p \in Pollers,
         Step(p) \/ CutShort(p) \/ SentNotSaved(p)
  PROVE  Inv'
<1> USE DEF Inv
<1>1. CASE Claim(p)
  <2>1. PICK rows \in SUBSET Due :
          tick' = [tick EXCEPT ![p] =
            [step |-> "next", failed |-> {},
             batch |-> {[event |-> e, attempts |-> attempts[e]] : e \in rows}]]
    BY <1>1 DEF Claim
  <2> DEFINE batch == {[event |-> e, attempts |-> attempts[e]] : e \in rows}
  <2>2. batch \in SUBSET Copies
    BY DEF Copies, Due, DeliveryTypes
  <2>3. [step |-> "next", failed |-> {}, batch |-> batch] \in Reading
    BY <2>2 DEF Reading
  <2>4. UNCHANGED <<status, attempts, net, handled>>
    BY <1>1 DEF Claim, rowVars
  <2>5. DeliveryTypes'
    BY <2>1, <2>3, <2>4 DEF DeliveryTypes
  <2>6. AckedIsHandled'
    BY <2>1, <2>4 DEF AckedIsHandled, At, DeliveryTypes
  <2> QED
    BY <2>4, <2>5, <2>6 DEF SentWasHandled
<1>2. CASE Skip(p)
  <2>1. PICK c \in tick[p].batch : GoOn(p, tick[p].batch \ {c}, tick[p].failed)
    BY <1>2 DEF Skip
  <2>2. ~ At(p, "idle")
    BY <1>2 DEF Skip, At
  <2>3. tick[p].batch \ {c} \in SUBSET Copies /\ tick[p].failed \in SUBSET Peers
    BY <2>2, RunningTick
  <2>4. UNCHANGED <<status, attempts, net, handled>>
    BY <1>2 DEF Skip, rowVars
  <2>5. DeliveryTypes'
    BY <2>1, <2>3, <2>4, GoOnType DEF DeliveryTypes
  <2>6. AckedIsHandled'
    BY <2>1, <2>3, <2>4, GoOnType DEF AckedIsHandled, At
  <2> QED
    BY <2>4, <2>5, <2>6 DEF SentWasHandled
<1>3. CASE MarkAttempt(p)
  <2> DEFINE Peer(e) == destination[e] \in Peers
  <2>1. ~ At(p, "idle")
    BY <1>3 DEF MarkAttempt, At
  <2>2. tick[p].batch \in SUBSET Copies /\ tick[p].failed \in SUBSET Peers
    BY <2>1, RunningTick
  <2>3. PICK c \in tick[p].batch :
          /\ attempts' = [attempts EXCEPT ![c.event] = c.attempts + 1]
          /\ tick' = [tick EXCEPT ![p] =
               [step |-> IF Peer(c.event) THEN "send" ELSE "error",
                batch |-> tick[p].batch \ {c}, failed |-> tick[p].failed,
                event |-> c.event, attempts |-> c.attempts + 1]]
          /\ net' = IF Peer(c.event)
                    THEN net \union {[poller |-> p, event |-> c.event,
                                      attempt |-> c.attempts + 1]}
                    ELSE net
    BY <1>3 DEF MarkAttempt
  <2>4. c.event \in Events /\ c.attempts + 1 \in Nat
    BY <2>2 DEF Copies
  <2>5. tick'[p] \in Delivering
    BY <2>2, <2>3, <2>4 DEF DeliveryTypes, Delivering
  <2>6. net' \subseteq Requests
    BY <2>3, <2>4 DEF DeliveryTypes, Requests
  <2>7. UNCHANGED <<status, handled>>
    BY <1>3 DEF MarkAttempt
  <2>8. DeliveryTypes'
    BY <2>3, <2>4, <2>5, <2>6, <2>7 DEF DeliveryTypes
  <2>9. AckedIsHandled'
    BY <2>3, <2>7 DEF AckedIsHandled, At, DeliveryTypes
  <2> QED
    BY <2>7, <2>8, <2>9 DEF SentWasHandled
<1>4. CASE Timeout(p) \/ SentNotSaved(p)
  <2> DEFINE e == tick[p].event
  <2>1. At(p, "send") \/ At(p, "acked")
    BY <1>4 DEF Timeout, SentNotSaved
  <2>2. tick' = [tick EXCEPT ![p].step = "error"]
    BY <1>4 DEF Timeout, SentNotSaved
  <2>3. tick[p] \in Delivering /\ e \in Events
    BY <2>1, RunningTick DEF At
  <2>4. tick'[p] \in Delivering
    BY <2>2, <2>3 DEF DeliveryTypes, Delivering
  <2>5. /\ UNCHANGED <<attempts, net, handled>>
        /\ \/ status' = status
           \/ At(p, "acked") /\ status' = [status EXCEPT ![e] = "sent"]
    BY <1>4 DEF Timeout, SentNotSaved, rowVars
  <2>6. DeliveryTypes'
    BY <2>2, <2>3, <2>4, <2>5 DEF DeliveryTypes, Statuses
  <2>7. AckedIsHandled'
    BY <2>2, <2>3, <2>5 DEF AckedIsHandled, At, DeliveryTypes, Delivering
  <2>8. SentWasHandled'
    BY <2>3, <2>5 DEF SentWasHandled, AckedIsHandled, DeliveryTypes
  <2> QED
    BY <2>6, <2>7, <2>8
<1>5. CASE MarkSent(p) \/ MarkError(p)
  <2> DEFINE e == tick[p].event
  <2>1. At(p, "acked") \/ At(p, "error")
    BY <1>5 DEF MarkSent, MarkError
  <2>2. /\ tick[p].batch \in SUBSET Copies /\ tick[p].failed \in SUBSET Peers
        /\ e \in Events
    BY <2>1, RunningTick DEF At
  <2>3. PICK failed \in SUBSET Peers : GoOn(p, tick[p].batch, failed)
    BY <1>5, <2>2 DEF MarkSent, MarkError
  <2>4. PICK new \in Statuses :
          /\ status' = [status EXCEPT ![e] = new]
          /\ new = "sent" => At(p, "acked")
          /\ new # "purged"
    BY <1>5 DEF MarkSent, MarkError, ErrorStatus, Statuses
  <2>5. UNCHANGED <<attempts, net, handled>>
    BY <1>5 DEF MarkSent, MarkError
  <2>6. DeliveryTypes'
    BY <2>2, <2>3, <2>4, <2>5, GoOnType DEF DeliveryTypes
  <2>7. AckedIsHandled'
    BY <2>2, <2>3, <2>5, GoOnType DEF AckedIsHandled, At
  <2>8. SentWasHandled'
    BY <2>2, <2>4, <2>5 DEF SentWasHandled, AckedIsHandled, DeliveryTypes
  <2> QED
    BY <2>6, <2>7, <2>8
<1>6. CASE CutShort(p)
  <2>1. /\ tick' = [tick EXCEPT ![p] = Idle] /\ net' \subseteq net
        /\ UNCHANGED <<status, attempts, handled>>
    BY <1>6 DEF CutShort, rowVars
  <2>2. DeliveryTypes'
    BY <2>1 DEF DeliveryTypes
  <2>3. AckedIsHandled'
    BY <2>1 DEF AckedIsHandled, At, Idle, DeliveryTypes
  <2> QED
    BY <2>1, <2>2, <2>3 DEF SentWasHandled
<1> QED
  BY <1>1, <1>2, <1>3, <1>4, <1>5, <1>6 DEF Step

\* A peer that handles a request keeps the invariant.
LEMMA HandleInv ==
  ASSUME Inv, NEW r \in net, Handle(r)
  PROVE  Inv'
<1> USE DEF Inv
<1>1. r \in Requests /\ r.poller \in Pollers /\ r.event \in Events
  BY DEF DeliveryTypes, Requests
<1>2. handled' = handled \union {r.event}
  BY DEF Handle
<1>3. /\ handled' \subseteq Events
      /\ r.event \in handled' /\ handled \subseteq handled'
  BY <1>1, <1>2 DEF DeliveryTypes
<1>4. UNCHANGED <<status, attempts>> /\ net' \subseteq net
  BY DEF Handle, rowVars
<1>5. CASE UNCHANGED tick
  <2>1. DeliveryTypes'
    BY <1>3, <1>4, <1>5 DEF DeliveryTypes
  <2>2. \A p \in Pollers : At(p, "acked") => tick[p].event \in Events
    BY RunningTick DEF At
  <2>3. AckedIsHandled'
    BY <1>3, <1>5, <2>2 DEF AckedIsHandled, At
  <2> QED
    BY <1>3, <1>4, <2>1, <2>3 DEF SentWasHandled
<1>6. CASE /\ At(r.poller, "send") /\ RequestOf(r.poller) = r
           /\ tick' = [tick EXCEPT ![r.poller].step = "acked"]
  <2>1. tick[r.poller] \in Delivering
    BY <1>1, <1>6, RunningTick DEF At
  <2>2. tick'[r.poller] \in Delivering /\ tick'[r.poller].event = r.event
    BY <1>1, <1>6, <2>1 DEF DeliveryTypes, Delivering, RequestOf
  <2>3. DeliveryTypes'
    BY <1>1, <1>3, <1>4, <1>6, <2>2 DEF DeliveryTypes
  <2>4. \A p \in Pollers : At(p, "acked") => tick[p].event \in Events
    BY RunningTick DEF At
  <2>5. AckedIsHandled'
    BY <1>1, <1>3, <1>6, <2>2, <2>4 DEF AckedIsHandled, At, DeliveryTypes
  <2> QED
    BY <1>3, <1>4, <2>3, <2>5 DEF SentWasHandled
<1> QED
  BY <1>5, <1>6 DEF Handle, Awaited

THEOREM NextInv == Inv /\ [Next]_vars => Inv'
<1> SUFFICES ASSUME Inv, [Next]_vars PROVE Inv'
  OBVIOUS
<1> USE DEF Inv
<1>1. ASSUME NEW p \in Pollers, Step(p) \/ CutShort(p) \/ SentNotSaved(p)
      PROVE  Inv'
  BY <1>1, StepInv
<1>2. ASSUME NEW r \in net, Handle(r) PROVE Inv'
  BY <1>2, HandleInv
<1>3. ASSUME NEW r \in net, Lose(r) PROVE Inv'
  BY <1>3 DEF Lose, rowVars, DeliveryTypes, AckedIsHandled, At, SentWasHandled
<1>4. ASSUME NEW e \in Events, Insert(e) PROVE Inv'
  BY <1>4 DEF Insert, DeliveryTypes, Statuses, AckedIsHandled, At, SentWasHandled
<1>5. ASSUME NEW e \in Events, Purge(e) PROVE Inv'
  BY <1>5 DEF Purge, Purgeable, DeliveryTypes, Statuses, AckedIsHandled, At, SentWasHandled
<1>6. CASE Elapse
  BY <1>6 DEF Elapse, DeliveryTypes, AckedIsHandled, At, SentWasHandled
<1>7. CASE UNCHANGED vars
  BY <1>7 DEF vars, DeliveryTypes, AckedIsHandled, At, SentWasHandled
<1> QED
  BY <1>1, <1>2, <1>3, <1>4, <1>5, <1>6, <1>7 DEF Next

THEOREM OutboxInvariant == Spec => []Inv
  BY InitInv, NextInv, PTL DEF Spec

(***************************************************************************)
(* With any number of replicas, rows and attempts, a row is marked sent    *)
(* only after its peer handled the event.                                  *)
(***************************************************************************)
THEOREM OutboxSentWasHandled == Spec => []SentWasHandled
<1>1. Inv => SentWasHandled
  BY DEF Inv
<1> QED
  BY <1>1, OutboxInvariant, PTL

-----------------------------------------------------------------------------
(* The clock. *)

\* The powers of two are natural numbers: they count the subsets of a set.
LEMMA PowerOfTwo ==
  ASSUME NEW n \in Nat
  PROVE  2 ^ n \in Nat
<1>1. IsFiniteSet(1 .. n) /\ Cardinality(1 .. n) = n
  BY FS_Interval
<1>2. Cardinality(SUBSET (1 .. n)) = 2 ^ n /\ IsFiniteSet(SUBSET (1 .. n))
  BY <1>1, FS_SUBSET
<1>. QED BY <1>2, FS_CardinalityType

\* The delay before the next attempt is never over the cap.
LEMMA BackoffCapped ==
  ASSUME NEW n \in Nat
  PROVE  Backoff(n + 1) \in 0 .. MaxBackoff
<1>1. (n + 1) - 1 = n /\ MaxBackoff \in Nat
  BY BoundsAssumption DEF Setting
<1>. QED BY <1>1, PowerOfTwo DEF Backoff

ClockTypes ==
  /\ destination \in Destinations
  /\ wait \in [Events -> 0 .. MaxBackoff]
  /\ faults \in 0 .. MaxFaults

LEMMA ClockStep ==
  ASSUME DeliveryTypes, ClockTypes, [Next]_vars
  PROVE  ClockTypes'
<1> USE BoundsAssumption DEF ClockTypes, Setting
<1>1. ASSUME NEW p \in Pollers, MarkAttempt(p) PROVE ClockTypes'
  <2>1. tick[p].batch \in SUBSET Copies
    BY <1>1, RunningTick DEF MarkAttempt, At
  <2>2. PICK c \in tick[p].batch :
          wait' = [wait EXCEPT ![c.event] = Backoff(c.attempts + 1)]
    BY <1>1 DEF MarkAttempt
  <2>3. Backoff(c.attempts + 1) \in 0 .. MaxBackoff
    BY <2>1, BackoffCapped DEF Copies
  <2>. QED BY <1>1, <2>2, <2>3 DEF MarkAttempt
<1>2. ASSUME NEW p \in Pollers, CutShort(p) \/ SentNotSaved(p) PROVE ClockTypes'
  BY <1>2 DEF CutShort, SentNotSaved, rowVars
<1>3. CASE Elapse
  BY <1>3 DEF Elapse
<1>4. ASSUME UNCHANGED <<destination, wait, faults>> PROVE ClockTypes'
  BY <1>4
<1>5. ASSUME NEW p \in Pollers,
             Claim(p) \/ Skip(p) \/ Timeout(p) \/ MarkSent(p) \/ MarkError(p)
      PROVE  ClockTypes'
  BY <1>4, <1>5 DEF Claim, Skip, Timeout, MarkSent, MarkError, rowVars
<1>6. ASSUME NEW r \in net, Handle(r) \/ Lose(r) PROVE ClockTypes'
  BY <1>4, <1>6 DEF Handle, Lose, rowVars
<1>7. ASSUME NEW e \in Events, Insert(e) \/ Purge(e) PROVE ClockTypes'
  BY <1>4, <1>7 DEF Insert, Purge
<1>8. CASE UNCHANGED vars
  BY <1>4, <1>8 DEF vars
<1>. QED BY <1>1, <1>2, <1>3, <1>5, <1>6, <1>7, <1>8 DEF Next, Step

(***************************************************************************)
(* Every variable of the outbox keeps its type, for any number of          *)
(* replicas; the wait of a row never exceeds the cap of the backoff.       *)
(***************************************************************************)
THEOREM OutboxTypes == Spec => []TypeOK
<1>1. Init => ClockTypes
  BY BoundsAssumption DEF Init, ClockTypes, Setting
<1>2. Inv /\ ClockTypes /\ [Next]_vars => ClockTypes'
  BY ClockStep DEF Inv
<1>3. Inv /\ ClockTypes => TypeOK
  BY DEF Inv, DeliveryTypes, ClockTypes, TypeOK
<1>. QED BY <1>1, <1>2, <1>3, OutboxInvariant, PTL DEF Spec

-----------------------------------------------------------------------------
(* One replica: nobody writes the rows of a tick behind its back. *)

OneReplica == \A p, q \in Pollers : p = q

\* Whether the tick is between the markAttempt of a row and its outcome.
Delivers(p) == At(p, "send") \/ At(p, "acked") \/ At(p, "error")

\* What a tick holds of a row is what the row says, and each row is either
\* still in the batch or being delivered.  Only a row whose markSent failed
\* may be sent already when the tick takes it for pending.
CopiesAgree ==
  \A p \in Pollers :
    /\ ~ At(p, "idle") =>
         \A c \in tick[p].batch :
           status[c.event] = "pending" /\ attempts[c.event] = c.attempts
    /\ Delivers(p) =>
         /\ \/ status[tick[p].event] = "pending"
            \/ At(p, "error") /\ status[tick[p].event] = "sent"
         /\ attempts[tick[p].event] = tick[p].attempts
         /\ \A c \in tick[p].batch : c.event # tick[p].event

InDelivery(e) == \E p \in Pollers : Delivers(p) /\ tick[p].event = e

\* A row has used its attempts up only while its last one is under way; one
\* more is left to it for each tick that was cut short.
Budget ==
  \A e \in Events :
    /\ attempts[e] <= MaxAttempts + faults
    /\ status[e] \in {"none", "pending"} /\ ~ InDelivery(e)
         => attempts[e] < MaxAttempts + faults
    /\ status[e] = "failed" => attempts[e] >= MaxAttempts

RequestsHaveRows == \A r \in net : status[r.event] # "none"

AloneInv == Inv /\ faults \in Nat /\ CopiesAgree /\ Budget /\ RequestsHaveRows

LEMMA AloneInit == Init => AloneInv
BY InitInv, BoundsAssumption
   DEF Init, AloneInv, CopiesAgree, Budget, RequestsHaveRows, Delivers, At, Idle,
       Setting

\* A step of the tick that does not touch the rows, and holds on to no more of
\* them than it did: what it delivers, if anything, it was delivering.
LEMMA HoldStep ==
  ASSUME OneReplica, AloneInv, NEW p \in Pollers,
         UNCHANGED <<status, attempts>>, net' \subseteq net,
         faults' \in Nat, faults' >= faults,
         ~ At(p, "idle")' =>
           \A c \in tick'[p].batch :
             status[c.event] = "pending" /\ attempts[c.event] = c.attempts,
         Delivers(p)' =>
           /\ Delivers(p) /\ (At(p, "error") => At(p, "error")')
           /\ tick'[p].event = tick[p].event
           /\ tick'[p].attempts = tick[p].attempts
           /\ tick'[p].batch = tick[p].batch,
         Delivers(p) => Delivers(p)' \/ faults' > faults
  PROVE  CopiesAgree' /\ Budget' /\ RequestsHaveRows'
<1>1. \A q \in Pollers : q = p
  BY DEF OneReplica
<1>2. CopiesAgree'
  BY <1>1 DEF AloneInv, CopiesAgree
<1>3. ASSUME NEW e \in Events
      PROVE  /\ attempts'[e] <= MaxAttempts + faults'
             /\ status'[e] \in {"none", "pending"} /\ ~ InDelivery(e)'
                  => attempts'[e] < MaxAttempts + faults'
             /\ status'[e] = "failed" => attempts'[e] >= MaxAttempts
  <2>1. /\ attempts[e] \in Nat /\ faults \in Nat /\ MaxAttempts \in Nat
        /\ attempts[e] <= MaxAttempts + faults
        /\ status[e] \in {"none", "pending"} /\ ~ InDelivery(e)
             => attempts[e] < MaxAttempts + faults
        /\ status[e] = "failed" => attempts[e] >= MaxAttempts
    BY BoundsAssumption DEF AloneInv, Inv, DeliveryTypes, Budget, Setting
  <2>2. ~ InDelivery(e)' => ~ InDelivery(e) \/ faults' > faults
    BY <1>1 DEF InDelivery
  <2>. QED BY <2>1, <2>2
<1>4. RequestsHaveRows'
  BY DEF AloneInv, RequestsHaveRows
<1>. QED BY <1>2, <1>3, <1>4 DEF Budget

\* The tick reads its rows, skips one, hears nothing in time, is cut short or
\* has its markSent fail without effect.
LEMMA QuietTick ==
  ASSUME OneReplica, AloneInv, NEW p \in Pollers,
         Claim(p) \/ Skip(p) \/ Timeout(p) \/ CutShort(p) \/ SentNotSaved(p),
         status' = status
  PROVE  CopiesAgree' /\ Budget' /\ RequestsHaveRows'
<1>1. /\ DeliveryTypes /\ faults \in Nat
      /\ UNCHANGED <<status, attempts>> /\ net' \subseteq net
  BY DEF AloneInv, Inv, Claim, Skip, Timeout, CutShort, SentNotSaved, rowVars
<1>2. CASE Claim(p)
  <2>1. PICK rows \in SUBSET Due :
          tick' = [tick EXCEPT ![p] =
            [step |-> "next", failed |-> {},
             batch |-> {[event |-> e, attempts |-> attempts[e]] : e \in rows}]]
    BY <1>2 DEF Claim
  <2>2. /\ tick[p] = Idle /\ faults' = faults
        /\ tick'[p].step = "next"
        /\ tick'[p].batch = {[event |-> e, attempts |-> attempts[e]] : e \in rows}
    BY <1>1, <1>2, <2>1 DEF Claim, DeliveryTypes
  <2>. QED BY <1>1, <2>2, HoldStep DEF At, Delivers, Idle, Due
<1>3. CASE Skip(p)
  <2>1. PICK c \in tick[p].batch : GoOn(p, tick[p].batch \ {c}, tick[p].failed)
    BY <1>3 DEF Skip
  <2>2. /\ At(p, "next") /\ faults' = faults
        /\ \/ tick'[p] = Idle
           \/ tick'[p].step = "next" /\ tick'[p].batch = tick[p].batch \ {c}
    BY <1>1, <1>3, <2>1 DEF Skip, GoOn, DeliveryTypes
  <2>. QED BY <1>1, <2>2, HoldStep DEF At, Delivers, Idle, AloneInv, CopiesAgree
<1>4. CASE Timeout(p) \/ SentNotSaved(p)
  <2>1. /\ At(p, "send") \/ At(p, "acked")
        /\ faults' \in Nat /\ faults' >= faults
        /\ tick' = [tick EXCEPT ![p].step = "error"]
    BY <1>1, <1>4 DEF Timeout, SentNotSaved
  <2>2. tick[p] \in Delivering
    BY <1>1, <2>1, RunningTick DEF At
  <2>3. /\ tick'[p].step = "error" /\ tick'[p].event = tick[p].event
        /\ tick'[p].attempts = tick[p].attempts /\ tick'[p].batch = tick[p].batch
    BY <1>1, <2>1, <2>2 DEF DeliveryTypes, Delivering
  <2>. QED BY <1>1, <2>1, <2>3, HoldStep DEF At, Delivers, AloneInv, CopiesAgree
<1>5. CASE CutShort(p)
  <2>1. tick'[p] = Idle /\ faults' = faults + 1
    BY <1>1, <1>5 DEF CutShort, DeliveryTypes
  <2>. QED BY <1>1, <2>1, HoldStep DEF At, Delivers, Idle
<1>. QED BY <1>2, <1>3, <1>4, <1>5

\* markSent fails though it wrote the row: nothing changes for the others.
LEMMA UnsureAlone ==
  ASSUME OneReplica, AloneInv, NEW p \in Pollers, SentNotSaved(p),
         status' = [status EXCEPT ![tick[p].event] = "sent"]
  PROVE  CopiesAgree' /\ Budget' /\ RequestsHaveRows'
<1> DEFINE e == tick[p].event
<1>1. /\ DeliveryTypes /\ CopiesAgree /\ Budget /\ faults \in Nat
      /\ At(p, "acked") /\ \A q \in Pollers : q = p
      /\ UNCHANGED <<attempts, net>> /\ faults' = faults + 1
      /\ tick' = [tick EXCEPT ![p].step = "error"]
      /\ MaxAttempts \in Nat
  BY BoundsAssumption DEF AloneInv, Inv, SentNotSaved, OneReplica, Setting
<1>2. /\ tick[p] \in Delivering /\ e \in Events /\ tick[p].batch \in SUBSET Copies
  BY <1>1, RunningTick DEF At
<1>3. /\ tick'[p].step = "error" /\ tick'[p].event = e
      /\ tick'[p].attempts = tick[p].attempts /\ tick'[p].batch = tick[p].batch
  BY <1>1, <1>2 DEF DeliveryTypes, Delivering
<1>4. Delivers(p) /\ ~ At(p, "idle") /\ Delivers(p)' /\ At(p, "error")'
  BY <1>1, <1>3 DEF Delivers, At
<1>5. status'[e] = "sent" /\ \A d \in Events : d # e => status'[d] = status[d]
  BY <1>1, <1>2 DEF DeliveryTypes
<1>6. CopiesAgree'
  BY <1>1, <1>2, <1>3, <1>4, <1>5 DEF CopiesAgree, Copies
<1>7. \A d \in Events : InDelivery(d)' <=> InDelivery(d)
  BY <1>1, <1>3, <1>4 DEF InDelivery
<1>8. Budget'
  <2>1. \A d \in Events : attempts[d] \in Nat
    BY <1>1 DEF DeliveryTypes
  <2>. QED BY <1>1, <1>5, <1>7, <2>1 DEF Budget
<1>9. RequestsHaveRows'
  <2>1. \A r \in net : r.event \in Events
    BY <1>1 DEF DeliveryTypes, Requests
  <2>. QED BY <1>1, <1>5, <2>1 DEF AloneInv, RequestsHaveRows
<1>. QED BY <1>6, <1>8, <1>9

\* The attempt that is marked is one the row has left.
LEMMA MarkAttemptAlone ==
  ASSUME OneReplica, AloneInv, NEW p \in Pollers, MarkAttempt(p)
  PROVE  CopiesAgree' /\ Budget' /\ RequestsHaveRows'
<1>1. /\ DeliveryTypes /\ CopiesAgree /\ Budget /\ faults \in Nat
      /\ At(p, "next") /\ \A q \in Pollers : q = p
      /\ UNCHANGED <<status, faults>>
      /\ MaxAttempts \in Nat
  BY BoundsAssumption
     DEF AloneInv, Inv, MarkAttempt, OneReplica, Setting
<1> DEFINE Peer(e) == destination[e] \in Peers
<1>2. PICK c \in tick[p].batch :
        /\ attempts' = [attempts EXCEPT ![c.event] = c.attempts + 1]
        /\ tick' = [tick EXCEPT ![p] =
             [step |-> IF Peer(c.event) THEN "send" ELSE "error",
              batch |-> tick[p].batch \ {c}, failed |-> tick[p].failed,
              event |-> c.event, attempts |-> c.attempts + 1]]
        /\ net' = IF Peer(c.event)
                  THEN net \union {[poller |-> p, event |-> c.event,
                                    attempt |-> c.attempts + 1]}
                  ELSE net
  BY DEF MarkAttempt
<1>3. /\ tick'[p].step \in {"send", "error"}
      /\ tick'[p].batch = tick[p].batch \ {c}
      /\ tick'[p].event = c.event /\ tick'[p].attempts = c.attempts + 1
      /\ \A r \in net' : r \in net \/ r.event = c.event
  BY <1>1, <1>2 DEF DeliveryTypes
<1> HIDE DEF Peer
<1>4. /\ tick[p].batch \subseteq Copies /\ c \in Copies
      /\ \A d \in tick[p].batch :
           status[d.event] = "pending" /\ attempts[d.event] = d.attempts
  BY <1>1, RunningTick DEF CopiesAgree, At
<1>5. \A d \in tick[p].batch : d.event = c.event => d = c
  BY <1>4 DEF Copies
<1>6. /\ c.event \in Events /\ c.attempts \in Nat
      /\ c.attempts < MaxAttempts + faults
  <2>1. ~ InDelivery(c.event)
    BY <1>1 DEF InDelivery, Delivers, At
  <2>. QED BY <1>1, <1>4, <2>1 DEF Budget, Copies
<1>7. /\ attempts'[c.event] = c.attempts + 1
      /\ \A e \in Events : e # c.event => attempts'[e] = attempts[e]
  BY <1>3, <1>1, <1>2, <1>6 DEF DeliveryTypes
<1>8. Delivers(p)' /\ ~ At(p, "idle")'
  BY <1>3 DEF Delivers, At
<1>9. CopiesAgree'
  <2>1. \A d \in tick'[p].batch :
          /\ status'[d.event] = "pending" /\ attempts'[d.event] = d.attempts
          /\ d.event # c.event
    BY <1>3, <1>1, <1>2, <1>4, <1>5, <1>7 DEF Copies
  <2>. QED BY <1>3, <1>1, <1>2, <1>4, <1>7, <1>8, <2>1 DEF CopiesAgree
<1>10. Budget'
  <2>1. \A e \in Events : InDelivery(e)' <=> e = c.event
    BY <1>3, <1>1, <1>2, <1>8 DEF InDelivery
  <2>2. \A e \in Events : ~ InDelivery(e)
    BY <1>1 DEF InDelivery, Delivers, At
  <2>3. status[c.event] = "pending"
    BY <1>4
  <2>4. \A e \in Events : attempts[e] \in Nat
    BY <1>1 DEF DeliveryTypes
  <2>. QED BY <1>1, <1>6, <1>7, <2>1, <2>2, <2>3, <2>4 DEF Budget
<1>11. RequestsHaveRows'
  BY <1>3, <1>1, <1>2, <1>4 DEF AloneInv, RequestsHaveRows
<1>. QED BY <1>9, <1>10, <1>11

\* The outcome of a row is that of its own last attempt.
LEMMA OutcomeAlone ==
  ASSUME OneReplica, AloneInv, NEW p \in Pollers, MarkSent(p) \/ MarkError(p)
  PROVE  CopiesAgree' /\ Budget' /\ RequestsHaveRows'
<1> DEFINE e == tick[p].event
           n == tick[p].attempts
<1>1. /\ DeliveryTypes /\ CopiesAgree /\ Budget /\ faults \in Nat
      /\ Delivers(p) /\ ~ At(p, "idle") /\ \A q \in Pollers : q = p
      /\ UNCHANGED <<attempts, net, faults>>
      /\ MaxAttempts \in Nat
  BY BoundsAssumption
     DEF AloneInv, Inv, MarkSent, MarkError, OneReplica, Delivers, At, Setting
<1>2. /\ e \in Events /\ n \in Nat /\ attempts[e] = n
      /\ status[e] \in {"pending", "sent"}
      /\ \A c \in tick[p].batch :
           /\ c.event # e /\ c.event \in Events
           /\ status[c.event] = "pending" /\ attempts[c.event] = c.attempts
  BY <1>1, RunningTick DEF CopiesAgree, Delivers, At, Copies
<1>3. \E new \in {"sent", ErrorStatus(n)} : status' = [status EXCEPT ![e] = new]
  BY DEF MarkSent, MarkError
<1>4. \/ tick'[p] = Idle
      \/ tick'[p].step = "next" /\ tick'[p].batch = tick[p].batch
  <2>1. \E failed : GoOn(p, tick[p].batch, failed)
    BY DEF MarkSent, MarkError
  <2>. QED BY <1>1, <2>1 DEF GoOn, DeliveryTypes
<1>5. ~ Delivers(p)'
  BY <1>4 DEF Delivers, At, Idle
<1>6. \A d \in Events : d # e => status'[d] = status[d]
  BY <1>3 DEF DeliveryTypes
<1>7. CopiesAgree'
  BY <1>1, <1>2, <1>4, <1>5, <1>6 DEF CopiesAgree, At, Idle
<1>8. \/ status'[e] = "sent"
      \/ status'[e] = "failed" /\ n >= MaxAttempts
      \/ status'[e] = "pending" /\ n < MaxAttempts
  BY <1>1, <1>2, <1>3 DEF ErrorStatus, DeliveryTypes
<1>9. Budget'
  <2>1. \A d \in Events : d # e => ~ InDelivery(d)
    BY <1>1 DEF InDelivery
  <2>2. \A d \in Events : attempts[d] \in Nat
    BY <1>1 DEF DeliveryTypes
  <2>. QED BY <1>1, <1>2, <1>6, <1>8, <2>1, <2>2 DEF Budget
<1>10. RequestsHaveRows'
  <2>1. \A r \in net : r.event \in Events
    BY <1>1 DEF DeliveryTypes, Requests
  <2>. QED BY <1>1, <1>6, <1>8, <2>1 DEF AloneInv, RequestsHaveRows
<1>. QED BY <1>7, <1>9, <1>10

\* An answer, and any step that leaves the ticks and the rows alone.
LEMMA HandleAlone ==
  ASSUME OneReplica, AloneInv, NEW r \in net, Handle(r)
  PROVE  CopiesAgree' /\ Budget' /\ RequestsHaveRows'
<1>1. /\ DeliveryTypes /\ UNCHANGED <<status, attempts, faults>>
      /\ net' \subseteq net
  BY DEF AloneInv, Inv, Handle, rowVars
<1>2. \A p \in Pollers :
        /\ tick'[p].batch = tick[p].batch /\ tick'[p].event = tick[p].event
        /\ tick'[p].attempts = tick[p].attempts
        /\ Delivers(p)' = Delivers(p) /\ At(p, "idle")' = At(p, "idle")
        /\ At(p, "error")' = At(p, "error")
  <2>1. CASE UNCHANGED tick
    BY <2>1 DEF Delivers, At
  <2>2. CASE /\ At(r.poller, "send")
             /\ tick' = [tick EXCEPT ![r.poller].step = "acked"]
    <3>1. r.poller \in Pollers /\ tick[r.poller] \in Delivering
      BY <1>1, <2>2, RunningTick DEF DeliveryTypes, Requests, At
    <3>2. \A p \in Pollers : p = r.poller
      BY <3>1 DEF OneReplica
    <3>. QED BY <1>1, <2>2, <3>1, <3>2 DEF DeliveryTypes, Delivering, Delivers, At
  <2>. QED BY <2>1, <2>2 DEF Handle, Awaited
<1>3. CopiesAgree'
  BY <1>1, <1>2 DEF AloneInv, CopiesAgree
<1>4. Budget'
  BY <1>1, <1>2 DEF AloneInv, Budget, InDelivery
<1>5. RequestsHaveRows'
  BY <1>1 DEF AloneInv, RequestsHaveRows
<1>. QED BY <1>3, <1>4, <1>5

LEMMA AloneStep ==
  ASSUME OneReplica, AloneInv, [Next]_vars
  PROVE  AloneInv'
<1> DEFINE Goal == CopiesAgree' /\ Budget' /\ RequestsHaveRows'
<1>1. DeliveryTypes /\ CopiesAgree /\ Budget /\ RequestsHaveRows /\ faults \in Nat
  BY DEF AloneInv, Inv
<1>2. ASSUME UNCHANGED <<status, attempts, tick, faults>>, net' \subseteq net
      PROVE  Goal
  BY <1>1, <1>2 DEF CopiesAgree, Budget, InDelivery, RequestsHaveRows, Delivers, At
<1>3. ASSUME NEW p \in Pollers, Step(p) \/ CutShort(p) \/ SentNotSaved(p)
      PROVE  Goal /\ faults' \in Nat
  <2>1. Goal
    <3>1. \/ status' = status
          \/ Step(p)
          \/ SentNotSaved(p) /\ status' = [status EXCEPT ![tick[p].event] = "sent"]
      BY <1>3 DEF CutShort, SentNotSaved, rowVars
    <3>2. Step(p) => \/ status' = status /\ (Claim(p) \/ Skip(p) \/ Timeout(p))
                     \/ MarkAttempt(p) \/ MarkSent(p) \/ MarkError(p)
      BY DEF Step, Claim, Skip, Timeout, rowVars
    <3>. QED BY <1>3, <3>1, <3>2, QuietTick, UnsureAlone, MarkAttemptAlone, OutcomeAlone
  <2>2. faults' \in Nat
    BY <1>1, <1>3 DEF Step, Claim, Skip, MarkAttempt, Timeout, MarkSent, MarkError,
       CutShort, SentNotSaved
  <2>. QED BY <2>1, <2>2
<1>4. ASSUME NEW r \in net, Handle(r) PROVE Goal /\ faults' \in Nat
  BY <1>1, <1>4, HandleAlone DEF Handle
<1>5. ASSUME NEW r \in net, Lose(r) PROVE Goal /\ faults' \in Nat
  BY <1>1, <1>2, <1>5 DEF Lose, rowVars
<1>6. ASSUME NEW e \in Events, Insert(e) \/ Purge(e) PROVE Goal /\ faults' \in Nat
  <2>1. /\ UNCHANGED <<attempts, tick, net, faults>>
        /\ \/ status[e] = "none" /\ status' = [status EXCEPT ![e] = "pending"]
           \/ status[e] = "sent" /\ status' = [status EXCEPT ![e] = "purged"]
    BY <1>6 DEF Insert, Purge, Purgeable
  <2>2. /\ \A d \in Events : status[d] = "pending" => status'[d] = "pending"
        /\ \A d \in Events : status[d] = "sent" => d = e \/ status'[d] = "sent"
        /\ \A d \in Events : status[d] # "none" => status'[d] # "none"
        /\ \A d \in Events : status'[d] \in {"none", "pending"} =>
             status[d] \in {"none", "pending"}
        /\ \A d \in Events : status'[d] = "failed" => status[d] = "failed"
    BY <1>1, <2>1 DEF DeliveryTypes
  <2>3. \A p \in Pollers : ~ At(p, "idle") => \A c \in tick[p].batch : c.event \in Events
    BY <1>1, RunningTick DEF Copies
  <2>4. \A p \in Pollers : Delivers(p) => tick[p].event \in Events
    BY <1>1, RunningTick DEF Delivers, At
  <2>5. CopiesAgree'
    <3>1. \A p \in Pollers : Delivers(p) /\ status[tick[p].event] = "sent" =>
            status'[tick[p].event] = "sent"
      BY <1>6, <2>2, <2>4 DEF Insert, Purge, Delivers, At
    <3>. QED BY <1>1, <2>1, <2>2, <2>3, <2>4, <3>1 DEF CopiesAgree, Delivers, At
  <2>6. Budget'
    BY <1>1, <2>1, <2>2 DEF Budget, InDelivery, Delivers, At
  <2>7. \A r \in net : r.event \in Events
    BY <1>1 DEF DeliveryTypes, Requests
  <2>8. RequestsHaveRows'
    BY <1>1, <2>1, <2>2, <2>7 DEF RequestsHaveRows
  <2>. QED BY <1>1, <2>1, <2>5, <2>6, <2>8
<1>7. ASSUME Elapse PROVE Goal /\ faults' \in Nat
  BY <1>1, <1>2, <1>7 DEF Elapse
<1>8. ASSUME UNCHANGED vars PROVE Goal /\ faults' \in Nat
  BY <1>1, <1>2, <1>8 DEF vars
<1>9. Goal /\ faults' \in Nat
  BY <1>3, <1>4, <1>5, <1>6, <1>7, <1>8 DEF Next
<1>. QED BY <1>9, NextInv DEF AloneInv

THEOREM OutboxAlone ==
  ASSUME OneReplica
  PROVE  Spec => []AloneInv
<1>1. AloneInv /\ [Next]_vars => AloneInv'
  BY AloneStep
<1>. QED BY <1>1, AloneInit, PTL DEF Spec

(***************************************************************************)
(* One replica gives a row up after MaxAttempts attempts and no fewer, and *)
(* makes more only for the ticks that were cut short after markAttempt.    *)
(***************************************************************************)
THEOREM OutboxAttemptsCounted ==
  ASSUME OneReplica
  PROVE  Spec => []AttemptsCounted
<1>1. AloneInv => AttemptsCounted
  BY DEF AloneInv, Budget, AttemptsCounted
<1>. QED BY <1>1, OutboxAlone, PTL

\* Each step of one replica, its peers and its jobs is one of the promise, or
\* none: a row only moves from where the tick believes it to be.
LEMMA PromiseStep ==
  ASSUME OneReplica, AloneInv, [Next]_vars
  PROVE  [Promise!Next]_(Promise!vars)
<1>1. /\ DeliveryTypes /\ AckedIsHandled /\ CopiesAgree /\ RequestsHaveRows
      /\ \A p, q \in Pollers : p = q
  BY DEF AloneInv, Inv, OneReplica
<1>2. ASSUME UNCHANGED <<status, handled, tick, faults>> PROVE UNCHANGED Promise!vars
  BY <1>2 DEF Promise!vars, Unsure, At
<1>3. ASSUME NEW p \in Pollers, MarkSent(p) PROVE Promise!Next
  <2> DEFINE e == tick[p].event
  <2>1. /\ At(p, "acked") /\ e \in Events /\ status[e] = "pending" /\ e \in handled
    BY <1>1, <1>3, RunningTick DEF MarkSent, At, AckedIsHandled, CopiesAgree, Delivers
  <2>2. status' = [status EXCEPT ![e] = "sent"] /\ UNCHANGED <<handled, faults>>
    BY <1>3 DEF MarkSent
  <2>3. Unsure = {} /\ Unsure' = {}
    BY <1>1, <1>3, <2>1, TickGoesOn DEF Unsure, At, MarkSent
  <2>4. Promise!Sent(e)
    BY <2>1, <2>2, <2>3 DEF Promise!Sent, Promise!GoTo, Promise!Sure
  <2>. QED BY <2>1, <2>4 DEF Promise!Next
<1>4. ASSUME NEW p \in Pollers, MarkError(p) PROVE [Promise!Next]_(Promise!vars)
  <2> DEFINE e == tick[p].event
  <2>1. e \in Events /\ status[e] \in {"pending", "sent"} /\ At(p, "error")
    BY <1>1, <1>4, RunningTick DEF MarkError, At, CopiesAgree, Delivers
  <2>2. /\ \E to \in {"pending", "failed"} : status' = [status EXCEPT ![e] = to]
        /\ UNCHANGED <<handled, faults>>
    BY <1>4 DEF MarkError, ErrorStatus
  <2>3. /\ Unsure = IF status[e] = "sent" THEN {e} ELSE {}
        /\ Unsure' = {}
    BY <1>1, <1>4, <2>1, TickGoesOn DEF Unsure, At, MarkError
  <2>4. CASE status[e] = "sent"
    <3>1. Promise!Recant(e)
      BY <2>2, <2>3, <2>4 DEF Promise!Recant, Promise!GoTo
    <3>. QED BY <2>1, <3>1 DEF Promise!Next
  <2>5. CASE status[e] = "pending" /\ status' = [status EXCEPT ![e] = "failed"]
    <3>1. Promise!GiveUp(e)
      BY <2>2, <2>3, <2>5 DEF Promise!GiveUp, Promise!GoTo, Promise!Sure
    <3>. QED BY <2>1, <3>1 DEF Promise!Next
  <2>6. CASE status[e] = "pending" /\ status' = [status EXCEPT ![e] = "pending"]
    <3>1. UNCHANGED status
      BY <1>1, <2>1, <2>6 DEF DeliveryTypes
    <3>. QED BY <2>2, <2>3, <2>6, <3>1 DEF Promise!vars
  <2>. QED BY <2>1, <2>2, <2>4, <2>5, <2>6
<1>5. ASSUME NEW p \in Pollers, Claim(p) \/ Skip(p) \/ Timeout(p) \/ MarkAttempt(p)
      PROVE  UNCHANGED Promise!vars
  <2>1. UNCHANGED <<status, handled, faults>> /\ ~ At(p, "error")
    BY <1>5 DEF Claim, Skip, MarkAttempt, Timeout, rowVars, At, Idle
  <2>2. At(p, "error")' => status[tick'[p].event] # "sent"
    <3>1. CASE Claim(p) \/ Skip(p)
      BY <1>1, <3>1, TickGoesOn DEF Claim, Skip, At, DeliveryTypes
    <3>2. CASE Timeout(p)
      <4>1. At(p, "send") /\ tick[p] \in Delivering
        BY <1>1, <3>2, RunningTick DEF Timeout, At
      <4>2. tick'[p].event = tick[p].event
        BY <1>1, <3>2, <4>1 DEF Timeout, DeliveryTypes, Delivering
      <4>3. status[tick[p].event] = "pending"
        BY <1>1, <4>1 DEF CopiesAgree, Delivers, At
      <4>. QED BY <4>2, <4>3
    <3>3. CASE MarkAttempt(p)
      <4>1. \A c \in tick[p].batch : status[c.event] = "pending"
        BY <1>1, <3>3 DEF MarkAttempt, CopiesAgree, At
      <4>2. \E c \in tick[p].batch : tick'[p].event = c.event
        BY <1>1, <3>3 DEF MarkAttempt, DeliveryTypes
      <4>. QED BY <4>1, <4>2
    <3>. QED BY <1>5, <3>1, <3>2, <3>3
  <2>3. Unsure = {} /\ Unsure' = {}
    BY <1>1, <2>1, <2>2 DEF Unsure, At
  <2>. QED BY <2>1, <2>3 DEF Promise!vars
<1>6. ASSUME NEW p \in Pollers, CutShort(p) PROVE Promise!Next
  <2>1. /\ UNCHANGED <<status, handled>> /\ faults' = faults + 1
        /\ tick'[p] = Idle
    BY <1>1, <1>6 DEF CutShort, rowVars, DeliveryTypes
  <2>2. Unsure' = {}
    BY <1>1, <2>1 DEF Unsure, At, Idle
  <2>3. Promise!Fail
    BY <2>1, <2>2 DEF Promise!Fail
  <2>. QED BY <2>3 DEF Promise!Next
<1>7. ASSUME NEW p \in Pollers, SentNotSaved(p) PROVE Promise!Next
  <2> DEFINE e == tick[p].event
  <2>1. /\ At(p, "acked") /\ e \in Events /\ status[e] = "pending" /\ e \in handled
        /\ tick[p] \in Delivering
    BY <1>1, <1>7, RunningTick DEF SentNotSaved, At, AckedIsHandled, CopiesAgree, Delivers
  <2>2. /\ UNCHANGED handled /\ faults' = faults + 1
        /\ status' = status \/ status' = [status EXCEPT ![e] = "sent"]
        /\ tick'[p].step = "error" /\ tick'[p].event = e
    BY <1>1, <1>7, <2>1 DEF SentNotSaved, DeliveryTypes, Delivering
  <2>3. Unsure = {}
    BY <1>1, <2>1 DEF Unsure, At
  <2>4. CASE status' = status
    <3>1. Unsure' = {}
      BY <1>1, <2>1, <2>2, <2>4 DEF Unsure
    <3>2. Promise!Fail
      BY <2>2, <2>3, <2>4, <3>1 DEF Promise!Fail
    <3>. QED BY <3>2 DEF Promise!Next
  <2>5. CASE status' = [status EXCEPT ![e] = "sent"]
    <3>1. Unsure' = {e}
      BY <1>1, <2>1, <2>2, <2>5 DEF Unsure, At, DeliveryTypes
    <3>2. Promise!SentUnsure(e)
      BY <2>1, <2>2, <2>3, <2>5, <3>1 DEF Promise!SentUnsure, Promise!GoTo
    <3>. QED BY <2>1, <3>2 DEF Promise!Next
  <2>. QED BY <2>2, <2>4, <2>5
<1>8. ASSUME NEW r \in net, Handle(r) PROVE Promise!Next
  <2>1. /\ r.event \in Events /\ status[r.event] # "none" /\ r.poller \in Pollers
    BY <1>1 DEF DeliveryTypes, Requests, RequestsHaveRows
  <2>2. handled' = handled \union {r.event} /\ UNCHANGED <<status, faults>>
    BY <1>8 DEF Handle, rowVars
  <2>3. \/ UNCHANGED tick
        \/ At(r.poller, "send") /\ tick'[r.poller].step = "acked"
    <3>1. ASSUME At(r.poller, "send"), tick' = [tick EXCEPT ![r.poller].step = "acked"]
          PROVE  tick'[r.poller].step = "acked"
      BY <1>1, <2>1, <3>1, RunningTick DEF DeliveryTypes, Delivering, At
    <3>. QED BY <1>8, <3>1 DEF Handle, Awaited
  <2>4. Unsure' = Unsure
    BY <1>1, <2>1, <2>2, <2>3 DEF Unsure, At
  <2>5. Promise!Handle(r.event)
    BY <2>1, <2>2, <2>4 DEF Promise!Handle, Promise!Sure
  <2>. QED BY <2>1, <2>5 DEF Promise!Next
<1>9. ASSUME NEW r \in net, Lose(r) PROVE UNCHANGED Promise!vars
  BY <1>2, <1>9 DEF Lose, rowVars
<1>10. ASSUME NEW e \in Events, Insert(e) PROVE Promise!Next
  <2>1. /\ status[e] = "none" /\ status' = [status EXCEPT ![e] = "pending"]
        /\ UNCHANGED <<tick, handled, faults>>
    BY <1>10 DEF Insert
  <2>2. Unsure' = Unsure
    BY <1>1, <2>1 DEF Unsure, At, DeliveryTypes
  <2>3. Promise!Insert(e)
    BY <2>1, <2>2 DEF Promise!Insert, Promise!GoTo, Promise!Sure
  <2>. QED BY <2>3 DEF Promise!Next
<1>11. ASSUME NEW e \in Events, Purge(e) PROVE Promise!Next
  <2>1. /\ status[e] = "sent" /\ status' = [status EXCEPT ![e] = "purged"]
        /\ UNCHANGED <<tick, handled, faults>>
        /\ \A p \in Pollers : At(p, "error") => tick[p].event # e
    BY <1>11 DEF Purge, Purgeable, At
  <2>2. Unsure' = Unsure /\ e \notin Unsure
    BY <1>1, <2>1 DEF Unsure, At, DeliveryTypes
  <2>3. Promise!Purge(e)
    BY <2>1, <2>2 DEF Promise!Purge, Promise!GoTo, Promise!Sure
  <2>. QED BY <2>3 DEF Promise!Next
<1>12. CASE Elapse \/ UNCHANGED vars
  BY <1>2, <1>12 DEF Elapse, vars
<1>. QED BY <1>3, <1>4, <1>5, <1>6, <1>7, <1>8, <1>9, <1>10, <1>11, <1>12 DEF Next, Step

(***************************************************************************)
(* One replica keeps the promise of the outbox: ticks that work on stale   *)
(* copies, requests handled late, errors of what was handled and a failed  *)
(* markSent that wrote its row included, it implements Delivery.           *)
(***************************************************************************)
THEOREM OutboxKeepsItsPromise ==
  ASSUME OneReplica
  PROVE  Spec => KeepsItsPromise
<1>1. Init => Promise!Init
  BY DEF Init, Promise!Init, Unsure
<1>2. AloneInv /\ [Next]_vars => [Promise!Next]_(Promise!vars)
  BY PromiseStep
<1>. QED BY <1>1, <1>2, OutboxAlone, PTL DEF Spec, KeepsItsPromise, Promise!Spec
=============================================================================
