------------------------------ MODULE OrderSaga ------------------------------
(***************************************************************************)
(* An order across the two services: OrdersService reserves its stock over *)
(* TCP before it creates the row, an outbox row tells inventory of its     *)
(* confirmation or cancellation, and the reaper frees what outlives its    *)
(* TTL.  Messages are lost, late, repeated and overtake each other.        *)
(*                                                                         *)
(* Each side is taken at its abstract step: the ledger that Inventory.tla  *)
(* implements, and of the outbox what Outbox.tla shows of a row: it is     *)
(* sent until it is handled and marked so, or given up.  A step of         *)
(* OrdersService is one transaction on the locked row of its order.        *)
(***************************************************************************)
EXTENDS StockLedger

VARIABLES
  stage,   \* how far createOrder got for each order id
  order,   \* orders.status, "none" while there is no row
  row,     \* the finalize events of the order in the outbox
  net      \* requests on their way to inventory

sagaVars == <<stage, order, row, net>>
vars     == <<ledgerVars, sagaVars>>

Stages    == {"new", "reserving", "reserved", "placed", "refused", "failed"}
OrderStatuses == {"none", "pending", "confirmed", "shipped", "delivered", "cancelled"}
Finalizes == {"confirm", "cancel"}
Kinds     == Finalizes \union {"reserve", "orphan"}
Rows      == {"none", "pending", "sent", "failed"}

Msg(o, kind) == [order |-> o, kind |-> kind]
Messages == [order : Orders, kind : Kinds]

ValidTransitions ==
  [none |-> {}, pending |-> {"confirmed", "cancelled"},
   confirmed |-> {"shipped", "cancelled"}, shipped |-> {"delivered"},
   delivered |-> {}, cancelled |-> {}]

Init ==
  /\ LedgerInit
  /\ stage = [o \in Orders |-> "new"]
  /\ order = [o \in Orders |-> "none"]
  /\ row = [o \in Orders |-> [k \in Finalizes |-> "none"]]
  /\ net = {}

-----------------------------------------------------------------------------
(* createOrder *)

GoTo(o, s) == stage' = [stage EXCEPT ![o] = s]

SendReserve(o) ==
  /\ stage[o] = "new"
  /\ GoTo(o, "reserving")
  /\ net' = net \union {Msg(o, "reserve")}
  /\ UNCHANGED <<ledgerVars, order, row>>

\* The circuit is open: 503 and nothing was sent.
CircuitOpen(o) ==
  /\ stage[o] = "new"
  /\ GoTo(o, "refused")
  /\ UNCHANGED <<ledgerVars, order, row, net>>

\* Mutant: the service degrades open, the order is created all the same.
ReserveFailsOpen(o) ==
  /\ stage[o] = "reserving"
  /\ GoTo(o, "reserved")
  /\ net' = net \union {Msg(o, "orphan")}
  /\ UNCHANGED <<ledgerVars, order, row>>

\* The timeout, or a transport failure: 503 and a release for the orphan,
\* though the request may still be on its way.
ReserveFails(o) ==
  /\ stage[o] = "reserving"
  /\ GoTo(o, "failed")
  /\ net' = net \union {Msg(o, "orphan")}
  /\ UNCHANGED <<ledgerVars, order, row>>

\* ordersRepository.create
Create(o) ==
  /\ stage[o] = "reserved"
  /\ GoTo(o, "placed")
  /\ order' = [order EXCEPT ![o] = "pending"]
  /\ UNCHANGED <<ledgerVars, row, net>>

\* The process dies in createOrder, or its transaction fails: no release.
CreateFails(o) ==
  /\ stage[o] \in {"reserving", "reserved"}
  /\ GoTo(o, "failed")
  /\ UNCHANGED <<ledgerVars, order, row, net>>

-----------------------------------------------------------------------------
(* updateStatus *)

RequestOf(to) ==
  CASE to = "confirmed" -> {"confirm"} [] to = "cancelled" -> {"cancel"} [] OTHER -> {}

\* transitionStatus: the order and its outbox rows, in one transaction.
TransitionStatus(o, to) ==
  /\ order' = [order EXCEPT ![o] = to]
  /\ row' = [row EXCEPT ![o] =
       [k \in Finalizes |-> IF k \in RequestOf(to) THEN "pending" ELSE @[k]]]
  /\ UNCHANGED <<ledgerVars, stage, net>>

UpdateStatus(o, to) ==
  /\ to \in ValidTransitions[order[o]]
  /\ TransitionStatus(o, to)

-----------------------------------------------------------------------------
(* The outbox and the network *)

SendRow(o, k) ==
  /\ row[o][k] = "pending"
  /\ net' = net \union {Msg(o, k)}
  /\ UNCHANGED <<ledgerVars, stage, order, row>>

\* Its attempts ran out; a request may still be on its way.
GiveUpRow(o, k) ==
  /\ row[o][k] = "pending"
  /\ row' = [row EXCEPT ![o][k] = "failed"]
  /\ UNCHANGED <<ledgerVars, stage, order, net>>

Lose(m) ==
  /\ m \in net
  /\ net' = net \ {m}
  /\ UNCHANGED <<ledgerVars, stage, order, row>>

-----------------------------------------------------------------------------
(* The inventory service *)

\* The answer is lost, or reaches a createOrder that still waits for it.
HandleReserve(o) ==
  /\ Msg(o, "reserve") \in net
  /\ net' = net \ {Msg(o, "reserve")}
  /\ Reserve(o)
  /\ UNCHANGED stage \/ (stage[o] = "reserving" /\ GoTo(o, "reserved"))
  /\ UNCHANGED <<order, row>>

\* ReservationRejectedError: 409.
RejectReserve(o) ==
  /\ Msg(o, "reserve") \in net
  /\ net' = net \ {Msg(o, "reserve")}
  /\ \E p \in Products : reserved[p] + basket[o][p] > quantity[p]
  /\ UNCHANGED stage \/ (stage[o] = "reserving" /\ GoTo(o, "refused"))
  /\ UNCHANGED <<ledgerVars, order, row>>

\* Mutant: the two event types are mapped to each other's pattern.
ActionSwapped(kind) == IF kind = "confirm" THEN "release" ELSE "commit"
ActionOf(kind) == IF kind = "confirm" THEN "commit" ELSE "release"

\* Mutant: the status of the reservation is not looked at.
FinalizeAnyStatus(o, action) ==
  /\ ReturnUnits(o, action)
  /\ status' = [status EXCEPT ![o] = IF action = "commit" THEN "committed" ELSE "released"]
  /\ UNCHANGED <<basket, expired>>

\* Mutant: an expired reservation is left to the reaper.
FinalizeIfNotExpired(o, action) ==
  \/ o \notin expired /\ Finalize(o, action)
  \/ (status[o] # "held" \/ o \in expired) /\ UNCHANGED ledgerVars

\* finalize: without a held reservation, a successful no-op.
FinalizeIfHeld(o, action) ==
  \/ Finalize(o, action)
  \/ status[o] # "held" /\ UNCHANGED ledgerVars

\* The answer to a row is lost, or the row is marked sent.
HandleFinalize(o, kind) ==
  /\ Msg(o, kind) \in net
  /\ net' = net \ {Msg(o, kind)}
  /\ FinalizeIfHeld(o, ActionOf(kind))
  /\ \/ UNCHANGED row
     \/ /\ kind \in Finalizes
        /\ row[o][kind] = "pending"
        /\ row' = [row EXCEPT ![o][kind] = "sent"]
  /\ UNCHANGED <<stage, order>>

Reap(o) ==
  /\ o \in expired
  /\ Finalize(o, "release")
  /\ UNCHANGED sagaVars

TtlPasses(o) == Expire(o) /\ UNCHANGED sagaVars

Next ==
  \E o \in Orders :
    \/ SendReserve(o) \/ CircuitOpen(o) \/ ReserveFails(o)
    \/ Create(o) \/ CreateFails(o)
    \/ \E to \in OrderStatuses : UpdateStatus(o, to)
    \/ \E k \in Finalizes : SendRow(o, k) \/ GiveUpRow(o, k)
    \/ \E kind \in Kinds : Lose(Msg(o, kind))
    \/ HandleReserve(o) \/ RejectReserve(o)
    \/ \E kind \in Kinds \ {"reserve"} : HandleFinalize(o, kind)
    \/ Reap(o) \/ TtlPasses(o)

Spec == Init /\ [][Next]_vars

-----------------------------------------------------------------------------
TypeOK ==
  /\ LedgerTypeOK
  /\ stage \in [Orders -> Stages]
  /\ order \in [Orders -> OrderStatuses]
  /\ row \in [Orders -> [Finalizes -> Rows]]
  /\ net \subseteq Messages

Live == {o \in Orders : order[o] \in {"pending", "confirmed", "shipped", "delivered"}}

(***************************************************************************)
(* While its TTL runs, an order that was not cancelled has its stock, held *)
(* or committed: no order is created without it, and neither the release   *)
(* of an orphan nor another late message takes it away (README.md:385).    *)
(***************************************************************************)
LiveOrderHasStock ==
  \A o \in Live \ expired : status[o] \in {"held", "committed"}

(***************************************************************************)
(* The orders that were placed, not cancelled and did not expire never ask *)
(* for more than the stock there was at first.                             *)
(***************************************************************************)
NoOverpromise ==
  \A p \in Products : Cardinality(UnitsOf(Live \ expired, p)) <= InitialStock[p]

(***************************************************************************)
(* Each outcome of a reservation has its cause: stock leaves for an order  *)
(* that was confirmed, and returns from one that was cancelled, expired or *)
(* never came to be.                                                       *)
(***************************************************************************)
OutcomeHasCause ==
  \A o \in Orders :
    /\ status[o] = "committed" => row[o]["confirm"] # "none"
    /\ status[o] = "released"  =>
         \/ order[o] = "cancelled"
         \/ o \in expired
         \/ stage[o] = "failed"

(***************************************************************************)
(* A finalize event marked sent settled its reservation, whatever arrived  *)
(* before it: nothing is left held by an order that was heard of.          *)
(***************************************************************************)
SentRowSettles ==
  \A o \in Orders, k \in Finalizes : row[o][k] = "sent" => status[o] \in Terminal

(***************************************************************************)
(* README.md:387-388: when the order is confirmed, its reservation becomes *)
(* committed and the stock is taken.                                       *)
(***************************************************************************)
ConfirmCommits ==
  \A o \in Orders : row[o]["confirm"] = "sent" /\ order[o] # "cancelled" =>
    status[o] = "committed"

(***************************************************************************)
(* README.md:390-391: when the order is cancelled, its reservation becomes *)
(* released and what it reserved is free again.                            *)
(***************************************************************************)
CancelReleases ==
  \A o \in Orders : row[o]["cancel"] = "sent" => status[o] = "released"
=============================================================================
