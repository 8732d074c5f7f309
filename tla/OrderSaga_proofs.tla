-------------------------- MODULE OrderSaga_proofs --------------------------
(***************************************************************************)
(* What orders and inventory agree on, for any orders, products and stock: *)
(* an order that lives within its TTL has its stock, each outcome of a     *)
(* reservation has its cause, and a finalize event marked sent settled it. *)
(***************************************************************************)
EXTENDS OrderSaga, StockLedger_proofs

SagaTypes ==
  /\ status \in [Orders -> Statuses]
  /\ expired \subseteq Orders
  /\ stage \in [Orders -> Stages]
  /\ order \in [Orders -> OrderStatuses]
  /\ row \in [Orders -> [Finalizes -> Rows]]
  /\ net \subseteq Messages

\* What is on its way to inventory, or went there, tells how far the order is.
RequestsHaveCause ==
  \A o \in Orders :
    /\ Msg(o, "reserve") \in net => status[o] = "none" /\ stage[o] # "new"
    /\ Msg(o, "orphan") \in net  => stage[o] = "failed"
    /\ \A k \in Finalizes : Msg(o, k) \in net => row[o][k] # "none"
    /\ row[o]["confirm"] # "none" =>
         order[o] \in {"confirmed", "shipped", "delivered", "cancelled"}
    /\ row[o]["cancel"] # "none" => order[o] = "cancelled"

\* An order and its reservation advance together.
StageMatches ==
  \A o \in Orders :
    /\ stage[o] = "new" => status[o] = "none"
    /\ order[o] # "none" => stage[o] = "placed"
    /\ stage[o] \in {"reserved", "placed"} => status[o] # "none"
    /\ stage[o] = "reserved" /\ o \notin expired => status[o] = "held"

Inv ==
  /\ SagaTypes
  /\ RequestsHaveCause
  /\ StageMatches
  /\ LiveOrderHasStock
  /\ OutcomeHasCause
  /\ SentRowSettles

\* Each kind of message is a message of its own.
LEMMA MessagesDiffer ==
  ASSUME NEW o, NEW q, NEW k, NEW l, Msg(o, k) = Msg(q, l)
  PROVE  o = q /\ k = l
<1>1. Msg(o, k).order = Msg(q, l).order /\ Msg(o, k).kind = Msg(q, l).kind
  OBVIOUS
<1> QED
  BY <1>1 DEF Msg

\* updateStatus moves an order that exists, and never one that is at its end.
LEMMA Transitions ==
  ASSUME NEW from \in OrderStatuses, NEW to \in ValidTransitions[from]
  PROVE  /\ from \in {"pending", "confirmed", "shipped"}
         /\ to \in {"confirmed", "shipped", "delivered", "cancelled"}
         /\ to = "confirmed" => from = "pending"
BY DEF OrderStatuses, ValidTransitions

THEOREM InitInv == Init => Inv
BY DEF Init, LedgerInit, Inv, SagaTypes, RequestsHaveCause, StageMatches,
       LiveOrderHasStock, Live, OutcomeHasCause, SentRowSettles, Statuses,
       Stages, OrderStatuses, Rows, Finalizes

-----------------------------------------------------------------------------
(* createOrder *)

LEMMA SendReserveInv ==
  ASSUME Inv, NEW o \in Orders, SendReserve(o) PROVE Inv'
<1> USE DEF Inv
<1>1. /\ stage' = [stage EXCEPT ![o] = "reserving"]
      /\ net' = net \union {Msg(o, "reserve")}
      /\ UNCHANGED <<order, row, status, expired>>
      /\ stage[o] = "new"
  BY DEF SendReserve, GoTo, ledgerVars
<1>2. Msg(o, "reserve") \in Messages
  BY DEF Msg, Messages, Kinds
<1>3. SagaTypes'
  BY <1>1, <1>2 DEF SagaTypes, Stages
<1>4. StageMatches'
  BY <1>1 DEF StageMatches, SagaTypes
<1>5. ASSUME NEW q \in Orders, NEW k \in Kinds, Msg(q, k) \in net', Msg(q, k) \notin net
      PROVE  q = o /\ k = "reserve"
  BY <1>1, <1>5, MessagesDiffer
<1>6. RequestsHaveCause'
  BY <1>1, <1>5 DEF RequestsHaveCause, StageMatches, SagaTypes, Kinds, Finalizes
<1>7. OutcomeHasCause'
  BY <1>1 DEF OutcomeHasCause, SagaTypes
<1> QED
  BY <1>1, <1>3, <1>4, <1>6, <1>7 DEF LiveOrderHasStock, Live, SentRowSettles

LEMMA StageOnlyInv ==
  ASSUME Inv, NEW o \in Orders, CircuitOpen(o) \/ CreateFails(o)
  PROVE  Inv'
<1> USE DEF Inv
<1>1. PICK s \in {"refused", "failed"} :
         /\ stage' = [stage EXCEPT ![o] = s]
         /\ s = "refused" => stage[o] = "new"
         /\ s = "failed" => stage[o] \in {"reserving", "reserved"}
  BY DEF CircuitOpen, CreateFails, GoTo
<1>2. UNCHANGED <<order, row, net, status, expired>>
  BY DEF CircuitOpen, CreateFails, ledgerVars
<1>3. SagaTypes'
  BY <1>1, <1>2 DEF SagaTypes, Stages
<1>4. StageMatches'
  BY <1>1, <1>2 DEF StageMatches, SagaTypes
<1>5. RequestsHaveCause'
  BY <1>1, <1>2 DEF RequestsHaveCause, SagaTypes
<1>6. OutcomeHasCause'
  BY <1>1, <1>2 DEF OutcomeHasCause, SagaTypes
<1> QED
  BY <1>2, <1>3, <1>4, <1>5, <1>6 DEF LiveOrderHasStock, Live, SentRowSettles

LEMMA ReserveFailsInv ==
  ASSUME Inv, NEW o \in Orders, ReserveFails(o) PROVE Inv'
<1> USE DEF Inv
<1>1. /\ stage' = [stage EXCEPT ![o] = "failed"]
      /\ net' = net \union {Msg(o, "orphan")}
      /\ UNCHANGED <<order, row, status, expired>>
      /\ stage[o] = "reserving"
  BY DEF ReserveFails, GoTo, ledgerVars
<1>2. Msg(o, "orphan") \in Messages
  BY DEF Msg, Messages, Kinds
<1>3. SagaTypes'
  BY <1>1, <1>2 DEF SagaTypes, Stages
<1>4. StageMatches'
  BY <1>1 DEF StageMatches, SagaTypes
<1>5. ASSUME NEW q \in Orders, NEW k \in Kinds, Msg(q, k) \in net', Msg(q, k) \notin net
      PROVE  q = o /\ k = "orphan"
  BY <1>1, <1>5, MessagesDiffer
<1>6. RequestsHaveCause'
  BY <1>1, <1>5 DEF RequestsHaveCause, SagaTypes, Kinds, Finalizes
<1>7. OutcomeHasCause'
  BY <1>1 DEF OutcomeHasCause, SagaTypes
<1> QED
  BY <1>1, <1>3, <1>4, <1>6, <1>7 DEF LiveOrderHasStock, Live, SentRowSettles

LEMMA CreateInv ==
  ASSUME Inv, NEW o \in Orders, Create(o) PROVE Inv'
<1> USE DEF Inv
<1>1. /\ stage' = [stage EXCEPT ![o] = "placed"]
      /\ order' = [order EXCEPT ![o] = "pending"]
      /\ UNCHANGED <<row, net, status, expired>>
      /\ stage[o] = "reserved"
  BY DEF Create, GoTo, ledgerVars
<1>2. order[o] = "none"
  BY <1>1 DEF StageMatches
<1>3. SagaTypes'
  BY <1>1 DEF SagaTypes, Stages, OrderStatuses
<1>4. StageMatches'
  BY <1>1 DEF StageMatches, SagaTypes
<1>5. RequestsHaveCause'
  BY <1>1, <1>2 DEF RequestsHaveCause, SagaTypes
<1>6. LiveOrderHasStock'
  BY <1>1 DEF LiveOrderHasStock, Live, StageMatches, SagaTypes
<1>7. OutcomeHasCause'
  BY <1>1, <1>2 DEF OutcomeHasCause, SagaTypes
<1> QED
  BY <1>1, <1>3, <1>4, <1>5, <1>6, <1>7 DEF SentRowSettles

-----------------------------------------------------------------------------
(* updateStatus and the outbox *)

LEMMA UpdateStatusInv ==
  ASSUME Inv, NEW o \in Orders, NEW to \in OrderStatuses, UpdateStatus(o, to)
  PROVE  Inv'
<1> USE DEF Inv
<1>1. /\ to \in ValidTransitions[order[o]]
      /\ order' = [order EXCEPT ![o] = to]
      /\ UNCHANGED <<stage, net, status, expired>>
  BY DEF UpdateStatus, TransitionStatus, ledgerVars
<1>2. /\ order[o] \in {"pending", "confirmed", "shipped"}
      /\ to \in {"confirmed", "shipped", "delivered", "cancelled"}
      /\ to = "confirmed" => order[o] = "pending"
  BY <1>1, Transitions DEF SagaTypes
<1>3. /\ row' \in [Orders -> [Finalizes -> Rows]]
      /\ \A q \in Orders : q # o => row'[q] = row[q]
      /\ \A k \in Finalizes : row[o][k] # "none" => row'[o][k] # "none"
      /\ \A k \in Finalizes : row'[o][k] # "none" /\ row[o][k] = "none" => k \in RequestOf(to)
      /\ \A k \in Finalizes : row'[o][k] = "sent" => row[o][k] = "sent"
  BY DEF UpdateStatus, TransitionStatus, SagaTypes, Rows
<1>4. /\ "confirm" \in RequestOf(to) => to = "confirmed"
      /\ "cancel" \in RequestOf(to) => to = "cancelled"
  BY <1>2 DEF RequestOf
<1>5. SagaTypes'
  BY <1>1, <1>3 DEF SagaTypes
<1>6. StageMatches'
  BY <1>1, <1>2 DEF StageMatches, SagaTypes
<1>7. RequestsHaveCause'
  BY <1>1, <1>2, <1>3, <1>4 DEF RequestsHaveCause, SagaTypes, Finalizes
<1>8. LiveOrderHasStock'
  BY <1>1, <1>2 DEF LiveOrderHasStock, Live, SagaTypes
<1>9. OutcomeHasCause'
  BY <1>1, <1>2, <1>3 DEF OutcomeHasCause, SagaTypes, Finalizes
<1> QED
  BY <1>1, <1>3, <1>5, <1>6, <1>7, <1>8, <1>9 DEF SentRowSettles

LEMMA SendRowInv ==
  ASSUME Inv, NEW o \in Orders, NEW k \in Finalizes, SendRow(o, k)
  PROVE  Inv'
<1> USE DEF Inv
<1>1. /\ row[o][k] = "pending"
      /\ net' = net \union {Msg(o, k)}
      /\ UNCHANGED <<stage, order, row, status, expired>>
  BY DEF SendRow, ledgerVars
<1>2. Msg(o, k) \in Messages
  BY DEF Msg, Messages, Kinds
<1>3. ASSUME NEW q \in Orders, NEW l \in Kinds, Msg(q, l) \in net', Msg(q, l) \notin net
      PROVE  q = o /\ l = k
  BY <1>1, <1>3, MessagesDiffer
<1>4. SagaTypes'
  BY <1>1, <1>2 DEF SagaTypes
<1>5. RequestsHaveCause'
  BY <1>1, <1>3 DEF RequestsHaveCause, Kinds, Finalizes
<1> QED
  BY <1>1, <1>4, <1>5 DEF StageMatches, LiveOrderHasStock, Live, OutcomeHasCause, SentRowSettles

LEMMA GiveUpRowInv ==
  ASSUME Inv, NEW o \in Orders, NEW k \in Finalizes, GiveUpRow(o, k)
  PROVE  Inv'
<1> USE DEF Inv
<1>1. /\ row[o][k] = "pending"
      /\ row' = [row EXCEPT ![o][k] = "failed"]
      /\ UNCHANGED <<stage, order, net, status, expired>>
  BY DEF GiveUpRow, ledgerVars
<1>2. /\ row' \in [Orders -> [Finalizes -> Rows]]
      /\ \A q \in Orders, l \in Finalizes :
           (row'[q][l] = "none" <=> row[q][l] = "none")
             /\ (row'[q][l] = "sent" => row[q][l] = "sent")
  BY <1>1 DEF SagaTypes, Rows
<1>3. SagaTypes'
  BY <1>1, <1>2 DEF SagaTypes
<1> QED
  BY <1>1, <1>2, <1>3 DEF StageMatches, RequestsHaveCause, LiveOrderHasStock, Live,
       OutcomeHasCause, SentRowSettles, Finalizes

LEMMA LoseInv ==
  ASSUME Inv, NEW m, Lose(m) PROVE Inv'
<1>1. net' \subseteq net /\ UNCHANGED <<stage, order, row, status, expired>>
  BY DEF Lose, ledgerVars
<1> QED
  BY <1>1 DEF Inv, SagaTypes, RequestsHaveCause, StageMatches, LiveOrderHasStock,
       Live, OutcomeHasCause, SentRowSettles

-----------------------------------------------------------------------------
(* The inventory service *)

LEMMA HandleReserveInv ==
  ASSUME Inv, NEW o \in Orders, HandleReserve(o) PROVE Inv'
<1> USE DEF Inv
<1>1. /\ Msg(o, "reserve") \in net
      /\ net' = net \ {Msg(o, "reserve")}
      /\ status[o] = "none"
      /\ status' = [status EXCEPT ![o] = "held"]
      /\ UNCHANGED <<order, row, expired>>
  BY DEF HandleReserve, Reserve
<1>2. \/ UNCHANGED stage
      \/ stage[o] = "reserving" /\ stage' = [stage EXCEPT ![o] = "reserved"]
  BY DEF HandleReserve, GoTo
<1>3. SagaTypes'
  BY <1>1, <1>2 DEF SagaTypes, Stages, Statuses
<1>5. Msg(o, "reserve") \notin net'
  BY <1>1
<1>6. RequestsHaveCause'
  BY <1>1, <1>2, <1>5 DEF RequestsHaveCause, SagaTypes
<1>7. StageMatches'
  BY <1>1, <1>2 DEF StageMatches, SagaTypes, RequestsHaveCause
<1>8. LiveOrderHasStock'
  BY <1>1 DEF LiveOrderHasStock, Live, SagaTypes
<1>9. OutcomeHasCause'
  BY <1>1, <1>2 DEF OutcomeHasCause, SagaTypes
<1>10. SentRowSettles'
  BY <1>1 DEF SentRowSettles, SagaTypes, Terminal
<1> QED
  BY <1>3, <1>6, <1>7, <1>8, <1>9, <1>10

LEMMA RejectReserveInv ==
  ASSUME Inv, NEW o \in Orders, RejectReserve(o) PROVE Inv'
<1> USE DEF Inv
<1>1. /\ net' \subseteq net
      /\ UNCHANGED <<order, row, status, expired>>
  BY DEF RejectReserve, ledgerVars
<1>2. \/ UNCHANGED stage
      \/ stage[o] = "reserving" /\ stage' = [stage EXCEPT ![o] = "refused"]
  BY DEF RejectReserve, GoTo
<1>3. SagaTypes'
  BY <1>1, <1>2 DEF SagaTypes, Stages
<1>4. StageMatches'
  BY <1>1, <1>2 DEF StageMatches, SagaTypes
<1>5. RequestsHaveCause'
  BY <1>1, <1>2 DEF RequestsHaveCause, SagaTypes
<1>6. OutcomeHasCause'
  BY <1>1, <1>2 DEF OutcomeHasCause, SagaTypes
<1> QED
  BY <1>1, <1>3, <1>4, <1>5, <1>6 DEF LiveOrderHasStock, Live, SentRowSettles

\* A finalize of a reservation that is held, which has its cause.
LEMMA FinalizeKeeps ==
  ASSUME Inv, NEW o \in Orders, NEW action \in Actions, Finalize(o, action),
         net' \subseteq net, UNCHANGED <<stage, order>>,
         row' \in [Orders -> [Finalizes -> Rows]],
         \A q \in Orders, k \in Finalizes : row'[q][k] = "none" <=> row[q][k] = "none",
         \A q \in Orders, k \in Finalizes :
           row'[q][k] = "sent" => row[q][k] = "sent" \/ q = o,
         action = "commit" => row[o]["confirm"] # "none",
         action = "release" =>
           order[o] = "cancelled" \/ o \in expired \/ stage[o] = "failed"
  PROVE  Inv'
<1> USE DEF Inv
<1>1. /\ status[o] = "held"
      /\ status' = [status EXCEPT ![o] = IF action = "commit" THEN "committed" ELSE "released"]
      /\ UNCHANGED expired
  BY DEF Finalize
<1>2. status'[o] \in Terminal /\ \A q \in Orders : q # o => status'[q] = status[q]
  BY <1>1 DEF SagaTypes, Terminal
<1>3. status'[o] = (IF action = "commit" THEN "committed" ELSE "released")
  BY <1>1 DEF SagaTypes
<1>4. SagaTypes'
  BY <1>1 DEF SagaTypes, Statuses
<1>5. RequestsHaveCause'
  BY <1>1, <1>2 DEF RequestsHaveCause, Finalizes
<1>6. stage[o] # "reserved" \/ o \in expired
  <2>1. row[o]["confirm"] # "none" => order[o] # "none"
    BY DEF RequestsHaveCause
  <2> QED
    BY <2>1 DEF StageMatches, Actions
<1>7. StageMatches'
  BY <1>1, <1>2, <1>6 DEF StageMatches, Terminal
<1>8. LiveOrderHasStock'
  <2>1. ASSUME o \in Live \ expired PROVE action = "commit"
    BY <2>1 DEF Live, StageMatches, Actions
  <2> QED
    BY <1>1, <1>2, <1>3, <2>1 DEF LiveOrderHasStock, Live
<1>9. OutcomeHasCause'
  BY <1>1, <1>2, <1>3 DEF OutcomeHasCause, Actions, Finalizes
<1>10. SentRowSettles'
  BY <1>1, <1>2 DEF SentRowSettles
<1> QED
  BY <1>4, <1>5, <1>7, <1>8, <1>9, <1>10

LEMMA HandleFinalizeInv ==
  ASSUME Inv, NEW o \in Orders, NEW kind \in Kinds \ {"reserve"},
         HandleFinalize(o, kind)
  PROVE  Inv'
<1> USE DEF Inv
<1>1. /\ Msg(o, kind) \in net
      /\ net' \subseteq net
      /\ UNCHANGED <<stage, order>>
      /\ FinalizeIfHeld(o, ActionOf(kind))
  BY DEF HandleFinalize
<1>2. /\ row' \in [Orders -> [Finalizes -> Rows]]
      /\ \A q \in Orders, k \in Finalizes : row'[q][k] = "none" <=> row[q][k] = "none"
      /\ \A q \in Orders, k \in Finalizes :
           row'[q][k] = "sent" => row[q][k] = "sent" \/ (q = o /\ k = kind)
  <2>1. CASE UNCHANGED row
    BY <2>1 DEF SagaTypes
  <2>2. CASE /\ kind \in Finalizes /\ row[o][kind] = "pending"
             /\ row' = [row EXCEPT ![o][kind] = "sent"]
    BY <2>2 DEF SagaTypes, Rows
  <2> QED
    BY <2>1, <2>2 DEF HandleFinalize
<1>3. /\ ActionOf(kind) \in Actions
      /\ ActionOf(kind) = "commit" => kind = "confirm"
      /\ kind # "confirm" => kind \in {"cancel", "orphan"}
  BY DEF ActionOf, Actions, Kinds, Finalizes
<1>4. /\ kind = "confirm" => row[o]["confirm"] # "none"
      /\ kind = "cancel"  => row[o]["cancel"] # "none" /\ order[o] = "cancelled"
      /\ kind = "orphan"  => stage[o] = "failed"
  BY <1>1 DEF RequestsHaveCause, Finalizes
<1>5. CASE Finalize(o, ActionOf(kind))
  <2>1. ActionOf(kind) = "commit" => row[o]["confirm"] # "none"
    BY <1>3, <1>4
  <2>2. ActionOf(kind) = "release" => order[o] = "cancelled" \/ stage[o] = "failed"
    BY <1>3, <1>4 DEF ActionOf
  <2> QED
    BY <1>1, <1>2, <1>3, <1>5, <2>1, <2>2, FinalizeKeeps
<1>6. CASE status[o] # "held" /\ UNCHANGED ledgerVars
  <2>1. UNCHANGED <<status, expired>>
    BY <1>6 DEF ledgerVars
  <2>2. kind \in Finalizes => status[o] \in Terminal
    <3>1. kind \in Finalizes => order[o] # "none"
      BY <1>4 DEF RequestsHaveCause, Finalizes
    <3> QED
      BY <1>6, <3>1 DEF StageMatches, SagaTypes, Statuses, Terminal
  <2>3. SagaTypes'
    BY <1>1, <1>2, <2>1 DEF SagaTypes
  <2>4. RequestsHaveCause'
    BY <1>1, <1>2, <2>1 DEF RequestsHaveCause, Finalizes
  <2>5. OutcomeHasCause'
    BY <1>1, <1>2, <2>1 DEF OutcomeHasCause, Finalizes
  <2>6. SentRowSettles'
    BY <1>2, <2>1, <2>2 DEF SentRowSettles
  <2> QED
    BY <1>1, <2>1, <2>3, <2>4, <2>5, <2>6 DEF StageMatches, LiveOrderHasStock, Live
<1> QED
  BY <1>1, <1>5, <1>6 DEF FinalizeIfHeld

LEMMA ReapInv ==
  ASSUME Inv, NEW o \in Orders, Reap(o) PROVE Inv'
<1>1. /\ o \in expired /\ Finalize(o, "release")
      /\ UNCHANGED <<stage, order, row, net>>
  BY DEF Reap, sagaVars
<1>2. row' \in [Orders -> [Finalizes -> Rows]]
  BY <1>1 DEF Inv, SagaTypes
<1>3. "release" \in Actions /\ "release" # "commit"
  BY DEF Actions
<1> QED
  BY <1>1, <1>2, <1>3, FinalizeKeeps

LEMMA TtlPassesInv ==
  ASSUME Inv, NEW o \in Orders, TtlPasses(o) PROVE Inv'
<1>1. /\ expired' = expired \union {o}
      /\ UNCHANGED <<stage, order, row, net, status>>
  BY DEF TtlPasses, Expire, sagaVars
<1> QED
  BY <1>1 DEF Inv, SagaTypes, RequestsHaveCause, StageMatches, LiveOrderHasStock,
       Live, OutcomeHasCause, SentRowSettles

-----------------------------------------------------------------------------
THEOREM NextInv == Inv /\ [Next]_vars => Inv'
<1> SUFFICES ASSUME Inv, [Next]_vars PROVE Inv'
  OBVIOUS
<1>1. CASE UNCHANGED vars
  BY <1>1 DEF vars, sagaVars, ledgerVars, Inv, SagaTypes, RequestsHaveCause,
       StageMatches, LiveOrderHasStock, Live, OutcomeHasCause, SentRowSettles
<1>2. ASSUME NEW o \in Orders,
             SendReserve(o) \/ CircuitOpen(o) \/ ReserveFails(o) \/ Create(o) \/ CreateFails(o)
      PROVE  Inv'
  BY <1>2, SendReserveInv, StageOnlyInv, ReserveFailsInv, CreateInv
<1>3. ASSUME NEW o \in Orders, NEW to \in OrderStatuses, UpdateStatus(o, to)
      PROVE  Inv'
  BY <1>3, UpdateStatusInv
<1>4. ASSUME NEW o \in Orders, NEW k \in Finalizes, SendRow(o, k) \/ GiveUpRow(o, k)
      PROVE  Inv'
  BY <1>4, SendRowInv, GiveUpRowInv
<1>5. ASSUME NEW o \in Orders, NEW kind \in Kinds, Lose(Msg(o, kind))
      PROVE  Inv'
  BY <1>5, LoseInv
<1>6. ASSUME NEW o \in Orders, HandleReserve(o) \/ RejectReserve(o)
      PROVE  Inv'
  BY <1>6, HandleReserveInv, RejectReserveInv
<1>7. ASSUME NEW o \in Orders, NEW kind \in Kinds \ {"reserve"}, HandleFinalize(o, kind)
      PROVE  Inv'
  BY <1>7, HandleFinalizeInv
<1>8. ASSUME NEW o \in Orders, Reap(o) \/ TtlPasses(o)
      PROVE  Inv'
  BY <1>8, ReapInv, TtlPassesInv
<1> QED
  BY <1>1, <1>2, <1>3, <1>4, <1>5, <1>6, <1>7, <1>8 DEF Next

THEOREM SagaInvariant == Spec => []Inv
  BY InitInv, NextInv, PTL DEF Spec

(***************************************************************************)
(* No order that lives within its TTL is without its stock.                *)
(***************************************************************************)
THEOREM SagaLiveOrderHasStock == Spec => []LiveOrderHasStock
<1>1. Inv => LiveOrderHasStock
  BY DEF Inv
<1> QED
  BY <1>1, SagaInvariant, PTL

(***************************************************************************)
(* Stock leaves for confirmed orders only, and returns only from orders    *)
(* that were cancelled, expired or never placed.                           *)
(***************************************************************************)
THEOREM SagaOutcomeHasCause == Spec => []OutcomeHasCause
<1>1. Inv => OutcomeHasCause
  BY DEF Inv
<1> QED
  BY <1>1, SagaInvariant, PTL

(***************************************************************************)
(* A finalize event marked sent has settled its reservation.               *)
(***************************************************************************)
THEOREM SagaSentRowSettles == Spec => []SentRowSettles
<1>1. Inv => SentRowSettles
  BY DEF Inv
<1> QED
  BY <1>1, SagaInvariant, PTL

-----------------------------------------------------------------------------
\* To inventory, the orders are any clients of the ledger.
LEMMA SagaStepsLedger == [Next]_vars => [LedgerNext]_ledgerVars
<1> SUFFICES ASSUME Next, ~ UNCHANGED ledgerVars PROVE LedgerNext
  BY DEF vars, ledgerVars
<1>1. ASSUME NEW o \in Orders,
             \/ SendReserve(o) \/ CircuitOpen(o) \/ ReserveFails(o)
             \/ Create(o) \/ CreateFails(o) \/ RejectReserve(o)
             \/ \E to \in OrderStatuses : UpdateStatus(o, to)
             \/ \E k \in Finalizes : SendRow(o, k) \/ GiveUpRow(o, k)
             \/ \E kind \in Kinds : Lose(Msg(o, kind))
      PROVE  LedgerNext
  BY <1>1 DEF SendReserve, CircuitOpen, ReserveFails, Create, CreateFails,
       RejectReserve, UpdateStatus, TransitionStatus, SendRow, GiveUpRow, Lose
<1>2. ASSUME NEW o \in Orders, HandleReserve(o) \/ TtlPasses(o)
      PROVE  LedgerNext
  BY <1>2 DEF HandleReserve, TtlPasses, LedgerNext
<1>3. ASSUME NEW o \in Orders, NEW kind \in Kinds, HandleFinalize(o, kind)
      PROVE  LedgerNext
  <2>1. ActionOf(kind) \in Actions
    BY DEF ActionOf, Actions
  <2>2. Finalize(o, ActionOf(kind))
    BY <1>3 DEF HandleFinalize, FinalizeIfHeld
  <2> QED
    BY <2>1, <2>2 DEF LedgerNext
<1>4. ASSUME NEW o \in Orders, Reap(o) PROVE LedgerNext
  BY <1>4 DEF Reap, LedgerNext, Actions
<1> QED
  BY <1>1, <1>2, <1>3, <1>4 DEF Next

(***************************************************************************)
(* Whatever holds of the ledger holds in the whole system.                 *)
(***************************************************************************)
THEOREM SagaImplementsLedger == Spec => LedgerSpec
<1>1. Init => LedgerInit
  BY DEF Init
<1> QED
  BY <1>1, SagaStepsLedger, PTL DEF Spec, LedgerSpec

(***************************************************************************)
(* Every variable of the two services and of the network keeps its type.   *)
(***************************************************************************)
THEOREM SagaTypeCorrect == Spec => []TypeOK
<1>1. LedgerInv /\ Inv => TypeOK
  BY DEF LedgerInv, Inv, SagaTypes, TypeOK
<1> QED
  BY <1>1, SagaInvariant, SagaImplementsLedger, LedgerInvariant, PTL

\* The units of these orders are among those held and those committed.
LEMMA PromisedUnits ==
  ASSUME LedgerInv, LiveOrderHasStock, NEW p \in Products
  PROVE  Cardinality(UnitsOf(Live \ expired, p)) <= InitialStock[p]
<1> DEFINE A == UnitsOf(Held, p)
           B == UnitsOf(Committed, p)
           L == UnitsOf(Live \ expired, p)
<1>1. IsFiniteSet(A) /\ IsFiniteSet(B)
  BY DEF LedgerInv, UnitsFinite
<1>2. L \subseteq A \union B
  BY DEF LiveOrderHasStock, Live, UnitsOf, Held, Committed
<1>3. /\ IsFiniteSet(A \union B)
      /\ Cardinality(A \union B) = Cardinality(A) + Cardinality(B) - Cardinality(A \intersect B)
  BY <1>1, FS_Union
<1>4. IsFiniteSet(A \intersect B)
  BY <1>1, FS_Subset
<1>5. IsFiniteSet(L) /\ Cardinality(L) <= Cardinality(A \union B)
  BY <1>2, <1>3, FS_Subset
<1>6. /\ Cardinality(A) \in Nat /\ Cardinality(B) \in Nat
      /\ Cardinality(A \intersect B) \in Nat /\ Cardinality(A \union B) \in Nat
      /\ Cardinality(L) \in Nat
  BY <1>1, <1>3, <1>4, <1>5, FS_CardinalityType
<1>7. /\ Cardinality(A) <= quantity[p] /\ quantity[p] \in Nat
      /\ quantity[p] + Cardinality(B) = InitialStock[p]
  BY DEF LedgerInv, LedgerTypeOK, ReservedMatchesHeld, ReservedBounds, StockConserved
<1> HIDE DEF A, B, L
<1>8. Cardinality(L) <= InitialStock[p]
  BY <1>3, <1>5, <1>6, <1>7
<1> QED
  BY <1>8 DEF L

(***************************************************************************)
(* The orders placed, not cancelled and not expired never ask for more     *)
(* than the stock there was: no oversell across the two services.          *)
(***************************************************************************)
THEOREM SagaNoOverpromise == Spec => []NoOverpromise
<1>1. LedgerInv /\ Inv => NoOverpromise
  BY PromisedUnits DEF Inv, NoOverpromise
<1> QED
  BY <1>1, SagaInvariant, SagaImplementsLedger, LedgerInvariant, PTL
=============================================================================
