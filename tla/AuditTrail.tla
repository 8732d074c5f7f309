------------------------------ MODULE AuditTrail ------------------------------
(***************************************************************************)
(* The audit service beside the saga of orders and inventory, and the      *)
(* reaper as it runs: a batch of expired reservations is read, then they   *)
(* are released one by one.                                                *)
(*                                                                         *)
(* Two kinds of events reach the trail.  A change of an order is an outbox *)
(* row of its own, written with the change and delivered at least once.    *)
(* What inventory did to a reservation is emitted and forgotten: it may    *)
(* never arrive.  Each event has an eventId, the unique key of the log: an *)
(* entry stands for its eventId, so storing it again changes nothing.      *)
(***************************************************************************)
EXTENDS OrderSaga

VARIABLES
  told,      \* the status_changed rows of each order in the outbox
  emitted,   \* the events inventory sent; never taken out, so always late
  trail,     \* audit_logs
  claimed    \* what reapers read as held and expired and did not release yet

auditVars == <<told, emitted, trail, claimed>>
trailVars == <<vars, auditVars>>

\* A change of an order, its fromStatus and its toStatus, and its creation.
Changes == {<<"none", "pending">>} \union
           {c \in OrderStatuses \X OrderStatuses : c[2] \in ValidTransitions[c[1]]}

\* What made inventory write decides the eventId and the type of its event.
Causes == Kinds \union {"reaper"}
TypeOfCause(cause) ==
  CASE cause = "reserve" -> "reserved" [] cause = "confirm" -> "committed" [] OTHER -> "released"

ChangeEntry(o, change) == [order |-> o, change |-> change]
StockEntry(o, cause)   == [order |-> o, cause |-> cause, type |-> TypeOfCause(cause)]

ChangeEntries == {ChangeEntry(o, c) : o \in Orders, c \in Changes}
StockEntries  == {StockEntry(o, c) : o \in Orders, c \in Causes}

TrailInit ==
  /\ Init
  /\ told = [o \in Orders |-> [c \in Changes |-> "none"]]
  /\ emitted = {}
  /\ trail = {}
  /\ claimed = {}

-----------------------------------------------------------------------------
(* The orders service *)

\* Mutant: fromStatus is read from the order after it was changed.
TellAfterChange(o, to) == told' = [told EXCEPT ![o][<<to, to>>] = "pending"]
\* The status_changed event is inserted with the change it tells of.
Tell(o, to) == told' = [told EXCEPT ![o][<<order[o], to>>] = "pending"]

CreateAndTell(o) ==
  /\ Create(o)
  /\ Tell(o, "pending")
  /\ UNCHANGED <<emitted, trail, claimed>>

UpdateAndTell(o, to) ==
  /\ UpdateStatus(o, to)
  /\ Tell(o, to)
  /\ UNCHANGED <<emitted, trail, claimed>>

\* What the other steps of the orders service and the network do is not told.
Untold(o) ==
  /\ \/ SendReserve(o) \/ CircuitOpen(o) \/ ReserveFails(o) \/ CreateFails(o)
     \/ \E k \in Finalizes : SendRow(o, k) \/ GiveUpRow(o, k)
     \/ \E kind \in Kinds : Lose(Msg(o, kind))
  /\ UNCHANGED auditVars

GiveUpChange(o, c) ==
  /\ told[o][c] = "pending"
  /\ told' = [told EXCEPT ![o][c] = "failed"]
  /\ UNCHANGED <<vars, emitted, trail, claimed>>

-----------------------------------------------------------------------------
(* The inventory service *)

\* Mutant: also a finalize that found no reservation is announced.
EmitUnknown(o, cause) == emitted' = emitted \union {StockEntry(o, cause)}
\* emitAuditEvent, after the transaction; finalize answers null, and nothing
\* is emitted, only if there is no reservation.
Emit(o, cause) ==
  emitted' = IF cause = "reserve" \/ status[o] # "none"
             THEN emitted \union {StockEntry(o, cause)} ELSE emitted

ReserveAndEmit(o) ==
  /\ HandleReserve(o)
  /\ Emit(o, "reserve")
  /\ UNCHANGED <<told, trail, claimed>>

FinalizeAndEmit(o, kind) ==
  /\ HandleFinalize(o, kind)
  /\ Emit(o, kind)
  /\ UNCHANGED <<told, trail, claimed>>

Quiet(o) == (RejectReserve(o) \/ TtlPasses(o)) /\ UNCHANGED auditVars

\* claimExpired: no lock outlives the SELECT.
ReapClaim(o) ==
  /\ status[o] = "held" /\ o \in expired
  /\ claimed' = claimed \union {o}
  /\ UNCHANGED <<vars, told, emitted, trail>>

\* Mutant: the reaper relies on the status it read with its batch.
ReapReadStatus(o) ==
  /\ o \in claimed
  /\ FinalizeAnyStatus(o, "release")
  /\ Emit(o, "reaper")
  /\ claimed' \in {claimed, claimed \ {o}}
  /\ UNCHANGED <<sagaVars, told, trail>>

\* InventoryService.release, for a reservation that may be settled by now;
\* the reaper of another replica may still hold it in its batch.
ReapRelease(o) ==
  /\ o \in claimed
  /\ FinalizeIfHeld(o, "release")
  /\ Emit(o, "reaper")
  /\ claimed' \in {claimed, claimed \ {o}}
  /\ UNCHANGED <<sagaVars, told, trail>>

\* The release fails, or the process dies: a later tick reads it again.
ReapFails(o) ==
  /\ o \in claimed
  /\ claimed' = claimed \ {o}
  /\ UNCHANGED <<vars, told, emitted, trail>>

-----------------------------------------------------------------------------
(* The audit service *)

\* createLog and createInventoryLog: a known eventId is a successful no-op.
Log(entry) == trail' = trail \union {entry}

\* A request may be late, even for a row given up; its answer may be lost.
HandleOrderStatusChanged(o, c) ==
  /\ told[o][c] # "none"
  /\ Log(ChangeEntry(o, c))
  /\ \/ UNCHANGED told
     \/ told[o][c] = "pending" /\ told' = [told EXCEPT ![o][c] = "sent"]
  /\ UNCHANGED <<vars, emitted, claimed>>

\* handleInventoryReserved, handleInventoryCommitted, handleInventoryReleased
HandleInventoryEvent(entry) ==
  /\ entry \in emitted
  /\ Log(entry)
  /\ UNCHANGED <<vars, told, emitted, claimed>>

TrailNext ==
  \/ \E o \in Orders :
       \/ CreateAndTell(o)
       \/ \E to \in OrderStatuses : UpdateAndTell(o, to)
       \/ Untold(o)
       \/ \E c \in Changes : GiveUpChange(o, c) \/ HandleOrderStatusChanged(o, c)
       \/ ReserveAndEmit(o)
       \/ \E kind \in Kinds \ {"reserve"} : FinalizeAndEmit(o, kind)
       \/ Quiet(o)
       \/ ReapClaim(o) \/ ReapRelease(o) \/ ReapFails(o)
  \/ \E entry \in emitted : HandleInventoryEvent(entry)

TrailSpec == TrailInit /\ [][TrailNext]_trailVars

-----------------------------------------------------------------------------
TrailTypeOK ==
  /\ TypeOK
  /\ told \in [Orders -> [Changes -> Rows]]
  /\ emitted \subseteq StockEntries
  /\ trail \subseteq ChangeEntries \union StockEntries
  /\ claimed \subseteq Orders

Logged(o)   == {c \in Changes : ChangeEntry(o, c) \in trail}
StockLog(o) == {c \in Causes : StockEntry(o, c) \in trail}
AllSent(o)  == \A c \in Changes : told[o][c] \in {"none", "sent"}

(***************************************************************************)
(* Once every status_changed row of an order is sent, however often and in *)
(* whatever order its requests arrived, the trail tells the whole life of  *)
(* the order without a gap or a fork: it starts with the creation, each    *)
(* change starts where another ended, and one ends in the order's status   *)
(* (README.md:62, audit.service.ts:19-24).                                 *)
(***************************************************************************)
TrailIsWhole ==
  \A o \in Orders : order[o] # "none" /\ AllSent(o) =>
    /\ \A c, d \in Logged(o) : c[1] = d[1] => c = d
    /\ \A c \in Logged(o) : c[1] = "none" \/ \E d \in Logged(o) : d[2] = c[1]
    /\ \E c \in Logged(o) : c[2] = order[o]

(***************************************************************************)
(* What the trail says of a reservation never runs ahead of the inventory: *)
(* a reservation it shows exists, and one it shows committed or released   *)
(* was settled, one way or the other, by a request of the cause it names.  *)
(***************************************************************************)
TrailNeverAhead ==
  \A o \in Orders :
    /\ StockLog(o) # {} => status[o] # "none"
    /\ StockLog(o) \ {"reserve"} # {} => status[o] \in Terminal
    /\ \A k \in StockLog(o) \intersect Finalizes : row[o][k] # "none"
    /\ "reaper" \in StockLog(o) => o \in expired

(***************************************************************************)
(* An orphaned reservation and an order exclude each other: the trail      *)
(* never shows one id both released for an orphan and with a life of its   *)
(* own (orders.service.ts:140-150).                                        *)
(***************************************************************************)
OrphanIsNoOrder ==
  \A o \in Orders : "orphan" \in StockLog(o) => Logged(o) = {}

(***************************************************************************)
(* The audit, and a reaper that works on a batch it read earlier, never    *)
(* change what orders and inventory do: every step is one of the saga's or *)
(* leaves the saga alone (inventory.service.ts:169-175).                   *)
(***************************************************************************)
KeepsTheSaga == Spec

(***************************************************************************)
(* The events of inventory leave a trace of each real change of state of a *)
(* reservation, of "what inventory really did"                             *)
(* (libs/shared/src/events/inventory-events.ts:12-17): one shown committed *)
(* was committed, one shown released was released.                         *)
(***************************************************************************)
TrailIsTrue ==
  \A o \in Orders : \A cause \in StockLog(o) :
    TypeOfCause(cause) \in Terminal => status[o] = TypeOfCause(cause)
=============================================================================
