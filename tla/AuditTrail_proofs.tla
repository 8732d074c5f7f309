--------------------------- MODULE AuditTrail_proofs ---------------------------
(***************************************************************************)
(* For any orders, products and stock: the audit, and a reaper that works  *)
(* on a batch it read, change nothing of what orders and inventory do; the *)
(* trail never runs ahead of them; an orphan is never an order.            *)
(*                                                                         *)
(* An event is written after what it tells of, and nothing of that is ever *)
(* undone: a settled reservation stays settled, an outbox row stays there, *)
(* a TTL stays over, an order that failed is never created.  So what was   *)
(* true of an event when it was emitted is true of its entry for ever.     *)
(*                                                                         *)
(* The changes of an order never lead back, so those told form one path,   *)
(* and that is what the trail shows once they are all sent.                *)
(***************************************************************************)
EXTENDS AuditTrail, OrderSaga_proofs

\* What inventory has done and orders has asked for when it emits an event.
StockOK(e) ==
  /\ e \in StockEntries
  /\ status[e.order] # "none"
  /\ e.cause # "reserve" => status[e.order] \in Terminal
  /\ e.cause \in Finalizes => row[e.order][e.cause] # "none"
  /\ e.cause = "orphan" => stage[e.order] = "failed"
  /\ e.cause = "reaper" => e.order \in expired

ChangeOK(e) == e \in ChangeEntries /\ order[e.order] # "none"

TrailInv ==
  /\ told \in [Orders -> [Changes -> Rows]]
  /\ \A o \in Orders, c \in Changes : told[o][c] # "none" => order[o] # "none"
  /\ \A e \in emitted : StockOK(e)
  /\ \A e \in trail : StockOK(e) \/ ChangeOK(e)
  /\ \A o \in claimed : o \in Orders /\ o \in expired /\ status[o] # "none"

\* What a step of the saga never undoes.
Onward ==
  /\ expired \subseteq expired'
  /\ \A o \in Orders :
       /\ status[o] # "none" => status'[o] # "none"
       /\ status[o] \in Terminal => status'[o] \in Terminal
       /\ order[o] # "none" => order'[o] # "none"
       /\ stage[o] = "failed" => stage'[o] = "failed"
       /\ \A k \in Finalizes : row[o][k] # "none" => row'[o][k] # "none"

-----------------------------------------------------------------------------
\* An entry names its order, and one of a reservation its cause.
LEMMA EntriesDiffer ==
  ASSUME NEW o \in Orders, NEW cause \in Causes
  PROVE  /\ StockEntry(o, cause).order = o
         /\ StockEntry(o, cause).cause = cause
         /\ StockEntry(o, cause) \notin ChangeEntries
<1>1. DOMAIN StockEntry(o, cause) = {"order", "cause", "type"}
  BY DEF StockEntry
<1>2. ASSUME NEW q \in Orders, NEW c \in Changes
      PROVE  StockEntry(o, cause) # ChangeEntry(q, c)
  <2>1. DOMAIN ChangeEntry(q, c) = {"order", "change"}
    BY DEF ChangeEntry
  <2>. QED BY <1>1, <2>1
<1>. QED BY <1>2 DEF StockEntry, ChangeEntries

LEMMA SagaOnward ==
  ASSUME Inv, [Next]_vars
  PROVE  Onward
<1> DEFINE StockOnward ==
             /\ expired \subseteq expired'
             /\ \A o \in Orders :
                  /\ status[o] # "none" => status'[o] # "none"
                  /\ status[o] \in Terminal => status'[o] \in Terminal
           OrdersOnward ==
             \A o \in Orders :
               /\ order[o] # "none" => order'[o] # "none"
               /\ stage[o] = "failed" => stage'[o] = "failed"
               /\ \A k \in Finalizes : row[o][k] # "none" => row'[o][k] # "none"
<1>1. StockOnward
  <2>1. CASE UNCHANGED ledgerVars
    BY <2>1 DEF ledgerVars
  <2>2. ASSUME NEW o \in Orders, Reserve(o)
        PROVE  StockOnward
    BY <2>2 DEF Reserve, Terminal, Inv, SagaTypes
  <2>3. ASSUME NEW o \in Orders, NEW action \in Actions, Finalize(o, action)
        PROVE  StockOnward
    BY <2>3 DEF Finalize, Terminal, Inv, SagaTypes
  <2>4. ASSUME NEW o \in Orders, Expire(o)
        PROVE  StockOnward
    BY <2>4 DEF Expire
  <2>. QED BY <2>1, <2>2, <2>3, <2>4, SagaStepsLedger DEF LedgerNext
<1>2. OrdersOnward
  <2> USE DEF Inv, SagaTypes, GoTo
  <2>1. CASE UNCHANGED sagaVars
    BY <2>1 DEF sagaVars
  <2>2. ASSUME NEW o \in Orders,
               SendReserve(o) \/ CircuitOpen(o) \/ ReserveFails(o) \/ Create(o)
               \/ CreateFails(o) \/ HandleReserve(o) \/ RejectReserve(o)
        PROVE  OrdersOnward
    BY <2>2 DEF SendReserve, CircuitOpen, ReserveFails, Create, CreateFails,
         HandleReserve, RejectReserve
  <2>3. ASSUME NEW o \in Orders, NEW to \in OrderStatuses, UpdateStatus(o, to)
        PROVE  OrdersOnward
    <3>1. to # "none"
      BY <2>3, Transitions DEF UpdateStatus
    <3>2. /\ order' = [order EXCEPT ![o] = to] /\ stage' = stage
          /\ row' = [row EXCEPT ![o] =
               [k \in Finalizes |-> IF k \in RequestOf(to) THEN "pending" ELSE @[k]]]
      BY <2>3 DEF UpdateStatus, TransitionStatus
    <3>. QED BY <3>1, <3>2
  <2>4. ASSUME NEW o \in Orders, NEW k \in Finalizes, SendRow(o, k) \/ GiveUpRow(o, k)
        PROVE  OrdersOnward
    BY <2>4 DEF SendRow, GiveUpRow
  <2>5. ASSUME NEW o \in Orders, NEW kind \in Kinds, Lose(Msg(o, kind))
        PROVE  OrdersOnward
    BY <2>5 DEF Lose
  <2>6. ASSUME NEW o \in Orders, NEW kind \in Kinds, HandleFinalize(o, kind)
        PROVE  OrdersOnward
    BY <2>6 DEF HandleFinalize
  <2>7. ASSUME NEW o \in Orders, Reap(o) \/ TtlPasses(o)
        PROVE  OrdersOnward
    BY <2>7, <2>1 DEF Reap, TtlPasses
  <2>8. CASE UNCHANGED vars
    BY <2>1, <2>8 DEF vars
  <2>. QED BY <2>2, <2>3, <2>4, <2>5, <2>6, <2>7, <2>8 DEF Next
<1>. QED BY <1>1, <1>2 DEF Onward

-----------------------------------------------------------------------------
\* Every step is one of the saga or leaves it alone.
LEMMA TrailStepsSaga ==
  ASSUME TrailInv, [TrailNext]_trailVars
  PROVE  [Next]_vars
<1>1. ASSUME NEW o \in Orders, CreateAndTell(o) PROVE Next
  BY <1>1 DEF CreateAndTell, Next
<1>2. ASSUME NEW o \in Orders, NEW to \in OrderStatuses, UpdateAndTell(o, to)
      PROVE  Next
  BY <1>2 DEF UpdateAndTell, Next
<1>3. ASSUME NEW o \in Orders, Untold(o) PROVE Next
  BY <1>3 DEF Untold, Next
<1>4. ASSUME NEW o \in Orders, ReserveAndEmit(o) PROVE Next
  BY <1>4 DEF ReserveAndEmit, Next
<1>5. ASSUME NEW o \in Orders, NEW kind \in Kinds \ {"reserve"}, FinalizeAndEmit(o, kind)
      PROVE  Next
  BY <1>5 DEF FinalizeAndEmit, Next
<1>6. ASSUME NEW o \in Orders, Quiet(o) PROVE Next
  BY <1>6 DEF Quiet, Next
<1>7. ASSUME NEW o \in Orders, ReapRelease(o) PROVE Next \/ UNCHANGED vars
  <2>1. CASE Finalize(o, "release")
    BY <1>7, <2>1 DEF ReapRelease, TrailInv, Reap, Next
  <2>2. CASE UNCHANGED ledgerVars
    BY <1>7, <2>2 DEF ReapRelease, vars
  <2>. QED BY <1>7, <2>1, <2>2 DEF ReapRelease, FinalizeIfHeld
<1>8. ASSUME NEW o \in Orders,
             \/ ReapClaim(o) \/ ReapFails(o)
             \/ \E c \in Changes : GiveUpChange(o, c) \/ HandleOrderStatusChanged(o, c)
      PROVE  UNCHANGED vars
  BY <1>8 DEF ReapClaim, ReapFails, GiveUpChange, HandleOrderStatusChanged
<1>9. ASSUME NEW entry \in emitted, HandleInventoryEvent(entry) PROVE UNCHANGED vars
  BY <1>9 DEF HandleInventoryEvent
<1>10. CASE UNCHANGED trailVars
  BY <1>10 DEF trailVars
<1>. QED BY <1>1, <1>2, <1>3, <1>4, <1>5, <1>6, <1>7, <1>8, <1>9, <1>10 DEF TrailNext

\* What was emitted or logged stays true.
LEMMA EntriesStay ==
  ASSUME TrailInv, Onward
  PROVE  /\ \A e \in emitted : StockOK(e)'
         /\ \A e \in trail : StockOK(e)' \/ ChangeOK(e)'
         /\ \A o \in claimed : o \in Orders /\ o \in expired' /\ status'[o] # "none"
<1>1. \A e \in StockEntries \union ChangeEntries : e.order \in Orders
  BY DEF StockEntries, ChangeEntries, StockEntry, ChangeEntry
<1>2. ASSUME NEW e, StockOK(e) PROVE StockOK(e)'
  BY <1>1, <1>2 DEF StockOK, Onward
<1>3. ASSUME NEW e, ChangeOK(e) PROVE ChangeOK(e)'
  BY <1>1, <1>3 DEF ChangeOK, Onward
<1>. QED BY <1>2, <1>3 DEF TrailInv, Onward

\* A finalize that found a reservation leaves it settled.
LEMMA FinalizeSettles ==
  ASSUME Inv, NEW o \in Orders, NEW action, FinalizeIfHeld(o, action), status[o] # "none"
  PROVE  status'[o] \in Terminal
BY DEF Inv, SagaTypes, FinalizeIfHeld, Finalize, ledgerVars, Statuses, Terminal

\* An event that was just emitted is true.
LEMMA EmitInv ==
  ASSUME NEW o \in Orders, NEW cause \in Causes, Emit(o, cause),
         \A e \in emitted : StockOK(e)',
         cause = "reserve" \/ status[o] # "none" =>
           /\ status'[o] # "none"
           /\ cause # "reserve" => status'[o] \in Terminal
           /\ cause \in Finalizes => row'[o][cause] # "none"
           /\ cause = "orphan" => stage'[o] = "failed"
           /\ cause = "reaper" => o \in expired'
  PROVE  \A e \in emitted' : StockOK(e)'
<1>1. StockEntry(o, cause) \in StockEntries
  BY DEF StockEntries
<1>2. cause = "reserve" \/ status[o] # "none" => StockOK(StockEntry(o, cause))'
  BY <1>1, EntriesDiffer DEF StockOK
<1>. QED BY <1>2 DEF Emit

LEMMA TrailStepInv ==
  ASSUME Inv, TrailInv, [TrailNext]_trailVars
  PROVE  TrailInv'
<1>1. Onward
  BY TrailStepsSaga, SagaOnward
<1>2. /\ \A e \in emitted : StockOK(e)'
      /\ \A e \in trail : StockOK(e)' \/ ChangeOK(e)'
      /\ \A o \in claimed : o \in Orders /\ o \in expired' /\ status'[o] # "none"
  BY <1>1, EntriesStay
<1>3. /\ told \in [Orders -> [Changes -> Rows]]
      /\ \A o \in Orders, c \in Changes : told[o][c] # "none" => order'[o] # "none"
  BY <1>1 DEF TrailInv, Onward
<1>4. ASSUME NEW o \in Orders, NEW to \in OrderStatuses \ {"none"}, Tell(o, to),
             order'[o] = to, UNCHANGED <<emitted, trail, claimed>>
      PROVE  TrailInv'
  BY <1>2, <1>3, <1>4 DEF Tell, TrailInv, Rows
<1>5. ASSUME NEW o \in Orders, CreateAndTell(o) PROVE TrailInv'
  BY <1>4, <1>5 DEF CreateAndTell, Create, Inv, SagaTypes, OrderStatuses
<1>6. ASSUME NEW o \in Orders, NEW to \in OrderStatuses, UpdateAndTell(o, to)
      PROVE  TrailInv'
  <2>1. to # "none" /\ order'[o] = to
    BY <1>6, Transitions
       DEF UpdateAndTell, UpdateStatus, TransitionStatus, Inv, SagaTypes
  <2>. QED BY <1>4, <1>6, <2>1 DEF UpdateAndTell
<1>7. ASSUME NEW o \in Orders, Untold(o) \/ Quiet(o) PROVE TrailInv'
  BY <1>2, <1>3, <1>7 DEF Untold, Quiet, auditVars, TrailInv
<1>8. ASSUME NEW o \in Orders, NEW c \in Changes, GiveUpChange(o, c) PROVE TrailInv'
  BY <1>2, <1>3, <1>8 DEF GiveUpChange, TrailInv, Rows
<1>9. ASSUME NEW o \in Orders, NEW c \in Changes, HandleOrderStatusChanged(o, c)
      PROVE  TrailInv'
  <2>1. ChangeOK(ChangeEntry(o, c))'
    BY <1>3, <1>9 DEF HandleOrderStatusChanged, ChangeOK, ChangeEntries, ChangeEntry
  <2>2. told' \in [Orders -> [Changes -> Rows]]
    BY <1>3, <1>9 DEF HandleOrderStatusChanged, Rows
  <2>3. \A q \in Orders, d \in Changes : told'[q][d] # "none" => order'[q] # "none"
    BY <1>3, <1>9 DEF HandleOrderStatusChanged
  <2>. QED BY <1>2, <1>9, <2>1, <2>2, <2>3 DEF HandleOrderStatusChanged, Log, TrailInv
<1>10. ASSUME NEW o \in Orders, ReserveAndEmit(o) PROVE TrailInv'
  <2>1. status'[o] # "none"
    BY <1>10 DEF ReserveAndEmit, HandleReserve, Reserve, Inv, SagaTypes
  <2>2. \A e \in emitted' : StockOK(e)'
    BY <1>2, <1>10, <2>1, EmitInv DEF ReserveAndEmit, Causes, Kinds, Finalizes
  <2>. QED BY <1>2, <1>3, <1>10, <2>2 DEF ReserveAndEmit, TrailInv
<1>11. ASSUME NEW o \in Orders, NEW kind \in Kinds \ {"reserve"}, FinalizeAndEmit(o, kind)
       PROVE  TrailInv'
  <2>1. Msg(o, kind) \in net /\ FinalizeIfHeld(o, ActionOf(kind)) /\ stage' = stage
    BY <1>11 DEF FinalizeAndEmit, HandleFinalize
  <2>2. status[o] # "none" => status'[o] \in Terminal
    BY <2>1, FinalizeSettles
  <2>3. /\ kind \in Finalizes => row'[o][kind] # "none"
        /\ kind = "orphan" => stage'[o] = "failed"
    BY <1>1, <2>1 DEF Inv, RequestsHaveCause, Onward
  <2>4. \A e \in emitted' : StockOK(e)'
    BY <1>2, <1>11, <2>2, <2>3, EmitInv
       DEF FinalizeAndEmit, Causes, Kinds, Finalizes, Terminal
  <2>. QED BY <1>2, <1>3, <1>11, <2>4 DEF FinalizeAndEmit, TrailInv
<1>12. ASSUME NEW o \in Orders, ReapClaim(o) \/ ReapFails(o) PROVE TrailInv'
  BY <1>2, <1>3, <1>12 DEF ReapClaim, ReapFails, TrailInv, vars, ledgerVars
<1>13. ASSUME NEW o \in Orders, ReapRelease(o) PROVE TrailInv'
  <2>1. status[o] # "none" /\ o \in expired' /\ status'[o] \in Terminal
    BY <1>2, <1>13, FinalizeSettles DEF ReapRelease, TrailInv
  <2>2. \A e \in emitted' : StockOK(e)'
    BY <1>2, <1>13, <2>1, EmitInv
       DEF ReapRelease, Causes, Kinds, Finalizes, Terminal
  <2>. QED BY <1>2, <1>3, <1>13, <2>2 DEF ReapRelease, TrailInv
<1>14. ASSUME NEW entry \in emitted, HandleInventoryEvent(entry) PROVE TrailInv'
  BY <1>2, <1>3, <1>14 DEF HandleInventoryEvent, Log, TrailInv
<1>15. CASE UNCHANGED trailVars
  BY <1>2, <1>3, <1>15 DEF trailVars, auditVars, TrailInv
<1>. QED BY <1>5, <1>6, <1>7, <1>8, <1>9, <1>10, <1>11, <1>12, <1>13, <1>14, <1>15
        DEF TrailNext

\* The inductive invariant: that of the saga, and every event and entry true.
THEOREM TrailInvariant == TrailSpec => [](Inv /\ TrailInv)
<1>1. TrailInit => Inv /\ TrailInv
  BY InitInv DEF TrailInit, TrailInv, Rows
<1>2. Inv /\ TrailInv /\ [TrailNext]_trailVars => Inv' /\ TrailInv'
  BY TrailStepInv, TrailStepsSaga, NextInv
<1>. QED BY <1>1, <1>2, PTL DEF TrailSpec

-----------------------------------------------------------------------------
(***************************************************************************)
(* The service with the audit beside it and a reaper that releases what it *)
(* read in a batch before implements the saga: all that is proved of the   *)
(* saga holds with them.                                                   *)
(***************************************************************************)
THEOREM TrailKeepsTheSaga == TrailSpec => KeepsTheSaga
<1>1. TrailInit => Init
  BY DEF TrailInit
<1>. QED BY <1>1, TrailStepsSaga, TrailInvariant, PTL DEF TrailSpec, KeepsTheSaga, Spec

\* What the trail says of a reservation never runs ahead of the inventory.
THEOREM TrailIsNeverAhead == TrailSpec => []TrailNeverAhead
<1>1. TrailInv => TrailNeverAhead
  <2> SUFFICES ASSUME TrailInv, NEW o \in Orders, NEW cause \in StockLog(o)
               PROVE  /\ status[o] # "none"
                      /\ cause # "reserve" => status[o] \in Terminal
                      /\ cause \in Finalizes => row[o][cause] # "none"
                      /\ cause = "reaper" => o \in expired
    BY DEF TrailNeverAhead
  <2>1. StockEntry(o, cause) \in trail /\ cause \in Causes
    BY DEF StockLog
  <2>2. StockOK(StockEntry(o, cause))
    BY <2>1, EntriesDiffer DEF TrailInv, ChangeOK
  <2>. QED BY <2>1, <2>2, EntriesDiffer DEF StockOK
<1>. QED BY <1>1, TrailInvariant, PTL

\* No id is both released for an orphan and an order with a life of its own.
THEOREM TrailOrphanIsNoOrder == TrailSpec => []OrphanIsNoOrder
<1>1. Inv /\ TrailInv => OrphanIsNoOrder
  <2> SUFFICES ASSUME Inv, TrailInv, NEW o \in Orders, "orphan" \in StockLog(o),
                      NEW c \in Logged(o)
               PROVE  FALSE
    BY DEF OrphanIsNoOrder
  <2>1. StockEntry(o, "orphan") \in trail /\ "orphan" \in Causes
    BY DEF StockLog
  <2>2. stage[o] = "failed"
    BY <2>1, EntriesDiffer DEF TrailInv, ChangeOK, StockOK
  <2>3. ChangeEntry(o, c) \in trail /\ ChangeEntry(o, c).order = o /\ c \in Changes
    BY DEF Logged, ChangeEntry
  <2>4. ChangeEntry(o, c) \notin StockEntries
    BY <2>3, EntriesDiffer DEF StockEntries, ChangeEntries
  <2>5. order[o] # "none"
    BY <2>3, <2>4 DEF TrailInv, StockOK, ChangeOK
  <2>. QED BY <2>2, <2>5 DEF Inv, StageMatches
<1>. QED BY <1>1, TrailInvariant, PTL

\* The events, the trail and what it is told keep their types.
THEOREM TrailTypeCorrect == TrailSpec => []TrailTypeOK
<1>1. TypeOK /\ TrailInv => TrailTypeOK
  BY DEF TrailInv, TrailTypeOK, StockOK, ChangeOK
<1>. QED BY <1>1, TrailInvariant, TrailKeepsTheSaga, SagaTypeCorrect, PTL
        DEF KeepsTheSaga

-----------------------------------------------------------------------------
(***************************************************************************)
(* The life of an order has no way back: every change leads to a status of *)
(* a higher rank.  The changes told form one path to the present status,   *)
(* and none leaves that status yet; the path only grows at its end.        *)
(***************************************************************************)
Rank ==
  [none |-> 0, pending |-> 1, confirmed |-> 2, shipped |-> 3, delivered |-> 4,
   cancelled |-> 4]

Told(o) == {c \in Changes : told[o][c] # "none"}

PathInv ==
  \A o \in Orders :
    /\ \A c \in Told(o) : Rank[c[1]] < Rank[order[o]]
    /\ \A c, d \in Told(o) : c[1] = d[1] => c = d
    /\ \A c \in Told(o) : c[1] = "none" \/ \E d \in Told(o) : d[2] = c[1]
    /\ order[o] # "none" => \E c \in Told(o) : c[2] = order[o]

\* The trail shows only what was told, and all that was acknowledged.
LogInv ==
  \A o \in Orders :
    /\ Logged(o) \subseteq Told(o)
    /\ \A c \in Changes : told[o][c] = "sent" => c \in Logged(o)

\* A change of an order goes to a higher rank.
LEMMA ChangesClimb ==
  ASSUME NEW from \in OrderStatuses, NEW to \in OrderStatuses,
         (from = "none" /\ to = "pending") \/ to \in ValidTransitions[from]
  PROVE  /\ <<from, to>> \in Changes /\ to # "none"
         /\ Rank[from] \in Nat /\ Rank[to] \in Nat /\ Rank[from] < Rank[to]
<1>1. <<from, to>> \in Changes
  BY DEF Changes
<1>2. /\ Rank["none"] = 0 /\ Rank["pending"] = 1 /\ Rank["confirmed"] = 2
      /\ Rank["shipped"] = 3 /\ Rank["delivered"] = 4 /\ Rank["cancelled"] = 4
  BY DEF Rank
<1>3. \/ from = "none" /\ to = "pending"
      \/ from = "pending" /\ to \in {"confirmed", "cancelled"}
      \/ from = "confirmed" /\ to \in {"shipped", "cancelled"}
      \/ from = "shipped" /\ to = "delivered"
  BY DEF OrderStatuses, ValidTransitions
<1>. QED BY <1>1, <1>2, <1>3

LEMMA RanksAreNumbers == \A s \in OrderStatuses : Rank[s] \in Nat
BY DEF Rank, OrderStatuses

\* An entry of a change is of one change of one order.
LEMMA ChangeEntriesDiffer ==
  ASSUME NEW o \in Orders, NEW c \in Changes
  PROVE  /\ ChangeEntry(o, c) \notin StockEntries
         /\ \A q \in Orders, d \in Changes :
              ChangeEntry(q, d) = ChangeEntry(o, c) => q = o /\ d = c
<1>1. ChangeEntry(o, c) \in ChangeEntries
  BY DEF ChangeEntries
<1>2. ChangeEntry(o, c) \notin StockEntries
  BY <1>1, EntriesDiffer DEF StockEntries
<1>3. \A q, d : ChangeEntry(q, d).order = q /\ ChangeEntry(q, d).change = d
  BY DEF ChangeEntry
<1>. QED BY <1>2, <1>3

\* A change told with its order puts the next step at the end of the path.
LEMMA TellPath ==
  ASSUME Inv, TrailInv, PathInv, LogInv,
         NEW o \in Orders, NEW to \in OrderStatuses,
         (order[o] = "none" /\ to = "pending") \/ to \in ValidTransitions[order[o]],
         Tell(o, to), order' = [order EXCEPT ![o] = to], trail' = trail
  PROVE  PathInv' /\ LogInv'
<1> DEFINE from == order[o]
           next == <<from, to>>
<1>1. order \in [Orders -> OrderStatuses] /\ told \in [Orders -> [Changes -> Rows]]
  BY DEF Inv, SagaTypes, TrailInv
<1>2. /\ next \in Changes /\ next[1] = from /\ next[2] = to
      /\ Rank[from] \in Nat /\ Rank[to] \in Nat /\ Rank[from] < Rank[to]
  BY <1>1, ChangesClimb
<1>3. /\ told' = [told EXCEPT ![o][next] = "pending"]
      /\ order'[o] = to
      /\ \A q \in Orders : q # o => order'[q] = order[q]
  BY <1>1 DEF Tell
<1>4. /\ \A q \in Orders \ {o} : Told(q)' = Told(q)
      /\ Told(o)' = Told(o) \union {next}
  <2>1. /\ \A q \in Orders \ {o}, c \in Changes : told'[q][c] = told[q][c]
        /\ \A c \in Changes : told'[o][c] = IF c = next THEN "pending" ELSE told[o][c]
    BY <1>1, <1>2, <1>3
  <2>. QED BY <1>2, <2>1 DEF Told
<1>5. \A c \in Told(o) : c[1] \in OrderStatuses /\ Rank[c[1]] < Rank[from]
  <2>1. \A c \in Changes : c[1] \in OrderStatuses
    BY DEF Changes, OrderStatuses
  <2>. QED BY <2>1 DEF PathInv, Told
<1>6. PathInv'
  <2>1. ASSUME NEW c \in Told(o)' PROVE Rank[c[1]] < Rank[to]
    BY <1>2, <1>4, <1>5, RanksAreNumbers
  <2>2. ASSUME NEW c \in Told(o)', NEW d \in Told(o)', c[1] = d[1] PROVE c = d
    <3>1. \A e \in Told(o) : e[1] # next[1]
      BY <1>2, <1>5
    <3>. QED BY <1>4, <2>2, <3>1 DEF PathInv
  <2>3. ASSUME NEW c \in Told(o)', c[1] # "none"
        PROVE  \E d \in Told(o)' : d[2] = c[1]
    BY <1>2, <1>4, <2>3 DEF PathInv
  <2>4. \E c \in Told(o)' : c[2] = order'[o]
    BY <1>2, <1>3, <1>4
  <2>5. ASSUME NEW q \in Orders \ {o}
        PROVE  Told(q)' = Told(q) /\ order'[q] = order[q]
    BY <1>3, <1>4
  <2>. QED BY <1>3, <2>1, <2>2, <2>3, <2>4, <2>5 DEF PathInv
<1>7. LogInv'
  <2>1. \A q \in Orders : Logged(q)' = Logged(q)
    BY DEF Logged
  <2>2. \A q \in Orders, c \in Changes : told'[q][c] = "sent" => told[q][c] = "sent"
    BY <1>1, <1>3
  <2>. QED BY <1>4, <2>1, <2>2 DEF LogInv
<1>. QED BY <1>6, <1>7

\* Steps that tell nothing new and log no change of an order.
LEMMA SameTrailPath ==
  ASSUME PathInv, LogInv, order' = order,
         \A o \in Orders : Told(o)' = Told(o) /\ Logged(o)' = Logged(o),
         \A o \in Orders, c \in Changes : told'[o][c] = "sent" => told[o][c] = "sent"
  PROVE  PathInv' /\ LogInv'
BY DEF PathInv, LogInv

\* A request of a told change logs it; nothing else is marked as sent.
LEMMA HandleChangePath ==
  ASSUME TrailInv, PathInv, LogInv,
         NEW o \in Orders, NEW c \in Changes, HandleOrderStatusChanged(o, c)
  PROVE  PathInv' /\ LogInv'
<1>1. /\ told[o][c] # "none" /\ order' = order
      /\ trail' = trail \union {ChangeEntry(o, c)}
      /\ told' = told \/ told' = [told EXCEPT ![o][c] = "sent"]
  BY DEF HandleOrderStatusChanged, Log, vars, sagaVars
<1>2. \A q \in Orders, d \in Changes :
        /\ told'[q][d] # "none" <=> told[q][d] # "none"
        /\ told'[q][d] = "sent" => told[q][d] = "sent" \/ (q = o /\ d = c)
  BY <1>1 DEF TrailInv
<1>3. \A q \in Orders : Told(q)' = Told(q)
  BY <1>2 DEF Told
<1>4. /\ Logged(o)' = Logged(o) \union {c}
      /\ \A q \in Orders \ {o} : Logged(q)' = Logged(q)
  BY <1>1, ChangeEntriesDiffer DEF Logged
<1>5. PathInv'
  BY <1>1, <1>3 DEF PathInv
<1>6. LogInv'
  <2>1. c \in Told(o)
    BY <1>1 DEF Told
  <2>. QED BY <1>2, <1>3, <1>4, <2>1 DEF LogInv
<1>. QED BY <1>5, <1>6

LEMMA PathStep ==
  ASSUME Inv, TrailInv, PathInv, LogInv, [TrailNext]_trailVars
  PROVE  PathInv' /\ LogInv'
<1> DEFINE Goal == PathInv' /\ LogInv'
<1>1. ASSUME UNCHANGED <<order, told, trail>> PROVE Goal
  BY <1>1, SameTrailPath DEF Told, Logged
<1>2. ASSUME NEW o \in Orders, CreateAndTell(o) PROVE Goal
  <2>1. order[o] = "none"
    BY <1>2 DEF CreateAndTell, Create, Inv, StageMatches
  <2>2. /\ order' = [order EXCEPT ![o] = "pending"] /\ Tell(o, "pending")
        /\ trail' = trail
    BY <1>2 DEF CreateAndTell, Create
  <2>. QED BY <2>1, <2>2, TellPath DEF OrderStatuses
<1>3. ASSUME NEW o \in Orders, NEW to \in OrderStatuses, UpdateAndTell(o, to) PROVE Goal
  BY <1>3, TellPath DEF UpdateAndTell, UpdateStatus, TransitionStatus
<1>4. ASSUME NEW o \in Orders, Untold(o) \/ Quiet(o) PROVE Goal
  BY <1>1, <1>4 DEF Untold, Quiet, auditVars, SendReserve, CircuitOpen, ReserveFails,
     CreateFails, SendRow, GiveUpRow, Lose, RejectReserve, TtlPasses, sagaVars
<1>5. ASSUME NEW o \in Orders, NEW c \in Changes, GiveUpChange(o, c) PROVE Goal
  <2>1. /\ told[o][c] = "pending" /\ told' = [told EXCEPT ![o][c] = "failed"]
        /\ order' = order /\ trail' = trail
    BY <1>5 DEF GiveUpChange, vars, sagaVars
  <2>2. \A q \in Orders, d \in Changes :
          /\ told'[q][d] # "none" <=> told[q][d] # "none"
          /\ told'[q][d] = "sent" => told[q][d] = "sent"
    BY <2>1 DEF TrailInv
  <2>. QED BY <2>1, <2>2, SameTrailPath DEF Told, Logged
<1>6. ASSUME NEW o \in Orders, NEW c \in Changes, HandleOrderStatusChanged(o, c)
      PROVE  Goal
  BY <1>6, HandleChangePath
<1>7. ASSUME NEW o \in Orders,
             \/ ReserveAndEmit(o) \/ ReapClaim(o) \/ ReapRelease(o) \/ ReapFails(o)
             \/ \E kind \in Kinds \ {"reserve"} : FinalizeAndEmit(o, kind)
      PROVE  Goal
  BY <1>1, <1>7 DEF ReserveAndEmit, HandleReserve, ReapClaim, ReapRelease, ReapFails,
     FinalizeAndEmit, HandleFinalize, vars, sagaVars
<1>8. ASSUME NEW entry \in emitted, HandleInventoryEvent(entry) PROVE Goal
  <2>1. entry \in StockEntries
    BY <1>8 DEF TrailInv, StockOK
  <2>2. /\ order' = order /\ told' = told /\ trail' = trail \union {entry}
    BY <1>8 DEF HandleInventoryEvent, Log, vars, sagaVars
  <2>3. \A o \in Orders : Logged(o)' = Logged(o)
    BY <2>1, <2>2, ChangeEntriesDiffer DEF Logged
  <2>. QED BY <2>2, <2>3, SameTrailPath DEF Told
<1>9. ASSUME UNCHANGED trailVars PROVE Goal
  BY <1>1, <1>9 DEF trailVars, auditVars, vars, sagaVars
<1>. QED BY <1>2, <1>3, <1>4, <1>5, <1>6, <1>7, <1>8, <1>9 DEF TrailNext

(***************************************************************************)
(* Once every change of an order was acknowledged, the trail is its whole  *)
(* life: what is logged is what was told, and that is one path.            *)
(***************************************************************************)
THEOREM TrailTellsTheWhole == TrailSpec => []TrailIsWhole
<1>1. TrailInit => PathInv /\ LogInv
  BY DEF TrailInit, Init, PathInv, LogInv, Told, Logged
<1>2. Inv /\ TrailInv /\ PathInv /\ LogInv /\ [TrailNext]_trailVars => PathInv' /\ LogInv'
  BY PathStep
<1>3. PathInv /\ LogInv => TrailIsWhole
  <2> SUFFICES ASSUME PathInv, LogInv, NEW o \in Orders, order[o] # "none", AllSent(o)
               PROVE  /\ \A c, d \in Logged(o) : c[1] = d[1] => c = d
                      /\ \A c \in Logged(o) :
                           c[1] = "none" \/ \E d \in Logged(o) : d[2] = c[1]
                      /\ \E c \in Logged(o) : c[2] = order[o]
    BY DEF TrailIsWhole
  <2>1. Logged(o) = Told(o)
    BY DEF LogInv, AllSent, Told, Logged
  <2>. QED BY <2>1 DEF PathInv
<1>. QED BY <1>1, <1>2, <1>3, TrailInvariant, PTL DEF TrailSpec
=============================================================================
