----------------------------- MODULE Inventory -----------------------------
(***************************************************************************)
(* The inventory service as it runs: each reserve and finalize is a        *)
(* Postgres transaction (READ COMMITTED) that touches its rows one         *)
(* statement at a time, RPC handlers and ticks of the reaper interleave,   *)
(* a transaction may be rolled back and the service may restart.           *)
(*                                                                         *)
(* The variables of StockLedger are the committed contents of the two      *)
(* tables.  An uncommitted UPDATE of a stock row shows only in the `done`  *)
(* of its transaction, which holds that row's lock until it ends.          *)
(***************************************************************************)
EXTENDS StockLedger

CONSTANTS
  Workers,     \* RPC handlers that can run at once
  Reapers,     \* ticks of the reaper that can run at once
  Resend,      \* orders whose reserve request may be delivered again
  Requests,    \* the finalize requests that can arrive, by what raises them
  ReapBatch,   \* reapBatchSize
  Seeders,     \* PUT /stock handlers that can run at once
  Levels,      \* the quantities they set
  MaxFaults    \* bound on rollbacks and restarts

\* parseIntEnv and the defaults make every setting a positive integer.
Setting == Nat \ {0}

ASSUME ProductsAssumption == Products \subseteq Nat
\* The connections of the Postgres pool are finitely many.
ASSUME ProcsAssumption    == /\ Workers \intersect Reapers = {}
                             /\ IsFiniteSet(Workers) /\ IsFiniteSet(Reapers)
ASSUME ResendAssumption   == Resend \subseteq Orders
ASSUME RequestsAssumption == Requests \subseteq {"confirm", "cancel", "orphan"}
ASSUME LevelsAssumption   == Levels \subseteq Nat
ASSUME BoundsAssumption   == ReapBatch \in Setting /\ MaxFaults \in Nat

VARIABLES
  requested,   \* the orders whose reserve request has been delivered
  processed,   \* reservations.processedEventId
  txn,         \* the transaction each process runs
  claimed,     \* what a reaper tick read in claimExpired and has left
  seed,        \* the upsertStock each PUT handler runs
  faults       \* rollbacks and restarts so far

serviceVars == <<requested, processed, txn, claimed, seed, faults>>
vars == <<ledgerVars, serviceVars>>

Procs == Workers \union Reapers

(***************************************************************************)
(* A finalize event is identified by the order and by what raised it: the  *)
(* outbox row of its confirmation or cancellation, the release of an       *)
(* orphan (both orders.service.ts) or the reaper.                          *)
(***************************************************************************)
Sources == Requests \union {"reaper"}
ActionOf(source) == IF source = "confirm" THEN "commit" ELSE "release"

Idle == [step |-> "idle"]
Transactions ==
  [step : {"stock", "save", "find", "items", "reply"}, order : Orders,
   source : Sources \union {"reserve"}, done : SUBSET Products, seen : Statuses]

Columns  == {"quantity", "reserved"}
Seedings ==
  [step : {"read", "save"}, product : Products, level : Levels, reserved : Nat,
   diff : SUBSET Columns]

Begin(w, o, source, first) ==
  txn' = [txn EXCEPT ![w] = [step |-> first, order |-> o, source |-> source,
                             done |-> {}, seen |-> "none"]]

\* The transaction is over and only the audit event is left to send.
Ended(w) == [txn EXCEPT ![w].step = "reply", ![w].done = {}]

At(w, step) == txn[w].step = step

\* sumAndSortItems: the products of an order, visited in ascending order.
Left(w) == {p \in Products : basket[txn[w].order][p] > 0} \ txn[w].done
\* Mutant: the items are not sorted.
IsNextInAnyOrder(w, p) == p \in Left(w)
IsNext(w, p) == p \in Left(w) /\ \A q \in Left(w) : p <= q

StockLocked(w, p) == \E v \in Procs \ {w} : txn[v] # Idle /\ p \in txn[v].done
\* The same for a process that runs no transaction of its own.
Locked(p) == \E v \in Procs : txn[v] # Idle /\ p \in txn[v].done
RowLocked(w, o) ==
  \E v \in Procs \ {w} : At(v, "items") /\ txn[v].order = o

Init ==
  /\ LedgerInit
  /\ requested = {}
  /\ processed = [o \in Orders |-> "none"]
  /\ txn = [w \in Procs |-> Idle]
  /\ claimed = [r \in Reapers |-> {}]
  /\ seed = [s \in Seeders |-> Idle]
  /\ faults = 0

-----------------------------------------------------------------------------
(* reserve: InventoryService.reserve and InventoryRepository.reserve *)

ReserveStart(w, o) ==
  /\ txn[w] = Idle
  /\ o \notin requested \/ o \in Resend
  /\ requested' = requested \union {o}
  /\ Begin(w, o, "reserve", "stock")
  /\ UNCHANGED <<ledgerVars, processed, claimed, faults, seed>>

\* Mutant: the UPDATE without its WHERE on what is available.
ReserveItemUnchecked(w) ==
  /\ At(w, "stock")
  /\ \E p \in Products : /\ IsNext(w, p)
                         /\ ~ StockLocked(w, p)
                         /\ txn' = [txn EXCEPT ![w].done = @ \union {p}]
  /\ UNCHANGED <<ledgerVars, requested, processed, claimed, faults, seed>>

\* The conditional UPDATE matches and takes the row's lock, waiting for it.
ReserveItem(w) ==
  /\ At(w, "stock")
  /\ \E p \in Products :
       /\ IsNext(w, p)
       /\ reserved[p] + basket[txn[w].order][p] <= quantity[p]
       /\ ~ StockLocked(w, p)
       /\ txn' = [txn EXCEPT ![w].done = @ \union {p}]
  /\ UNCHANGED <<ledgerVars, requested, processed, claimed, faults, seed>>

\* It matches no row: ReservationRejectedError rolls everything back.  A row
\* whose committed version does not match is skipped, locked or not.
ReserveReject(w) ==
  /\ At(w, "stock")
  /\ \E p \in Products : /\ IsNext(w, p)
                         /\ reserved[p] + basket[txn[w].order][p] > quantity[p]
  /\ txn' = [txn EXCEPT ![w] = Idle]
  /\ UNCHANGED <<ledgerVars, requested, processed, claimed, faults, seed>>

\* TypeORM's save of an entity whose key is set first looks the row up ...
ReserveSelect(w) ==
  /\ At(w, "stock")
  /\ Left(w) = {}
  /\ txn' = [txn EXCEPT ![w].step = "save", ![w].seen = status[txn[w].order]]
  /\ UNCHANGED <<ledgerVars, requested, processed, claimed, faults, seed>>

\* 23505: the handler rolls back and answers with the row it then finds.
DuplicateKey(w) ==
  /\ txn' = [txn EXCEPT ![w] = Idle]
  /\ UNCHANGED <<quantity, reserved, status>>

\* ... inserts it when there was none, which fails if there is one by now: for
\* an order without items only, else both reserves want the same stock rows,
\* and the second does not look the reservation up before the first ended ...
ReserveInsert(w) ==
  LET o == txn[w].order
  IN  /\ At(w, "save")
      /\ txn[w].seen = "none"
      /\ IF status[o] = "none"
           THEN /\ HoldUnits(o)
                /\ status' = [status EXCEPT ![o] = "held"]
                /\ txn' = Ended(w)
           ELSE DuplicateKey(w)
      /\ UNCHANGED <<basket, expired, requested, processed, claimed, faults, seed>>

\* ... and otherwise updates the columns that differ from the row it read:
\* expiresAt always, status when it read another one, processedEventId never.
ReserveOverwrite(w) ==
  /\ At(w, "save")
  /\ txn[w].seen # "none"
  /\ ~ RowLocked(w, txn[w].order)
  /\ HoldUnits(txn[w].order)
  /\ status' = IF txn[w].seen = "held"
                 THEN status
                 ELSE [status EXCEPT ![txn[w].order] = "held"]
  /\ expired' = expired \ {txn[w].order}
  /\ txn' = Ended(w)
  /\ UNCHANGED <<basket, requested, processed, claimed, faults, seed>>

-----------------------------------------------------------------------------
(* finalize: InventoryService.commit and release, InventoryRepository.finalize *)

FinalizeStart(w, o, source) ==
  /\ txn[w] = Idle
  /\ Begin(w, o, source, "find")
  /\ UNCHANGED <<ledgerVars, requested, processed, claimed, faults, seed>>

FinalizeUnknown(w) ==
  /\ At(w, "find")
  /\ status[txn[w].order] = "none"
  /\ txn' = [txn EXCEPT ![w] = Idle]
  /\ UNCHANGED <<ledgerVars, requested, processed, claimed, faults, seed>>

\* Mutant: one whose TTL is over is left alone, whoever asks.
FinalizeNoOpPastTtl(w) ==
  /\ At(w, "find")
  /\ ~ RowLocked(w, txn[w].order)
  /\ status[txn[w].order] # "none"
  /\ status[txn[w].order] # "held" \/ txn[w].order \in expired
  /\ txn' = Ended(w)
  /\ UNCHANGED <<ledgerVars, requested, processed, claimed, faults, seed>>

\* The same event again, or a reservation that is no longer held.
FinalizeNoOp(w) ==
  /\ At(w, "find")
  /\ ~ RowLocked(w, txn[w].order)
  /\ status[txn[w].order] # "none"
  /\ \/ processed[txn[w].order] = txn[w].source
     \/ status[txn[w].order] # "held"
  /\ txn' = Ended(w)
  /\ UNCHANGED <<ledgerVars, requested, processed, claimed, faults, seed>>

\* Mutant: a plain SELECT, without the row lock.
FinalizeFindUnlocked(w) ==
  /\ At(w, "find")
  /\ status[txn[w].order] = "held"
  /\ processed[txn[w].order] # txn[w].source
  /\ txn' = [txn EXCEPT ![w].step = "items"]
  /\ UNCHANGED <<ledgerVars, requested, processed, claimed, faults, seed>>

\* Mutant: neither guard against finalizing twice.
FinalizeFindAnyStatus(w) ==
  /\ At(w, "find")
  /\ ~ RowLocked(w, txn[w].order)
  /\ status[txn[w].order] # "none"
  /\ txn' = [txn EXCEPT ![w].step = "items"]
  /\ UNCHANGED <<ledgerVars, requested, processed, claimed, faults, seed>>

\* SELECT ... FOR UPDATE finds it held and keeps the row's lock.
FinalizeFind(w) ==
  /\ At(w, "find")
  /\ ~ RowLocked(w, txn[w].order)
  /\ status[txn[w].order] = "held"
  /\ processed[txn[w].order] # txn[w].source
  /\ txn' = [txn EXCEPT ![w].step = "items"]
  /\ UNCHANGED <<ledgerVars, requested, processed, claimed, faults, seed>>

FinalizeItem(w) ==
  /\ At(w, "items")
  /\ \E p \in Products :
       /\ IsNext(w, p)
       /\ ~ StockLocked(w, p)
       /\ basket[txn[w].order][p] <= reserved[p]
       /\ txn' = [txn EXCEPT ![w].done = @ \union {p}]
  /\ UNCHANGED <<ledgerVars, requested, processed, claimed, faults, seed>>

\* The UPDATE would break 0 <= reserved: the CHECK constraint aborts it.
FinalizeCheckFails(w) ==
  /\ At(w, "items")
  /\ \E p \in Products : /\ IsNext(w, p)
                         /\ ~ StockLocked(w, p)
                         /\ basket[txn[w].order][p] > reserved[p]
  /\ txn' = [txn EXCEPT ![w] = Idle]
  /\ UNCHANGED <<ledgerVars, requested, processed, claimed, faults, seed>>

FinalizeCommit(w) ==
  LET o == txn[w].order
      action == ActionOf(txn[w].source)
  IN  /\ At(w, "items")
      /\ Left(w) = {}
      /\ ReturnUnits(o, action)
      /\ status' = [status EXCEPT
           ![o] = IF action = "commit" THEN "committed" ELSE "released"]
      /\ processed' = [processed EXCEPT ![o] = txn[w].source]
      /\ txn' = Ended(w)
      /\ UNCHANGED <<basket, expired, requested, claimed, faults, seed>>

\* emitAuditEvent and the answer.  The event is sent once and may be lost:
\* being at "reply" is having it to send.
Reply(w) ==
  /\ At(w, "reply")
  /\ txn' = [txn EXCEPT ![w] = Idle]
  /\ UNCHANGED <<ledgerVars, requested, processed, claimed, faults, seed>>

-----------------------------------------------------------------------------
(* The reaper: ReservationReaperService.reap *)

Due == {o \in expired : status[o] = "held"}

\* claimExpired: a batch of them, read without a lock.
ReapClaim(r) ==
  /\ txn[r] = Idle
  /\ claimed[r] = {}
  /\ \E batch \in (SUBSET Due) \ {{}} :
       /\ batch = Due \/ Cardinality(batch) = ReapBatch
       /\ Cardinality(batch) <= ReapBatch
       /\ claimed' = [claimed EXCEPT ![r] = batch]
  /\ UNCHANGED <<ledgerVars, requested, processed, txn, faults, seed>>

\* Release the next one; an error in it does not stop the loop.
ReapNext(r) ==
  /\ txn[r] = Idle
  /\ \E o \in claimed[r] : /\ Begin(r, o, "reaper", "find")
                           /\ claimed' = [claimed EXCEPT ![r] = @ \ {o}]
  /\ UNCHANGED <<ledgerVars, requested, processed, faults, seed>>

-----------------------------------------------------------------------------
(* PUT /stock/:productId: upsertStock reads the row outside any transaction, *)
(* sets its quantity and saves the whole entity.  TypeORM looks the row up   *)
(* again and updates every column in which the entity differs from it, so a  *)
(* `reserved` that moved in between is written back.                         *)

\* findOne; a product without a row reads as one with no stock.
SeedRead(s, p, level) ==
  /\ seed[s] = Idle
  /\ seed' = [seed EXCEPT ![s] =
       [step |-> "read", product |-> p, level |-> level,
        reserved |-> reserved[p], diff |-> {}]]
  /\ UNCHANGED <<ledgerVars, requested, processed, txn, claimed, faults>>

\* The first half of save: the columns in which entity and row differ.
SeedDiff(s) ==
  LET p == seed[s].product
      differs == [quantity |-> seed[s].level # quantity[p],
                  reserved |-> seed[s].reserved # reserved[p]]
  IN  /\ seed[s].step = "read"
      /\ seed' = [seed EXCEPT ![s].step = "save",
                              ![s].diff = {c \in Columns : differs[c]}]
      /\ UNCHANGED <<ledgerVars, requested, processed, txn, claimed, faults>>

\* The UPDATE of those columns waits for the row's lock; the CHECK refuses a
\* row with more reserved than there is, and the handler fails.
SeedSave(s) ==
  LET p == seed[s].product
      q == IF "quantity" \in seed[s].diff THEN seed[s].level ELSE quantity[p]
      r == IF "reserved" \in seed[s].diff THEN seed[s].reserved ELSE reserved[p]
  IN  /\ seed[s].step = "save"
      /\ seed[s].diff = {} \/ ~ Locked(p)
      /\ seed' = [seed EXCEPT ![s] = Idle]
      /\ IF r <= q
           THEN /\ quantity' = [quantity EXCEPT ![p] = q]
                /\ reserved' = [reserved EXCEPT ![p] = r]
           ELSE UNCHANGED <<quantity, reserved>>
      /\ UNCHANGED <<basket, status, expired, requested, processed, txn, claimed,
                     faults>>

-----------------------------------------------------------------------------
(* The environment *)

WaitsFor(w, v) ==
  /\ w # v
  /\ \/ /\ txn[w].step \in {"stock", "items"} /\ txn[v] # Idle
        /\ \E p \in txn[v].done : IsNext(w, p)
     \/ /\ txn[w].step \in {"find", "save"} /\ At(v, "items")
        /\ txn[w].order = txn[v].order
        /\ status[txn[w].order] # "none"

\* deadlock_timeout: Postgres aborts a transaction of a wait cycle.  One that
\* was redelivered a reserve holds stock rows when it waits for the row of
\* its reservation; a finalize of that reservation holds it and wants them.
DeadlockVictim(w) ==
  /\ \E waiting \in SUBSET Procs :
       w \in waiting /\ \A v \in waiting : \E u \in waiting : WaitsFor(v, u)
  /\ txn' = [txn EXCEPT ![w] = Idle]
  /\ UNCHANGED <<ledgerVars, requested, processed, claimed, faults, seed>>

TtlPasses(o) == Expire(o) /\ UNCHANGED serviceVars

\* A lost connection or a failing statement: Postgres rolls back.
Rollback(w) ==
  /\ faults < MaxFaults
  /\ txn[w].step \in {"stock", "save", "find", "items"}
  /\ txn' = [txn EXCEPT ![w] = Idle]
  /\ faults' = faults + 1
  /\ UNCHANGED <<ledgerVars, requested, processed, claimed, seed>>

\* The process dies: its transactions roll back, its memory is gone.
Restart ==
  /\ faults < MaxFaults
  /\ txn' = [w \in Procs |-> Idle]
  /\ claimed' = [r \in Reapers |-> {}]
  /\ seed' = [s \in Seeders |-> Idle]
  /\ faults' = faults + 1
  /\ UNCHANGED <<ledgerVars, requested, processed>>

Progress(w) ==
  \/ ReserveItem(w) \/ ReserveReject(w) \/ ReserveSelect(w)
  \/ ReserveInsert(w) \/ ReserveOverwrite(w)
  \/ FinalizeUnknown(w) \/ FinalizeNoOp(w) \/ FinalizeFind(w)
  \/ FinalizeItem(w) \/ FinalizeCheckFails(w) \/ FinalizeCommit(w)
  \/ Reply(w)

Next ==
  \/ \E w \in Workers, o \in Orders :
       \/ ReserveStart(w, o)
       \/ \E source \in Requests : FinalizeStart(w, o, source)
  \/ \E r \in Reapers : ReapClaim(r) \/ ReapNext(r)
  \/ \E w \in Procs : Progress(w) \/ DeadlockVictim(w) \/ Rollback(w)
  \/ \E s \in Seeders : \/ \E p \in Products, n \in Levels : SeedRead(s, p, n)
                        \/ SeedDiff(s) \/ SeedSave(s)
  \/ \E o \in Orders : TtlPasses(o)
  \/ Restart

Spec == Init /\ [][Next]_vars

(***************************************************************************)
(* Postgres queues the waiters of a row lock, so a transaction that keeps  *)
(* getting its turn takes it (strong fairness), and breaks a deadlock; of  *)
(* the transactions that finalize an order again and again, one gets its   *)
(* stock rows before the next reserve delivered again does; the @Cron      *)
(* keeps ticking.  Nothing makes a request arrive or a fault happen.       *)
(***************************************************************************)
Fairness ==
  /\ \A w \in Procs : /\ SF_vars(Progress(w)) /\ SF_vars(FinalizeItem(w))
                      /\ WF_vars(DeadlockVictim(w))
  /\ \A r \in Reapers : WF_vars(ReapClaim(r)) /\ WF_vars(ReapNext(r))

FairSpec == Spec /\ Fairness

-----------------------------------------------------------------------------
ServiceTypeOK ==
  /\ requested \subseteq Orders
  /\ processed \in [Orders -> Sources \union {"none"}]
  /\ txn \in [Procs -> Transactions \union {Idle}]
  /\ claimed \in [Reapers -> SUBSET Orders]
  /\ seed \in [Seeders -> Seedings \union {Idle}]
  /\ faults \in 0 .. MaxFaults

TypeOK == LedgerTypeOK /\ ServiceTypeOK

(***************************************************************************)
(* Deadlock freedom of the row locks: in any set of transactions that wait *)
(* for locks, one waits for no other of the set.  It is what updating the  *)
(* stock rows in productId order is for (inventory.repository.ts:41-47).   *)
(***************************************************************************)
NoWaitCycle ==
  \A waiting \in (SUBSET Procs) \ {{}} :
    \E w \in waiting : \A v \in waiting : ~ WaitsFor(w, v)

\* No unit is held that the counter does not count.
HeldIsReserved == \A p \in Products : Cardinality(UnitsOf(Held, p)) <= reserved[p]

(***************************************************************************)
(* Only a PUT /stock that writes back a `reserved` it read before takes    *)
(* the counter below what is held, after which more would be held than     *)
(* there is.  A reserve delivered again counts its units twice, which is   *)
(* the safe side, and a finalize takes out what it ends and nothing else,  *)
(* whatever races it.  See HeldFitsStock.                                  *)
(***************************************************************************)
OnlyStalePutUndercounts ==
  [][HeldIsReserved =>
       \/ HeldIsReserved'
       \/ \E s \in Seeders : SeedSave(s) /\ "reserved" \in seed[s].diff]_vars

(***************************************************************************)
(* A reservation past its TTL does not hold stock for ever, whatever       *)
(* commits and releases race the reaper, deadlock with it or come after    *)
(* the last rollback or restart.  Three things may stop the reaper: a      *)
(* reserve delivered again renews the TTL; it revives a reservation the    *)
(* reaper released (see ReaperIsSafetyNet); PUT /stock wrote a stale       *)
(* `reserved` without its units, and the CHECK refuses the release.  Those *)
(* it cannot release must not fill its batch: claimExpired takes the       *)
(* oldest first, and what is behind them would wait for ever.              *)
(***************************************************************************)
ExpiredIsSettled ==
  \A o \in Orders :
    (o \in Due) ~> \/ status[o] # "held"
                   \/ o \notin expired
                   \/ processed[o] = "reaper"
                   \/ \E p \in Products : reserved[p] < basket[o][p]

(***************************************************************************)
(* reservation-reaper.service.ts:8-12 and 38-44: the reaper releases the   *)
(* held reservations that reached no terminal status before their TTL, and *)
(* its eventId needs no more than the orderId to be unique.                *)
(***************************************************************************)
ReaperIsSafetyNet ==
  \A o \in Orders : (o \in Due) ~> (status[o] # "held" \/ o \notin expired)
=============================================================================
