-------------------------- MODULE Inventory_proofs --------------------------
(***************************************************************************)
(* The inventory service implements StockLedger, for every number of       *)
(* orders, products, handlers and overlapping reaper ticks, as long as a   *)
(* reserve request is delivered once, which is how orders.service.ts sends *)
(* it, and no PUT /stock runs.  The inductive invariant says what a        *)
(* transaction may rely on between its statements: the rows it updated are *)
(* its own, the stock it found there is still there, and the reservation   *)
(* it is about to write is as it read it.                                  *)
(*                                                                         *)
(* Without those conditions the counters may drift, but every UPDATE finds *)
(* the row it needs (BoundInv), only a stale PUT /stock takes a counter    *)
(* below what is held, and without any PUT no more is held than there is.  *)
(***************************************************************************)
EXTENDS Inventory, StockLedger_proofs

\* The assumptions under which the service implements the ledger.
Single == Resend = {} /\ Seeders = {}

Reserving == {"stock", "save"}

\* What a transaction t has established by its step.
LocalOK(t) ==
  /\ t.step \in Reserving =>
       /\ t.order \in requested
       /\ status[t.order] = "none"
       /\ \A p \in t.done : reserved[p] + basket[t.order][p] <= quantity[p]
  /\ t.step = "save" =>
       /\ t.seen = "none"
       /\ \A p \in Products : basket[t.order][p] > 0 => p \in t.done
  /\ t.step \in {"find", "items"} => t.source \in Sources
  /\ t.step = "items" => status[t.order] = "held"

\* Two transactions share no row lock and no order they are writing.
Apart(t, u) ==
  (t # Idle /\ u # Idle) =>
    /\ t.done \intersect u.done = {}
    /\ (t.step \in Reserving /\ u.step \in Reserving) => t.order # u.order
    /\ (t.step = "items" /\ u.step = "items") => t.order # u.order

TxnInv ==
  /\ \A o \in Orders : status[o] # "none" => o \in requested
  /\ \A w \in Procs : LocalOK(txn[w])
  /\ \A w, v \in Procs : w # v => Apart(txn[w], txn[v])

IInv == LedgerInv /\ ServiceTypeOK /\ TxnInv

-----------------------------------------------------------------------------
\* A transaction that has begun has the fields of one.
LEMMA BegunTyped ==
  ASSUME ServiceTypeOK, NEW w \in Procs, txn[w].step # "idle"
  PROVE  txn[w] \in Transactions /\ txn[w] # Idle
BY DEF ServiceTypeOK, Idle

LEMMA InitInv == Init => IInv
<1> SUFFICES ASSUME Init PROVE IInv
  OBVIOUS
<1>1. LedgerInv
  BY LedgerInitInv DEF Init
<1>2. ServiceTypeOK
  BY BoundsAssumption DEF Init, ServiceTypeOK
<1>3. TxnInv
  BY DEF Init, LedgerInit, TxnInv, LocalOK, Apart, Idle, Reserving
<1>. QED BY <1>1, <1>2, <1>3 DEF IInv

\* A step of one transaction that leaves both tables alone has only its own
\* transaction to answer for.
LEMMA LocalStep ==
  ASSUME TxnInv, UNCHANGED ledgerVars, requested \subseteq requested',
         NEW w \in Procs, \A v \in Procs \ {w} : txn'[v] = txn[v],
         LocalOK(txn[w])',
         \A v \in Procs \ {w} : Apart(txn'[w], txn[v])
  PROVE  TxnInv'
<1>1. \A o \in Orders : status'[o] # "none" => o \in requested'
  BY DEF TxnInv, ledgerVars
<1>2. ASSUME NEW v \in Procs PROVE LocalOK(txn[v])'
  <2>1. CASE v = w
    BY <2>1
  <2>2. CASE v # w
    BY <2>2 DEF TxnInv, LocalOK, ledgerVars
  <2>. QED BY <2>1, <2>2
<1>3. ASSUME NEW u \in Procs, NEW v \in Procs, u # v
      PROVE  Apart(txn'[u], txn'[v])
  <2>1. CASE u = w
    BY <1>3, <2>1
  <2>2. CASE v = w
    <3>1. Apart(txn'[w], txn[u])
      BY <1>3, <2>2
    <3>. QED BY <1>3, <2>2, <3>1 DEF Apart
  <2>3. CASE u # w /\ v # w
    BY <1>3, <2>3 DEF TxnInv
  <2>. QED BY <2>1, <2>2, <2>3
<1>. QED BY <1>1, <1>2, <1>3 DEF TxnInv, Apart

\* Whatever the step, a transaction that goes back to idle holds nothing.
LEMMA IdleStep ==
  ASSUME TxnInv, UNCHANGED ledgerVars, requested' = requested,
         NEW w \in Procs, ServiceTypeOK, txn' = [txn EXCEPT ![w] = Idle]
  PROVE  TxnInv'
<1>1. txn'[w] = Idle /\ \A v \in Procs \ {w} : txn'[v] = txn[v]
  BY DEF ServiceTypeOK
<1>2. LocalOK(txn[w])'
  BY <1>1 DEF LocalOK, Idle, Reserving
<1>3. \A v \in Procs \ {w} : Apart(txn'[w], txn[v])
  BY <1>1 DEF Apart
<1>. QED BY <1>1, <1>2, <1>3, LocalStep

\* Beginning a finalize, and ending one that had nothing to do.
LEMMA QuietStep ==
  ASSUME TxnInv, UNCHANGED ledgerVars, requested' = requested,
         NEW w \in Procs, ServiceTypeOK,
         \A v \in Procs \ {w} : txn'[v] = txn[v],
         txn'[w].step \in {"find", "reply"}, txn'[w].done = {},
         txn'[w].step = "find" => txn'[w].source \in Sources
  PROVE  TxnInv'
<1>1. LocalOK(txn[w])'
  BY DEF LocalOK, Reserving
<1>2. \A v \in Procs \ {w} : Apart(txn'[w], txn[v])
  BY DEF Apart, Reserving
<1>. QED BY <1>1, <1>2, LocalStep

-----------------------------------------------------------------------------
\* The types of the service, which the source of a finalize is one of.
LEMMA TypeStep ==
  ASSUME LedgerTypeOK, ServiceTypeOK, [Next]_vars,
         \A w \in Procs : At(w, "items") => txn[w].source \in Sources
  PROVE  ServiceTypeOK'
<1> USE DEF ServiceTypeOK, Transactions, Sources
<1>1. ASSUME NEW w \in Workers, NEW o \in Orders, ReserveStart(w, o)
      PROVE  ServiceTypeOK'
  BY <1>1 DEF ReserveStart, Begin, Statuses
<1>2. ASSUME NEW w \in Workers, NEW o \in Orders, NEW source \in Requests,
             FinalizeStart(w, o, source)
      PROVE  ServiceTypeOK'
  BY <1>2 DEF FinalizeStart, Begin, Statuses
<1>3. ASSUME NEW r \in Reapers, ReapClaim(r) PROVE ServiceTypeOK'
  <2>1. Due \subseteq Orders
    BY DEF Due, LedgerTypeOK
  <2>. QED BY <1>3, <2>1 DEF ReapClaim
<1>4. ASSUME NEW r \in Reapers, ReapNext(r) PROVE ServiceTypeOK'
  <2>1. PICK o \in claimed[r] : /\ Begin(r, o, "reaper", "find")
                                /\ claimed' = [claimed EXCEPT ![r] = @ \ {o}]
    BY <1>4 DEF ReapNext
  <2>2. o \in Orders /\ r \in Procs
    BY <2>1 DEF Procs
  <2>3. txn' \in [Procs -> Transactions \union {Idle}]
    BY <2>1, <2>2 DEF Begin, Statuses
  <2>. QED BY <1>4, <2>1, <2>3 DEF ReapNext
<1>5. ASSUME NEW w \in Procs, Progress(w) PROVE ServiceTypeOK'
  <2>1. txn[w] \in Transactions
    BY <1>5, BegunTyped DEF Progress, At, ReserveItem, ReserveReject,
       ReserveSelect, ReserveInsert, ReserveOverwrite,
       FinalizeUnknown, FinalizeNoOp, FinalizeFind, FinalizeItem,
       FinalizeCheckFails, FinalizeCommit, Reply
  <2>2. status[txn[w].order] \in Statuses
    BY <2>1 DEF LedgerTypeOK
  <2>3. CASE ReserveItem(w)
    BY <2>1, <2>3 DEF ReserveItem
  <2>4. CASE ReserveSelect(w)
    BY <2>1, <2>2, <2>4 DEF ReserveSelect
  <2>5. CASE ReserveInsert(w) \/ ReserveOverwrite(w)
    BY <2>1, <2>5 DEF ReserveInsert, DuplicateKey, ReserveOverwrite, Ended
  <2>6. CASE FinalizeNoOp(w)
    BY <2>1, <2>6 DEF FinalizeNoOp, Ended
  <2>7. CASE FinalizeFind(w)
    BY <2>1, <2>7 DEF FinalizeFind
  <2>8. CASE FinalizeItem(w)
    BY <2>1, <2>8 DEF FinalizeItem
  <2>9. CASE FinalizeCommit(w)
    <3>1. txn[w].source \in Sources
      BY <2>9 DEF FinalizeCommit
    <3>. QED BY <2>1, <2>9, <3>1 DEF FinalizeCommit, Ended
  <2>10. CASE \/ ReserveReject(w) \/ FinalizeUnknown(w)
              \/ FinalizeCheckFails(w) \/ Reply(w)
    BY <2>10 DEF ReserveReject, FinalizeUnknown, FinalizeCheckFails, Reply
  <2>. QED BY <1>5, <2>3, <2>4, <2>5, <2>6, <2>7, <2>8, <2>9, <2>10 DEF Progress
<1>6. ASSUME NEW w \in Procs, DeadlockVictim(w) \/ Rollback(w)
      PROVE  ServiceTypeOK'
  BY <1>6, BoundsAssumption DEF DeadlockVictim, Rollback
<1>7. ASSUME NEW o \in Orders, TtlPasses(o) PROVE ServiceTypeOK'
  BY <1>7 DEF TtlPasses, serviceVars
<1>8. CASE Restart
  BY <1>8, BoundsAssumption DEF Restart
<1>9. CASE UNCHANGED vars
  BY <1>9 DEF vars, serviceVars
<1>10. ASSUME NEW s \in Seeders, NEW p \in Products, NEW n \in Levels, SeedRead(s, p, n)
       PROVE  ServiceTypeOK'
  <2>1. [step |-> "read", product |-> p, level |-> n, reserved |-> reserved[p],
         diff |-> {}] \in Seedings
    BY DEF Seedings, LedgerTypeOK
  <2>. QED BY <1>10, <2>1 DEF SeedRead
<1>11. ASSUME NEW s \in Seeders, SeedDiff(s) \/ SeedSave(s) PROVE ServiceTypeOK'
  <2>1. CASE SeedDiff(s)
    <3>1. seed[s] \in Seedings
      BY <2>1 DEF SeedDiff, Idle
    <3>2. PICK diff \in SUBSET Columns :
            seed' = [seed EXCEPT ![s].step = "save", ![s].diff = diff]
      BY <2>1 DEF SeedDiff
    <3>3. seed'[s] \in Seedings
      BY <3>1, <3>2 DEF Seedings
    <3>4. seed' \in [Seeders -> Seedings \union {Idle}]
      BY <3>2, <3>3
    <3>. QED BY <2>1, <3>4 DEF SeedDiff
  <2>2. CASE SeedSave(s)
    BY <2>2 DEF SeedSave
  <2>. QED BY <1>11, <2>1, <2>2
<1>. QED BY <1>1, <1>2, <1>3, <1>4, <1>5, <1>6, <1>7, <1>8, <1>9, <1>10, <1>11
        DEF Next

-----------------------------------------------------------------------------
(* Every step keeps TxnInv and is a step of the ledger or none. *)


LEMMA ReserveStartInv ==
  ASSUME Single, IInv, NEW w \in Workers, NEW o \in Orders, ReserveStart(w, o)
  PROVE  TxnInv'
<1>1. /\ w \in Procs /\ o \notin requested /\ UNCHANGED ledgerVars
      /\ requested' = requested \union {o}
      /\ txn'[w] = [step |-> "stock", order |-> o, source |-> "reserve",
                    done |-> {}, seen |-> "none"]
      /\ \A v \in Procs \ {w} : txn'[v] = txn[v]
  BY DEF Single, ReserveStart, Begin, IInv, ServiceTypeOK, Procs
<1>2. LocalOK(txn[w])'
  BY <1>1 DEF IInv, TxnInv, LocalOK, ledgerVars
<1>3. \A v \in Procs \ {w} : Apart(txn'[w], txn[v])
  BY <1>1 DEF IInv, TxnInv, LocalOK, Apart, Reserving
<1>. QED BY <1>1, <1>2, <1>3, LocalStep DEF IInv

LEMMA FinalizeStartInv ==
  ASSUME IInv, NEW w \in Procs, NEW o, NEW source \in Sources,
         Begin(w, o, source, "find"), UNCHANGED ledgerVars,
         requested' = requested
  PROVE  TxnInv'
<1>1. /\ txn'[w] = [step |-> "find", order |-> o, source |-> source,
                    done |-> {}, seen |-> "none"]
      /\ \A v \in Procs \ {w} : txn'[v] = txn[v]
  BY DEF Begin, IInv, ServiceTypeOK
<1>. QED BY <1>1, QuietStep DEF IInv

\* A step that locks stock row p: nobody else holds it, and a reserve found
\* enough of it.
LEMMA LockStep ==
  ASSUME IInv, NEW w \in Procs, txn[w].step # "idle", NEW p \in Products,
         ~ StockLocked(w, p), UNCHANGED ledgerVars, requested' = requested,
         txn' = [txn EXCEPT ![w].done = @ \union {p}],
         txn[w].step \in Reserving
           => reserved[p] + basket[txn[w].order][p] <= quantity[p]
  PROVE  TxnInv'
<1>1. /\ txn[w] \in Transactions
      /\ txn'[w] = [txn[w] EXCEPT !.done = @ \union {p}]
      /\ \A v \in Procs \ {w} : txn'[v] = txn[v]
  BY BegunTyped DEF IInv, ServiceTypeOK
<1>2. /\ txn'[w].step = txn[w].step /\ txn'[w].order = txn[w].order
      /\ txn'[w].source = txn[w].source /\ txn'[w].seen = txn[w].seen
      /\ txn'[w].done = txn[w].done \union {p}
  BY <1>1 DEF Transactions
<1>3. LocalOK(txn[w])'
  BY <1>2 DEF IInv, TxnInv, LocalOK, ledgerVars
<1>4. ASSUME NEW v \in Procs \ {w} PROVE Apart(txn'[w], txn[v])
  <2>1. txn[v] # Idle => p \notin txn[v].done
    BY DEF StockLocked
  <2>2. Apart(txn[w], txn[v]) /\ txn[w] # Idle
    BY BegunTyped DEF IInv, TxnInv
  <2>. QED BY <1>2, <2>1, <2>2 DEF Apart
<1>. QED BY <1>1, <1>3, <1>4, LocalStep DEF IInv

LEMMA ReserveSelectInv ==
  ASSUME IInv, NEW w \in Procs, ReserveSelect(w)
  PROVE  TxnInv'
<1>1. /\ txn[w] \in Transactions /\ txn[w].step = "stock" /\ txn[w] # Idle
      /\ UNCHANGED ledgerVars /\ requested' = requested
      /\ txn'[w] = [txn[w] EXCEPT !.step = "save", !.seen = status[txn[w].order]]
      /\ \A v \in Procs \ {w} : txn'[v] = txn[v]
      /\ Left(w) = {}
  BY BegunTyped DEF IInv, ServiceTypeOK, ReserveSelect, At
<1>2. /\ txn'[w].step = "save" /\ txn'[w].order = txn[w].order
      /\ txn'[w].done = txn[w].done
      /\ txn'[w].seen = status[txn[w].order]
  BY <1>1 DEF Transactions
<1>3. LocalOK(txn[w])'
  BY <1>1, <1>2 DEF IInv, TxnInv, LocalOK, Left, ledgerVars, Reserving
<1>4. \A v \in Procs \ {w} : Apart(txn'[w], txn[v])
  BY <1>1, <1>2 DEF IInv, TxnInv, Apart, Reserving
<1>. QED BY <1>1, <1>3, <1>4, LocalStep DEF IInv

LEMMA FinalizeFindInv ==
  ASSUME IInv, NEW w \in Procs, FinalizeFind(w)
  PROVE  TxnInv'
<1>1. /\ txn[w] \in Transactions /\ txn[w].step = "find" /\ txn[w] # Idle
      /\ UNCHANGED ledgerVars /\ requested' = requested
      /\ txn'[w] = [txn[w] EXCEPT !.step = "items"]
      /\ \A v \in Procs \ {w} : txn'[v] = txn[v]
      /\ status[txn[w].order] = "held" /\ ~ RowLocked(w, txn[w].order)
  BY BegunTyped DEF IInv, ServiceTypeOK, FinalizeFind, At
<1>2. /\ txn'[w].step = "items" /\ txn'[w].order = txn[w].order
      /\ txn'[w].done = txn[w].done /\ txn'[w].source = txn[w].source
  BY <1>1 DEF Transactions
<1>3. LocalOK(txn[w])'
  BY <1>1, <1>2 DEF IInv, TxnInv, LocalOK, ledgerVars, Reserving
<1>4. \A v \in Procs \ {w} : Apart(txn'[w], txn[v])
  BY <1>1, <1>2 DEF IInv, TxnInv, Apart, Reserving, RowLocked, At
<1>. QED BY <1>1, <1>3, <1>4, LocalStep DEF IInv

\* The insert: every product of the order is locked and was found available.
LEMMA ReserveInsertInv ==
  ASSUME IInv, NEW w \in Procs, ReserveInsert(w)
  PROVE  TxnInv' /\ txn[w].order \in Orders /\ Reserve(txn[w].order)
<1> DEFINE o == txn[w].order
<1>1. /\ txn[w] \in Transactions /\ txn[w].step = "save" /\ txn[w] # Idle
      /\ o \in Orders /\ status[o] = "none" /\ o \in requested
      /\ basket \in [Orders -> [Products -> Nat]]
      /\ reserved \in [Products -> Nat] /\ quantity \in [Products -> Nat]
      /\ status \in [Orders -> Statuses]
  BY BegunTyped, BasketsAssumption
     DEF IInv, LedgerInv, LedgerTypeOK, ReserveInsert, At, Transactions,
         TxnInv, LocalOK, Reserving
<1>2. \A p \in Products :
        /\ basket[o][p] > 0 => p \in txn[w].done
        /\ p \in txn[w].done => reserved[p] + basket[o][p] <= quantity[p]
  BY <1>1 DEF IInv, TxnInv, LocalOK, Reserving
<1>3. \A p \in Products : reserved[p] + basket[o][p] <= quantity[p]
  BY <1>1, <1>2 DEF IInv, LedgerInv, ReservedBounds
<1>4. Reserve(o)
  BY <1>1, <1>3 DEF Reserve, ReserveInsert
<1>5. /\ status' = [status EXCEPT ![o] = "held"]
      /\ reserved' = [p \in Products |-> reserved[p] + basket[o][p]]
      /\ quantity' = quantity /\ basket' = basket /\ requested' = requested
      /\ txn'[w].step = "reply" /\ txn'[w].done = {}
      /\ \A v \in Procs \ {w} : txn'[v] = txn[v]
  BY <1>1 DEF ReserveInsert, HoldUnits, Ended, IInv, ServiceTypeOK, Transactions
<1>6. \A q \in Orders : status'[q] # "none" => q \in requested'
  BY <1>1, <1>5 DEF IInv, TxnInv
<1>7. ASSUME NEW v \in Procs PROVE LocalOK(txn[v])'
  <2>1. CASE v = w
    BY <1>5, <2>1 DEF LocalOK, Reserving
  <2>2. CASE v # w
    <3>1. Apart(txn[w], txn[v]) /\ LocalOK(txn[v]) /\ txn'[v] = txn[v]
      BY <1>5, <2>2 DEF IInv, TxnInv
    <3>2. txn[v].step # "idle" => txn[v] \in Transactions /\ txn[v] # Idle
      BY BegunTyped DEF IInv
    <3>3. ASSUME txn[v].step \in Reserving
          PROVE  /\ txn[v].order # o /\ txn[v].order \in Orders
                 /\ \A p \in txn[v].done :
                      p \in Products /\ reserved'[p] = reserved[p]
      BY <1>1, <1>2, <1>5, <3>1, <3>2, <3>3 DEF Apart, Reserving, Transactions
    <3>4. txn[v].step = "items" => txn[v].order # o /\ txn[v].order \in Orders
      BY <1>1, <3>1, <3>2 DEF LocalOK, Transactions
    <3>5. txn[v].step = "save" => txn[v].step \in Reserving
      BY DEF Reserving
    <3>. QED BY <1>1, <1>5, <3>1, <3>3, <3>4, <3>5 DEF LocalOK
  <2>. QED BY <2>1, <2>2
<1>8. \A u, v \in Procs : u # v => Apart(txn'[u], txn'[v])
  BY <1>5 DEF IInv, TxnInv, Apart, Reserving
<1>9. TxnInv'
  BY <1>6, <1>7, <1>8 DEF TxnInv, Apart
<1>. QED BY <1>1, <1>4, <1>9

\* The commit of a finalize: its reservation is still held, and the rows it
\* changes are locked, so nobody relies on what they were.
LEMMA FinalizeCommitInv ==
  ASSUME IInv, NEW w \in Procs, FinalizeCommit(w)
  PROVE  /\ TxnInv'
         /\ txn[w].order \in Orders
         /\ \E action \in Actions : Finalize(txn[w].order, action)
<1> DEFINE o == txn[w].order
           action == ActionOf(txn[w].source)
<1>1. /\ txn[w] \in Transactions /\ txn[w].step = "items" /\ txn[w] # Idle
      /\ o \in Orders /\ status[o] = "held"
      /\ basket \in [Orders -> [Products -> Nat]]
      /\ reserved \in [Products -> Nat] /\ quantity \in [Products -> Nat]
      /\ status \in [Orders -> Statuses]
      /\ action \in Actions
  BY BegunTyped, BasketsAssumption
     DEF IInv, LedgerInv, LedgerTypeOK, FinalizeCommit, At, Transactions,
         TxnInv, LocalOK, ActionOf, Actions
<1>2. \A p \in Products : basket[o][p] > 0 => p \in txn[w].done
  BY <1>1 DEF FinalizeCommit, Left
<1>3. Finalize(o, action)
  BY <1>1 DEF Finalize, FinalizeCommit
<1>4. /\ status' = [status EXCEPT
           ![o] = IF action = "commit" THEN "committed" ELSE "released"]
      /\ reserved' = [p \in Products |-> reserved[p] - basket[o][p]]
      /\ quantity' = IF action = "commit"
                       THEN [p \in Products |-> quantity[p] - basket[o][p]]
                       ELSE quantity
      /\ basket' = basket /\ requested' = requested
      /\ txn'[w].step = "reply" /\ txn'[w].done = {}
      /\ \A v \in Procs \ {w} : txn'[v] = txn[v]
  BY <1>1 DEF FinalizeCommit, ReturnUnits, Ended, IInv, ServiceTypeOK, Transactions
<1>5. \A q \in Orders : status'[q] # "none" => q \in requested'
  BY <1>1, <1>4 DEF IInv, TxnInv
<1>6. ASSUME NEW v \in Procs PROVE LocalOK(txn[v])'
  <2>1. CASE v = w
    BY <1>4, <2>1 DEF LocalOK, Reserving
  <2>2. CASE v # w
    <3>1. Apart(txn[w], txn[v]) /\ LocalOK(txn[v]) /\ txn'[v] = txn[v]
      BY <1>4, <2>2 DEF IInv, TxnInv
    <3>2. txn[v].step # "idle" => txn[v] \in Transactions /\ txn[v] # Idle
      BY BegunTyped DEF IInv
    <3>3. ASSUME txn[v].step \in Reserving
          PROVE  /\ txn[v].order # o /\ txn[v].order \in Orders
                 /\ \A p \in txn[v].done :
                      /\ p \in Products
                      /\ reserved'[p] = reserved[p]
                      /\ quantity'[p] = quantity[p]
      <4>1. /\ txn[v] \in Transactions /\ txn[v] # Idle
            /\ status[txn[v].order] = "none"
        BY <3>1, <3>2, <3>3 DEF LocalOK, Reserving
      <4>2. txn[v].order # o /\ txn[v].order \in Orders
        BY <1>1, <4>1 DEF Transactions
      <4>3. ASSUME NEW p \in txn[v].done
            PROVE  p \in Products /\ basket[o][p] = 0
        BY <1>1, <1>2, <3>1, <4>1 DEF Apart, Transactions
      <4>. QED BY <1>1, <1>4, <4>2, <4>3
    <3>4. txn[v].step = "items" => txn[v].order # o /\ txn[v].order \in Orders
      BY <1>1, <3>1, <3>2 DEF Apart, Transactions
    <3>5. txn[v].step = "save" => txn[v].step \in Reserving
      BY DEF Reserving
    <3>. QED BY <1>1, <1>4, <3>1, <3>3, <3>4, <3>5 DEF LocalOK
  <2>. QED BY <2>1, <2>2
<1>7. \A u, v \in Procs : u # v => Apart(txn'[u], txn'[v])
  BY <1>4 DEF IInv, TxnInv, Apart, Reserving
<1>8. TxnInv'
  BY <1>5, <1>6, <1>7 DEF TxnInv, Apart
<1>. QED BY <1>1, <1>3, <1>8

\* With one delivery of each request, save never finds a row.
LEMMA NoOverwrite ==
  ASSUME IInv, NEW w \in Procs, At(w, "save")
  PROVE  txn[w].seen = "none" /\ status[txn[w].order] = "none"
BY DEF IInv, TxnInv, LocalOK, At, Reserving

LEMMA StepInv ==
  ASSUME Single, IInv, [Next]_vars
  PROVE  TxnInv' /\ [LedgerNext]_ledgerVars
<1> DEFINE Goal == TxnInv' /\ [LedgerNext]_ledgerVars
<1>1. ASSUME NEW w \in Workers, NEW o \in Orders, ReserveStart(w, o)
      PROVE  Goal
  BY <1>1, ReserveStartInv DEF ReserveStart
<1>2. ASSUME NEW w \in Workers, NEW o \in Orders, NEW source \in Requests,
             FinalizeStart(w, o, source)
      PROVE  Goal
  BY <1>2, FinalizeStartInv DEF FinalizeStart, Procs, Sources
<1>3. ASSUME NEW r \in Reapers, ReapClaim(r) PROVE Goal
  BY <1>3 DEF ReapClaim, ledgerVars, IInv, TxnInv, LocalOK
<1>4. ASSUME NEW r \in Reapers, ReapNext(r) PROVE Goal
  <2>1. PICK o \in claimed[r] : Begin(r, o, "reaper", "find")
    BY <1>4 DEF ReapNext
  <2>. QED BY <1>4, <2>1, FinalizeStartInv DEF ReapNext, Procs, Sources
<1>5. ASSUME NEW w \in Procs, Progress(w) PROVE Goal
  <2>1. CASE ReserveItem(w)
    <3>1. PICK p \in Products :
            /\ reserved[p] + basket[txn[w].order][p] <= quantity[p]
            /\ ~ StockLocked(w, p)
            /\ txn' = [txn EXCEPT ![w].done = @ \union {p}]
      BY <2>1 DEF ReserveItem
    <3>. QED BY <2>1, <3>1, LockStep DEF ReserveItem, At
  <2>2. CASE FinalizeItem(w)
    <3>1. PICK p \in Products :
            /\ ~ StockLocked(w, p)
            /\ txn' = [txn EXCEPT ![w].done = @ \union {p}]
      BY <2>2 DEF FinalizeItem
    <3>. QED BY <2>2, <3>1, LockStep DEF FinalizeItem, At, Reserving
  <2>3. CASE ReserveSelect(w)
    BY <2>3, ReserveSelectInv DEF ReserveSelect
  <2>4. CASE ReserveInsert(w)
    BY <2>4, ReserveInsertInv DEF LedgerNext
  <2>5. CASE ReserveOverwrite(w)
    BY <2>5, NoOverwrite DEF ReserveOverwrite
  <2>6. CASE FinalizeNoOp(w)
    <3>1. txn[w] \in Transactions
      BY <2>6, BegunTyped DEF IInv, FinalizeNoOp, At
    <3>2. /\ txn'[w].step = "reply" /\ txn'[w].done = {}
          /\ \A v \in Procs \ {w} : txn'[v] = txn[v]
          /\ UNCHANGED ledgerVars /\ requested' = requested
      BY <2>6, <3>1 DEF FinalizeNoOp, Ended, IInv, ServiceTypeOK, Transactions
    <3>. QED BY <3>2, QuietStep DEF IInv
  <2>7. CASE FinalizeFind(w)
    BY <2>7, FinalizeFindInv DEF FinalizeFind
  <2>8. CASE FinalizeCommit(w)
    BY <2>8, FinalizeCommitInv DEF LedgerNext
  <2>9. CASE \/ ReserveReject(w) \/ FinalizeUnknown(w)
             \/ FinalizeCheckFails(w) \/ Reply(w)
    BY <2>9, IdleStep DEF IInv, ReserveReject, FinalizeUnknown,
                          FinalizeCheckFails, Reply
  <2>. QED BY <1>5, <2>1, <2>2, <2>3, <2>4, <2>5, <2>6, <2>7, <2>8, <2>9
           DEF Progress
<1>6. ASSUME NEW w \in Procs, DeadlockVictim(w) \/ Rollback(w) PROVE Goal
  BY <1>6, IdleStep DEF IInv, DeadlockVictim, Rollback
<1>7. ASSUME NEW o \in Orders, TtlPasses(o) PROVE Goal
  <2>1. LedgerNext
    BY <1>7 DEF TtlPasses, LedgerNext
  <2>. QED BY <1>7, <2>1 DEF TtlPasses, Expire, serviceVars, IInv, TxnInv, LocalOK
<1>8. CASE Restart
  BY <1>8 DEF Restart, ledgerVars, IInv, TxnInv, LocalOK, Apart, Idle, Reserving
<1>9. CASE UNCHANGED vars
  BY <1>9 DEF vars, ledgerVars, serviceVars, IInv, TxnInv, LocalOK, Apart
<1>. QED BY <1>1, <1>2, <1>3, <1>4, <1>5, <1>6, <1>7, <1>8, <1>9
        DEF Next, Single

LEMMA IInvStep ==
  ASSUME Single, IInv, [Next]_vars
  PROVE  IInv'
<1>1. TxnInv' /\ [LedgerNext]_ledgerVars
  BY StepInv
<1>2. LedgerInv'
  BY <1>1, LedgerStepInv DEF IInv
<1>3. \A w \in Procs : At(w, "items") => txn[w].source \in Sources
  BY DEF IInv, TxnInv, LocalOK, At
<1>4. ServiceTypeOK'
  BY <1>3, TypeStep DEF IInv, LedgerInv
<1>. QED BY <1>1, <1>2, <1>4 DEF IInv

-----------------------------------------------------------------------------
\* The inductive invariant: LedgerInv of the tables, TxnInv of what the
\* transactions in flight rely on.
THEOREM InventoryInvariant ==
  ASSUME Single
  PROVE  Spec => []IInv
<1>1. IInv /\ [Next]_vars => IInv'
  BY IInvStep
<1>. QED BY <1>1, InitInv, PTL DEF Spec

(***************************************************************************)
(* The service implements the ledger: whatever the interleaving of its     *)
(* statements, the rollbacks and the restarts, what reaches the tables is  *)
(* a sequence of atomic Reserve and Finalize steps, each at most once per  *)
(* order.                                                                  *)
(***************************************************************************)
THEOREM InventoryImplementsLedger ==
  ASSUME Single
  PROVE  Spec => LedgerSpec
<1>1. Init => LedgerInit
  BY DEF Init
<1>2. IInv /\ [Next]_vars => [LedgerNext]_ledgerVars
  BY StepInv
<1>. QED BY <1>1, <1>2, InventoryInvariant, PTL DEF Spec, LedgerSpec

\* So `reserved` always counts the units of the held reservations, these fit
\* the stock, and it leaves only with committed orders.
THEOREM InventoryKeepsStock ==
  ASSUME Single
  PROVE  Spec => [](ReservedMatchesHeld /\ HeldFitsStock /\ StockConserved)
<1>1. IInv => ReservedMatchesHeld /\ HeldFitsStock /\ StockConserved
  BY DEF IInv, LedgerInv, ReservedMatchesHeld, ReservedBounds, HeldFitsStock
<1>. QED BY <1>1, InventoryInvariant, PTL

-----------------------------------------------------------------------------
(***************************************************************************)
(* What holds whatever is delivered again and whatever PUT /stock writes:  *)
(* the counter may drift from the reservations, but a transaction found    *)
(* what it needs in the rows it has locked, and nobody else writes those.  *)
(***************************************************************************)
Backed(t) ==
  /\ t.step \in {"find", "reply"} => t.done = {}
  /\ t.step \in {"find", "items"} => t.source \in Sources
  /\ t.step \in Reserving =>
       \A p \in t.done : reserved[p] + basket[t.order][p] <= quantity[p]
  /\ t.step = "save" => \A p \in Products : basket[t.order][p] > 0 => p \in t.done
  /\ t.step = "items" => \A p \in t.done : basket[t.order][p] <= reserved[p]

LocksApart(t, u) == t # Idle /\ u # Idle => t.done \intersect u.done = {}

BoundInv ==
  /\ LedgerTypeOK /\ ServiceTypeOK /\ ReservedBounds
  /\ \A w \in Procs : Backed(txn[w])
  /\ \A w, v \in Procs : w # v => LocksApart(txn[w], txn[v])

\* A step that writes no row of stock has only its own transaction to answer for.
LEMMA OwnStep ==
  ASSUME BoundInv, ServiceTypeOK', UNCHANGED <<basket, quantity, reserved>>,
         status' \in [Orders -> Statuses], expired' \subseteq Orders,
         NEW w \in Procs, \A v \in Procs \ {w} : txn'[v] = txn[v],
         Backed(txn[w])', \A v \in Procs \ {w} : LocksApart(txn'[w], txn[v])
  PROVE  BoundInv'
<1>1. LedgerTypeOK' /\ ReservedBounds'
  BY DEF BoundInv, LedgerTypeOK, ReservedBounds
<1>2. \A v \in Procs : Backed(txn[v])'
  <2>1. \A v \in Procs \ {w} : Backed(txn[v])'
    BY DEF BoundInv, Backed
  <2>. QED BY <2>1
<1>3. ASSUME NEW u \in Procs, NEW v \in Procs, u # v PROVE LocksApart(txn'[u], txn'[v])
  BY <1>3 DEF BoundInv, LocksApart
<1>. QED BY <1>1, <1>2, <1>3 DEF BoundInv, LocksApart

\* A transaction that begins, goes back to idle or is left with its answer.
LEMMA EmptyStep ==
  ASSUME BoundInv, ServiceTypeOK', UNCHANGED <<basket, quantity, reserved>>,
         status' \in [Orders -> Statuses], expired' \subseteq Orders,
         NEW w \in Procs, \A v \in Procs \ {w} : txn'[v] = txn[v],
         txn'[w] # Idle =>
           /\ txn'[w].done = {} /\ txn'[w].step \in {"stock", "find", "reply"}
           /\ txn'[w].step = "find" => txn'[w].source \in Sources
  PROVE  BoundInv'
<1>1. Backed(txn[w])'
  BY DEF Backed, Reserving, Idle
<1>2. \A v \in Procs \ {w} : LocksApart(txn'[w], txn[v])
  BY DEF LocksApart
<1>. QED BY <1>1, <1>2, OwnStep

\* One more row locked: nobody else has it, and it was found good for the step.
LEMMA LockRowStep ==
  ASSUME BoundInv, ServiceTypeOK', UNCHANGED ledgerVars,
         NEW w \in Procs, txn[w].step \in {"stock", "items"},
         NEW p \in Products, ~ StockLocked(w, p),
         txn' = [txn EXCEPT ![w].done = @ \union {p}],
         At(w, "stock") => reserved[p] + basket[txn[w].order][p] <= quantity[p],
         At(w, "items") => basket[txn[w].order][p] <= reserved[p]
  PROVE  BoundInv'
<1>1. /\ txn[w] \in Transactions /\ txn[w] # Idle
      /\ txn'[w] = [txn[w] EXCEPT !.done = @ \union {p}]
      /\ \A v \in Procs \ {w} : txn'[v] = txn[v]
  BY BegunTyped DEF BoundInv, ServiceTypeOK
<1>2. /\ txn'[w].step = txn[w].step /\ txn'[w].order = txn[w].order
      /\ txn'[w].source = txn[w].source
      /\ txn'[w].done = txn[w].done \union {p}
  BY <1>1 DEF Transactions
<1>3. Backed(txn[w])'
  BY <1>2 DEF BoundInv, Backed, Reserving, At, ledgerVars
<1>4. ASSUME NEW v \in Procs \ {w} PROVE LocksApart(txn'[w], txn[v])
  <2>1. txn[v] # Idle => p \notin txn[v].done
    BY DEF StockLocked
  <2>2. LocksApart(txn[w], txn[v])
    BY DEF BoundInv
  <2>. QED BY <1>1, <1>2, <2>1, <2>2 DEF LocksApart
<1>. QED BY <1>1, <1>3, <1>4, OwnStep DEF BoundInv, LedgerTypeOK, ledgerVars

\* What a transaction writes at its commit are rows nobody else has locked.
LEMMA WriteStep ==
  ASSUME BoundInv, ServiceTypeOK', basket' = basket,
         status' \in [Orders -> Statuses], expired' \subseteq Orders,
         NEW w \in Procs, txn[w] \in Transactions, txn[w] # Idle,
         \A p \in Products : basket[txn[w].order][p] > 0 => p \in txn[w].done,
         txn' = Ended(w),
         quantity' \in [Products -> Nat], reserved' \in [Products -> Nat],
         \A p \in Products : reserved'[p] <= quantity'[p],
         \A p \in Products : basket[txn[w].order][p] = 0 =>
           reserved'[p] = reserved[p] /\ quantity'[p] = quantity[p]
  PROVE  BoundInv'
<1>1. /\ txn'[w].step = "reply" /\ txn'[w].done = {}
      /\ \A v \in Procs \ {w} : txn'[v] = txn[v]
  BY DEF Ended, BoundInv, ServiceTypeOK, Transactions
<1>2. LedgerTypeOK' /\ ReservedBounds'
  BY DEF BoundInv, LedgerTypeOK, ReservedBounds
<1>3. basket \in [Orders -> [Products -> Nat]] /\ txn[w].order \in Orders
  BY BasketsAssumption DEF BoundInv, LedgerTypeOK, Transactions
<1>4. ASSUME NEW v \in Procs PROVE Backed(txn[v])'
  <2>1. CASE v = w
    BY <1>1, <2>1 DEF Backed, Reserving
  <2>2. CASE v # w
    <3>1. txn'[v] = txn[v] /\ Backed(txn[v]) /\ LocksApart(txn[w], txn[v])
      BY <1>1, <2>2 DEF BoundInv
    <3>2. ASSUME txn[v].step \in {"stock", "save", "items"}, NEW p \in txn[v].done
          PROVE  reserved'[p] = reserved[p] /\ quantity'[p] = quantity[p]
      <4>1. txn[v] \in Transactions /\ txn[v] # Idle
        BY <3>2, BegunTyped DEF BoundInv
      <4>2. p \in Products /\ p \notin txn[w].done
        BY <3>1, <3>2, <4>1 DEF LocksApart, Transactions
      <4>. QED BY <1>3, <4>2
    <3>. QED BY <3>1, <3>2 DEF Backed, Reserving
  <2>. QED BY <2>1, <2>2
<1>5. \A u, v \in Procs : u # v => LocksApart(txn'[u], txn'[v])
  BY <1>1 DEF BoundInv, LocksApart
<1>. QED BY <1>2, <1>4, <1>5 DEF BoundInv, LocksApart

\* A reserve writes its units, to a new row or over one it found.
LEMMA ReserveWrites ==
  ASSUME BoundInv, ServiceTypeOK', NEW w \in Procs, At(w, "save"),
         HoldUnits(txn[w].order), txn' = Ended(w), basket' = basket,
         status' \in [Orders -> Statuses], expired' \subseteq Orders
  PROVE  BoundInv'
<1> DEFINE o == txn[w].order
<1>1. /\ txn[w] \in Transactions /\ txn[w] # Idle /\ o \in Orders
      /\ basket \in [Orders -> [Products -> Nat]]
      /\ reserved \in [Products -> Nat] /\ quantity \in [Products -> Nat]
  BY BegunTyped, BasketsAssumption DEF BoundInv, LedgerTypeOK, At, Transactions
<1>2. \A p \in Products :
        /\ basket[o][p] > 0 => p \in txn[w].done
        /\ p \in txn[w].done => reserved[p] + basket[o][p] <= quantity[p]
        /\ reserved[p] <= quantity[p]
  BY DEF BoundInv, Backed, At, Reserving, ReservedBounds
<1>3. /\ reserved' = [p \in Products |-> reserved[p] + basket[o][p]]
      /\ quantity' = quantity
  BY DEF HoldUnits
<1>4. /\ reserved' \in [Products -> Nat]
      /\ \A p \in Products : reserved'[p] <= quantity'[p]
      /\ \A p \in Products : basket[o][p] = 0 =>
           reserved'[p] = reserved[p] /\ quantity'[p] = quantity[p]
  BY <1>1, <1>2, <1>3
<1>. QED BY <1>1, <1>2, <1>3, <1>4, WriteStep

\* A finalize takes its units out of rows that have them.
LEMMA FinalizeWrites ==
  ASSUME BoundInv, ServiceTypeOK', NEW w \in Procs, FinalizeCommit(w)
  PROVE  BoundInv'
<1> DEFINE o == txn[w].order
           action == ActionOf(txn[w].source)
<1>1. /\ txn[w] \in Transactions /\ txn[w] # Idle /\ o \in Orders
      /\ basket \in [Orders -> [Products -> Nat]]
      /\ reserved \in [Products -> Nat] /\ quantity \in [Products -> Nat]
  BY BegunTyped, BasketsAssumption
     DEF BoundInv, LedgerTypeOK, FinalizeCommit, At, Transactions
<1>2. \A p \in Products : basket[o][p] > 0 => p \in txn[w].done
  BY <1>1 DEF FinalizeCommit, Left
<1>3. \A p \in Products : basket[o][p] <= reserved[p] /\ reserved[p] <= quantity[p]
  <2>1. \A p \in txn[w].done : basket[o][p] <= reserved[p]
    BY DEF BoundInv, Backed, FinalizeCommit, At
  <2>. QED BY <1>1, <1>2, <2>1 DEF BoundInv, ReservedBounds
<1>4. /\ reserved' = [p \in Products |-> reserved[p] - basket[o][p]]
      /\ quantity' = IF action = "commit"
                       THEN [p \in Products |-> quantity[p] - basket[o][p]]
                       ELSE quantity
  BY DEF FinalizeCommit, ReturnUnits
<1>5. /\ reserved' \in [Products -> Nat] /\ quantity' \in [Products -> Nat]
      /\ \A p \in Products : reserved'[p] <= quantity'[p]
      /\ \A p \in Products : basket[o][p] = 0 =>
           reserved'[p] = reserved[p] /\ quantity'[p] = quantity[p]
  <2>1. \A p \in Products :
          /\ reserved[p] - basket[o][p] \in Nat
          /\ quantity[p] - basket[o][p] \in Nat
          /\ reserved[p] - basket[o][p] <= quantity[p] - basket[o][p]
          /\ reserved[p] - basket[o][p] <= quantity[p]
    BY <1>1, <1>3
  <2>2. CASE action = "commit"
    BY <1>1, <1>4, <2>1, <2>2
  <2>3. CASE action # "commit"
    BY <1>1, <1>4, <2>1, <2>3
  <2>. QED BY <2>2, <2>3
<1>6. /\ status' \in [Orders -> Statuses] /\ expired' \subseteq Orders
      /\ basket' = basket /\ txn' = Ended(w)
  BY DEF FinalizeCommit, BoundInv, LedgerTypeOK, Statuses
<1>. QED BY <1>1, <1>2, <1>5, <1>6, WriteStep

\* PUT /stock writes a row nobody has locked, and the CHECK has its say.
LEMMA SeedWrites ==
  ASSUME BoundInv, ServiceTypeOK', NEW s \in Seeders, SeedSave(s)
  PROVE  BoundInv'
<1> DEFINE p == seed[s].product
           q == IF "quantity" \in seed[s].diff THEN seed[s].level ELSE quantity[p]
           r == IF "reserved" \in seed[s].diff THEN seed[s].reserved ELSE reserved[p]
<1>1. /\ seed[s] \in Seedings /\ p \in Products
      /\ reserved \in [Products -> Nat] /\ quantity \in [Products -> Nat]
  BY DEF BoundInv, ServiceTypeOK, LedgerTypeOK, SeedSave, Seedings, Idle
<1>2. q \in Nat /\ r \in Nat
  BY <1>1, LevelsAssumption DEF Seedings
<1>3. /\ seed[s].diff = {} \/ ~ Locked(p)
      /\ \/ /\ r <= q
            /\ quantity' = [quantity EXCEPT ![p] = q]
            /\ reserved' = [reserved EXCEPT ![p] = r]
         \/ UNCHANGED <<quantity, reserved>>
      /\ UNCHANGED <<basket, status, expired, txn>>
  BY DEF SeedSave
<1>4. LedgerTypeOK' /\ ReservedBounds'
  BY <1>1, <1>2, <1>3 DEF BoundInv, LedgerTypeOK, ReservedBounds
<1>5. ASSUME NEW w \in Procs PROVE Backed(txn[w])'
  <2>1. ASSUME txn[w].step \in {"stock", "save", "items"}, NEW d \in txn[w].done
        PROVE  reserved'[d] = reserved[d] /\ quantity'[d] = quantity[d]
    <3>1. txn[w] \in Transactions /\ txn[w] # Idle
      BY <2>1, BegunTyped DEF BoundInv
    <3>2. d \in Products
      BY <2>1, <3>1 DEF Transactions
    <3>3. CASE seed[s].diff = {}
      BY <1>1, <1>3, <3>2, <3>3
    <3>4. CASE ~ Locked(p)
      <4>1. d # p
        BY <2>1, <3>1, <3>4 DEF Locked
      <4>. QED BY <1>1, <1>3, <3>2, <4>1
    <3>. QED BY <1>3, <3>3, <3>4
  <2>2. Backed(txn[w]) /\ txn'[w] = txn[w]
    BY <1>3 DEF BoundInv
  <2>. QED BY <1>3, <2>1, <2>2 DEF Backed, Reserving
<1>6. \A u, v \in Procs : u # v => LocksApart(txn'[u], txn'[v])
  BY <1>3 DEF BoundInv
<1>. QED BY <1>4, <1>5, <1>6 DEF BoundInv, LocksApart

\* Steps that leave the tables and the transactions alone, but for a TTL.
LEMMA AsideStep ==
  ASSUME BoundInv, ServiceTypeOK', UNCHANGED <<basket, quantity, reserved, status, txn>>,
         expired' \subseteq Orders
  PROVE  BoundInv'
BY DEF BoundInv, LedgerTypeOK, ReservedBounds, Backed, LocksApart

LEMMA BoundStep ==
  ASSUME BoundInv, [Next]_vars
  PROVE  BoundInv'
<1>1. ServiceTypeOK'
  BY TypeStep DEF BoundInv, Backed, At
<1>2. /\ status \in [Orders -> Statuses] /\ expired \subseteq Orders
      /\ txn \in [Procs -> Transactions \union {Idle}]
  BY DEF BoundInv, LedgerTypeOK, ServiceTypeOK
<1> USE <1>1, <1>2
<1>3. ASSUME NEW w \in Procs, NEW o, NEW source, NEW first \in {"stock", "find"},
             Begin(w, o, source, first), first = "find" => source \in Sources,
             UNCHANGED ledgerVars
      PROVE  BoundInv'
  <2>1. /\ txn'[w] = [step |-> first, order |-> o, source |-> source, done |-> {},
                      seen |-> "none"]
        /\ \A v \in Procs \ {w} : txn'[v] = txn[v]
    BY <1>3 DEF Begin
  <2>. QED BY <1>3, <2>1, EmptyStep DEF ledgerVars
<1>4. ASSUME NEW w \in Procs, txn' = [txn EXCEPT ![w] = Idle], UNCHANGED ledgerVars
      PROVE  BoundInv'
  BY <1>4, EmptyStep DEF ledgerVars
<1>5. ASSUME NEW w \in Workers, NEW o \in Orders,
             \/ ReserveStart(w, o)
             \/ \E source \in Requests : FinalizeStart(w, o, source)
      PROVE  BoundInv'
  BY <1>3, <1>5 DEF ReserveStart, FinalizeStart, Procs, Sources
<1>6. ASSUME NEW r \in Reapers, ReapClaim(r) PROVE BoundInv'
  BY <1>6, AsideStep DEF ReapClaim, ledgerVars
<1>7. ASSUME NEW r \in Reapers, ReapNext(r) PROVE BoundInv'
  BY <1>3, <1>7 DEF ReapNext, Procs, Sources
<1>8. ASSUME NEW w \in Procs, Progress(w) PROVE BoundInv'
  <2>1. ASSUME ReserveItem(w) PROVE BoundInv'
    BY <2>1, LockRowStep DEF ReserveItem, At
  <2>2. ASSUME FinalizeItem(w) PROVE BoundInv'
    BY <2>2, LockRowStep DEF FinalizeItem, At
  <2>3. ASSUME ReserveSelect(w) PROVE BoundInv'
    <3>1. /\ txn[w] \in Transactions /\ txn[w] # Idle /\ txn[w].step = "stock"
          /\ Left(w) = {} /\ UNCHANGED ledgerVars
          /\ txn'[w] = [txn[w] EXCEPT !.step = "save", !.seen = status[txn[w].order]]
          /\ \A v \in Procs \ {w} : txn'[v] = txn[v]
      BY <2>3, BegunTyped DEF ReserveSelect, At, BoundInv
    <3>2. /\ txn'[w].step = "save" /\ txn'[w].order = txn[w].order
          /\ txn'[w].done = txn[w].done
      BY <3>1 DEF Transactions
    <3>3. \A p \in Products : basket[txn[w].order][p] > 0 => p \in txn[w].done
      BY <3>1 DEF Left
    <3>4. Backed(txn[w])'
      BY <3>1, <3>2, <3>3 DEF BoundInv, Backed, Reserving, ledgerVars
    <3>5. \A v \in Procs \ {w} : LocksApart(txn'[w], txn[v])
      BY <3>1, <3>2 DEF BoundInv, LocksApart
    <3>. QED BY <3>1, <3>4, <3>5, OwnStep DEF ledgerVars
  <2>4. ASSUME ReserveInsert(w) PROVE BoundInv'
    <3>1. CASE status[txn[w].order] = "none"
      BY <2>4, <3>1, ReserveWrites DEF ReserveInsert, Statuses
    <3>2. CASE status[txn[w].order] # "none"
      BY <1>4, <2>4, <3>2 DEF ReserveInsert, DuplicateKey, ledgerVars
    <3>. QED BY <3>1, <3>2
  <2>5. ASSUME ReserveOverwrite(w) PROVE BoundInv'
    BY <2>5, ReserveWrites DEF ReserveOverwrite, Statuses
  <2>6. ASSUME FinalizeNoOp(w) PROVE BoundInv'
    <3>1. txn[w] \in Transactions
      BY <2>6, BegunTyped DEF FinalizeNoOp, At, BoundInv
    <3>2. /\ txn'[w].step = "reply" /\ txn'[w].done = {}
          /\ \A v \in Procs \ {w} : txn'[v] = txn[v]
      BY <2>6, <3>1 DEF FinalizeNoOp, Ended, Transactions
    <3>. QED BY <2>6, <3>2, EmptyStep DEF FinalizeNoOp, ledgerVars
  <2>7. ASSUME FinalizeFind(w) PROVE BoundInv'
    <3>1. /\ txn[w] \in Transactions /\ txn[w] # Idle /\ txn[w].step = "find"
          /\ UNCHANGED ledgerVars
          /\ txn'[w] = [txn[w] EXCEPT !.step = "items"]
          /\ \A v \in Procs \ {w} : txn'[v] = txn[v]
      BY <2>7, BegunTyped DEF FinalizeFind, At, BoundInv
    <3>2. /\ txn'[w].step = "items" /\ txn'[w].source = txn[w].source
          /\ txn'[w].done = txn[w].done
      BY <3>1 DEF Transactions
    <3>3. txn[w].done = {} /\ txn[w].source \in Sources
      BY <3>1 DEF BoundInv, Backed
    <3>4. Backed(txn[w])'
      BY <3>2, <3>3 DEF Backed, Reserving
    <3>5. \A v \in Procs \ {w} : LocksApart(txn'[w], txn[v])
      BY <3>2, <3>3 DEF LocksApart
    <3>. QED BY <3>1, <3>4, <3>5, OwnStep DEF ledgerVars
  <2>8. ASSUME FinalizeCommit(w) PROVE BoundInv'
    BY <2>8, FinalizeWrites
  <2>9. ASSUME \/ ReserveReject(w) \/ FinalizeUnknown(w)
               \/ FinalizeCheckFails(w) \/ Reply(w)
        PROVE  BoundInv'
    BY <1>4, <2>9 DEF ReserveReject, FinalizeUnknown, FinalizeCheckFails, Reply
  <2>. QED BY <1>8, <2>1, <2>2, <2>3, <2>4, <2>5, <2>6, <2>7, <2>8, <2>9 DEF Progress
<1>9. ASSUME NEW w \in Procs, DeadlockVictim(w) \/ Rollback(w) PROVE BoundInv'
  BY <1>4, <1>9 DEF DeadlockVictim, Rollback
<1>10. ASSUME NEW s \in Seeders,
              \/ \E p \in Products, n \in Levels : SeedRead(s, p, n)
              \/ SeedDiff(s)
       PROVE  BoundInv'
  BY <1>10, AsideStep DEF SeedRead, SeedDiff, ledgerVars
<1>11. ASSUME NEW s \in Seeders, SeedSave(s) PROVE BoundInv'
  BY <1>11, SeedWrites
<1>12. ASSUME NEW o \in Orders, TtlPasses(o) PROVE BoundInv'
  BY <1>12, AsideStep DEF TtlPasses, Expire, serviceVars
<1>13. ASSUME Restart PROVE BoundInv'
  BY <1>13 DEF Restart, ledgerVars, BoundInv, LedgerTypeOK, ReservedBounds, Backed,
     LocksApart, Idle, Reserving
<1>14. ASSUME UNCHANGED vars PROVE BoundInv'
  BY <1>14, AsideStep DEF vars, ledgerVars, serviceVars
<1>. QED BY <1>5, <1>6, <1>7, <1>8, <1>9, <1>10, <1>11, <1>12, <1>13, <1>14 DEF Next

THEOREM InventoryBound == Spec => []BoundInv
<1>1. Init => BoundInv
  BY InitInv DEF Init, IInv, LedgerInv, BoundInv, Backed, LocksApart, Idle, Reserving
<1>. QED BY <1>1, BoundStep, PTL DEF Spec

\* Every variable of the service keeps its type: no counter goes below zero.
THEOREM InventoryTypes == Spec => []TypeOK
<1>1. BoundInv => TypeOK
  BY DEF BoundInv, TypeOK
<1>. QED BY <1>1, InventoryBound, PTL

-----------------------------------------------------------------------------
(***************************************************************************)
(* The row lock of a reservation, whatever is delivered again: it stays    *)
(* held until the one finalize that locked it commits.                     *)
(***************************************************************************)
RowsHeld ==
  /\ \A w \in Procs : At(w, "items") => status[txn[w].order] = "held"
  /\ \A w, v \in Procs :
       w # v /\ At(w, "items") /\ At(v, "items") => txn[w].order # txn[v].order

\* What else may change the status of a reservation: the save of a reserve.
SavedOrSettled ==
  \A o \in Orders :
    \/ status'[o] = status[o]
    \/ status[o] = "held"
    \/ \E w \in Procs : At(w, "save") /\ txn[w].order = o

\* A step of one transaction that takes no row lock of a reservation, and
\* leaves alone the reservations the others have locked.
LEMMA OtherRows ==
  ASSUME BoundInv, RowsHeld, NEW w \in Procs,
         \A v \in Procs \ {w} : txn'[v] = txn[v],
         txn'[w].step = "items" => At(w, "items") /\ txn'[w].order = txn[w].order,
         \A o \in Orders : status[o] = "held" /\ status'[o] # "held" =>
           At(w, "items") /\ ~ At(w, "items")' /\ o = txn[w].order
  PROVE  RowsHeld'
<1>1. ASSUME NEW v \in Procs, At(v, "items")'
      PROVE  At(v, "items") /\ txn'[v].order = txn[v].order
  BY <1>1 DEF At
<1>2. ASSUME NEW v \in Procs, At(v, "items")' PROVE status'[txn'[v].order] = "held"
  <2>1. At(v, "items") /\ txn'[v].order = txn[v].order /\ status[txn[v].order] = "held"
    BY <1>1, <1>2 DEF RowsHeld
  <2>2. txn[v].order \in Orders
    BY <2>1, BegunTyped DEF BoundInv, At, Transactions
  <2>. QED BY <1>2, <2>1, <2>2 DEF RowsHeld
<1>. QED BY <1>1, <1>2 DEF RowsHeld

LEMMA RowsStep ==
  ASSUME BoundInv, RowsHeld, [Next]_vars
  PROVE  RowsHeld' /\ SavedOrSettled
<1> DEFINE Goal == RowsHeld' /\ SavedOrSettled
<1>1. /\ status \in [Orders -> Statuses]
      /\ txn \in [Procs -> Transactions \union {Idle}]
  BY DEF BoundInv, LedgerTypeOK, ServiceTypeOK
<1> USE <1>1
<1>2. ASSUME status' = status, NEW w \in Procs,
             \A v \in Procs \ {w} : txn'[v] = txn[v],
             txn'[w].step = "items" => At(w, "items") /\ txn'[w].order = txn[w].order
      PROVE  Goal
  BY <1>2, OtherRows DEF SavedOrSettled
<1>3. ASSUME NEW w \in Procs, NEW o, NEW source, NEW first \in {"stock", "find"},
             Begin(w, o, source, first), status' = status
      PROVE  Goal
  <2>1. txn'[w].step = first /\ \A v \in Procs \ {w} : txn'[v] = txn[v]
    BY <1>3 DEF Begin
  <2>. QED BY <1>2, <1>3, <2>1
<1>4. ASSUME NEW w \in Procs, txn' = [txn EXCEPT ![w] = Idle], status' = status
      PROVE  Goal
  BY <1>2, <1>4 DEF Idle
<1>5. ASSUME NEW w \in Workers, NEW o \in Orders,
             \/ ReserveStart(w, o)
             \/ \E source \in Requests : FinalizeStart(w, o, source)
      PROVE  Goal
  BY <1>3, <1>5 DEF ReserveStart, FinalizeStart, Procs, ledgerVars
<1>6. ASSUME NEW r \in Reapers, ReapNext(r) PROVE Goal
  BY <1>3, <1>6 DEF ReapNext, Procs, ledgerVars
<1>7. ASSUME UNCHANGED <<status, txn>> PROVE Goal
  BY <1>7 DEF RowsHeld, At, SavedOrSettled
<1>8. ASSUME NEW w \in Procs, Progress(w) PROVE Goal
  <2>1. txn[w] \in Transactions /\ txn[w].order \in Orders
    BY <1>8, BegunTyped DEF BoundInv, Transactions, Progress, At, ReserveItem, ReserveReject,
       ReserveSelect, ReserveInsert, ReserveOverwrite, FinalizeUnknown, FinalizeNoOp,
       FinalizeFind, FinalizeItem, FinalizeCheckFails, FinalizeCommit, Reply
  <2>2. ASSUME ReserveItem(w) \/ FinalizeItem(w) PROVE Goal
    <3>1. PICK p \in Products : txn' = [txn EXCEPT ![w].done = @ \union {p}]
      BY <2>2 DEF ReserveItem, FinalizeItem
    <3>2. /\ txn'[w].step = txn[w].step /\ txn'[w].order = txn[w].order
          /\ \A v \in Procs \ {w} : txn'[v] = txn[v]
      BY <2>1, <3>1 DEF Transactions
    <3>. QED BY <1>2, <2>2, <3>2 DEF ReserveItem, FinalizeItem, At, ledgerVars
  <2>3. ASSUME ReserveSelect(w) PROVE Goal
    <3>1. txn'[w].step = "save" /\ \A v \in Procs \ {w} : txn'[v] = txn[v]
      BY <2>1, <2>3 DEF ReserveSelect, Transactions
    <3>. QED BY <1>2, <2>3, <3>1 DEF ReserveSelect, ledgerVars
  <2>4. ASSUME ReserveInsert(w) \/ ReserveOverwrite(w) PROVE Goal
    <3>1. /\ At(w, "save")
          /\ status' = status \/ status' = [status EXCEPT ![txn[w].order] = "held"]
          /\ txn' = [txn EXCEPT ![w] = Idle] \/ txn' = Ended(w)
      BY <2>4 DEF ReserveInsert, ReserveOverwrite, DuplicateKey
    <3>2. txn'[w].step # "items" /\ \A v \in Procs \ {w} : txn'[v] = txn[v]
      BY <2>1, <3>1 DEF Ended, Idle, Transactions
    <3>3. RowsHeld'
      BY <2>1, <3>1, <3>2, OtherRows
    <3>4. SavedOrSettled
      BY <2>1, <3>1 DEF SavedOrSettled
    <3>. QED BY <3>3, <3>4
  <2>5. ASSUME FinalizeFind(w) PROVE Goal
    <3>1. /\ At(w, "find") /\ ~ RowLocked(w, txn[w].order)
          /\ status[txn[w].order] = "held" /\ status' = status
          /\ txn'[w].step = "items" /\ txn'[w].order = txn[w].order
          /\ \A v \in Procs \ {w} : txn'[v] = txn[v]
      BY <2>1, <2>5 DEF FinalizeFind, ledgerVars, Transactions
    <3>2. RowsHeld'
      BY <3>1 DEF RowsHeld, At, RowLocked
    <3>. QED BY <3>1, <3>2 DEF SavedOrSettled
  <2>6. ASSUME FinalizeCommit(w) PROVE Goal
    <3>1. /\ At(w, "items") /\ txn' = Ended(w)
          /\ \E outcome \in Terminal :
               status' = [status EXCEPT ![txn[w].order] = outcome]
      BY <2>6 DEF FinalizeCommit, Terminal
    <3>2. status[txn[w].order] = "held"
      BY <3>1 DEF RowsHeld
    <3>3. txn'[w].step = "reply" /\ \A v \in Procs \ {w} : txn'[v] = txn[v]
      BY <2>1, <3>1 DEF Ended, Transactions
    <3>4. \A o \in Orders \ {txn[w].order} : status'[o] = status[o]
      BY <3>1
    <3>5. RowsHeld'
      BY <3>1, <3>3, <3>4, OtherRows DEF At
    <3>. QED BY <3>2, <3>4, <3>5 DEF SavedOrSettled
  <2>7. ASSUME FinalizeNoOp(w) PROVE Goal
    <3>1. txn'[w].step = "reply" /\ \A v \in Procs \ {w} : txn'[v] = txn[v]
      BY <2>1, <2>7 DEF FinalizeNoOp, Ended, Transactions
    <3>. QED BY <1>2, <2>7, <3>1 DEF FinalizeNoOp, ledgerVars
  <2>8. ASSUME \/ ReserveReject(w) \/ FinalizeUnknown(w)
               \/ FinalizeCheckFails(w) \/ Reply(w)
        PROVE  Goal
    BY <1>4, <2>8 DEF ReserveReject, FinalizeUnknown, FinalizeCheckFails, Reply, ledgerVars
  <2>. QED BY <1>8, <2>2, <2>3, <2>4, <2>5, <2>6, <2>7, <2>8 DEF Progress
<1>9. ASSUME NEW w \in Procs, DeadlockVictim(w) \/ Rollback(w) PROVE Goal
  BY <1>4, <1>9 DEF DeadlockVictim, Rollback, ledgerVars
<1>10. ASSUME Restart PROVE Goal
  BY <1>10 DEF Restart, ledgerVars, RowsHeld, At, Idle, SavedOrSettled
<1>11. ASSUME \/ \E r \in Reapers : ReapClaim(r)
              \/ \E s \in Seeders : \/ \E p \in Products, n \in Levels : SeedRead(s, p, n)
                                    \/ SeedDiff(s) \/ SeedSave(s)
              \/ \E o \in Orders : TtlPasses(o)
              \/ UNCHANGED vars
       PROVE  Goal
  BY <1>7, <1>11 DEF ReapClaim, SeedRead, SeedDiff, SeedSave, TtlPasses, Expire,
     serviceVars, ledgerVars, vars
<1>. QED BY <1>5, <1>6, <1>8, <1>9, <1>10, <1>11 DEF Next

THEOREM InventoryRowsHeld == Spec => [](BoundInv /\ RowsHeld)
<1>1. Init => RowsHeld
  BY DEF Init, RowsHeld, At, Idle
<1>2. BoundInv /\ RowsHeld /\ [Next]_vars => RowsHeld'
  BY RowsStep
<1>. QED BY <1>1, <1>2, InventoryBound, PTL DEF Spec

-----------------------------------------------------------------------------
(***************************************************************************)
(* The counter and the rows it summarizes, whatever is delivered again: a  *)
(* reserve adds its units to the counter whether or not the order already  *)
(* held them, and a finalize takes out the units of a reservation that is  *)
(* held, so that no more is held than the counter says.                    *)
(***************************************************************************)
HeldFinite == \A p \in Products : IsFiniteSet(UnitsOf(Held, p))
CountInv   == BoundInv /\ RowsHeld /\ HeldFinite

\* Nothing is held more, and the counter is as it was.
LEMMA UncountedStep ==
  ASSUME HeldFinite, UNCHANGED <<basket, status>>
  PROVE  /\ HeldFinite'
         /\ reserved' = reserved /\ HeldIsReserved => HeldIsReserved'
<1>1. \A p \in Products : UnitsOf(Held, p)' = UnitsOf(Held, p)
  BY DEF UnitsOf, Held
<1>. QED BY <1>1 DEF HeldFinite, HeldIsReserved

\* The units of order o are added to the counter; o may be held from now on.
LEMMA CountedStep ==
  ASSUME CountInv, NEW o \in Orders, HoldUnits(o), basket' = basket,
         status' = status \/ status' = [status EXCEPT ![o] = "held"]
  PROVE  HeldFinite' /\ (HeldIsReserved => HeldIsReserved')
<1>1. /\ basket \in [Orders -> [Products -> Nat]]
      /\ reserved \in [Products -> Nat] /\ status \in [Orders -> Statuses]
      /\ reserved' = [p \in Products |-> reserved[p] + basket[o][p]]
  BY BasketsAssumption DEF CountInv, BoundInv, LedgerTypeOK, HoldUnits
<1>2. Held' = Held \/ (o \notin Held /\ Held' = Held \union {o})
  BY <1>1 DEF Held
<1>3. ASSUME NEW p \in Products
      PROVE  /\ IsFiniteSet(UnitsOf(Held, p)')
             /\ Cardinality(UnitsOf(Held, p)) <= reserved[p]
                  => Cardinality(UnitsOf(Held, p)') <= reserved'[p]
  <2>1. /\ UnitsOf(Held, p)' = UnitsOf(Held', p)
        /\ IsFiniteSet(UnitsOf(Held, p)) /\ Cardinality(UnitsOf(Held, p)) \in Nat
    BY FS_CardinalityType DEF UnitsOf, CountInv, HeldFinite
  <2>2. /\ basket[o][p] \in Nat /\ reserved[p] \in Nat
        /\ reserved'[p] = reserved[p] + basket[o][p]
    BY <1>1
  <2>3. CASE Held' = Held
    BY <2>1, <2>2, <2>3
  <2>4. CASE o \notin Held /\ Held' = Held \union {o}
    <3>1. /\ IsFiniteSet(UnitsOf(Held \union {o}, p))
          /\ Cardinality(UnitsOf(Held \union {o}, p))
               = Cardinality(UnitsOf(Held, p)) + basket[o][p]
      <4>1. IsFiniteSet(UnitsOf(Held, p)) /\ basket[o][p] \in Nat /\ o \notin Held
        BY <2>1, <2>2, <2>4
      <4>. QED BY <4>1, UnitsAdded
    <3>. QED BY <2>1, <2>2, <2>4, <3>1
  <2>. QED BY <1>2, <2>3, <2>4
<1>. QED BY <1>3 DEF HeldFinite, HeldIsReserved

\* A finalize takes out what it ends, which was held until now.
LEMMA SettledStep ==
  ASSUME CountInv, NEW w \in Procs, FinalizeCommit(w)
  PROVE  HeldFinite' /\ (HeldIsReserved => HeldIsReserved')
<1> DEFINE o == txn[w].order
<1>1. /\ txn[w] \in Transactions /\ o \in Orders /\ o \in Held
      /\ basket \in [Orders -> [Products -> Nat]]
      /\ reserved \in [Products -> Nat] /\ status \in [Orders -> Statuses]
  BY BegunTyped, BasketsAssumption
     DEF CountInv, BoundInv, RowsHeld, LedgerTypeOK, FinalizeCommit, At, Transactions,
         Held
<1>2. /\ basket' = basket
      /\ reserved' = [p \in Products |-> reserved[p] - basket[o][p]]
      /\ \E outcome \in Terminal : status' = [status EXCEPT ![o] = outcome]
  BY DEF FinalizeCommit, ReturnUnits, Terminal
<1>3. Held' = Held \ {o}
  BY <1>1, <1>2 DEF Held, Terminal
<1>4. ASSUME NEW p \in Products
      PROVE  /\ IsFiniteSet(UnitsOf(Held, p)')
             /\ Cardinality(UnitsOf(Held, p)) <= reserved[p]
                  => Cardinality(UnitsOf(Held, p)') <= reserved'[p]
  <2>1. UnitsOf(Held, p)' = UnitsOf(Held \ {o}, p)
    BY <1>2, <1>3 DEF UnitsOf
  <2>2. /\ basket[o][p] \in Nat /\ reserved[p] \in Nat
        /\ reserved'[p] = reserved[p] - basket[o][p]
    BY <1>1, <1>2
  <2>3. /\ IsFiniteSet(UnitsOf(Held \ {o}, p))
        /\ Cardinality(UnitsOf(Held, p))
             = Cardinality(UnitsOf(Held \ {o}, p)) + basket[o][p]
    BY <1>1, <2>2, UnitsRemoved DEF CountInv, HeldFinite
  <2>4. Cardinality(UnitsOf(Held \ {o}, p)) \in Nat
    BY <2>3, FS_CardinalityType
  <2>. QED BY <2>1, <2>2, <2>3, <2>4
<1>. QED BY <1>4 DEF HeldFinite, HeldIsReserved

LEMMA CountStep ==
  ASSUME CountInv, [Next]_vars
  PROVE  /\ HeldFinite'
         /\ HeldIsReserved =>
              \/ HeldIsReserved'
              \/ \E s \in Seeders : SeedSave(s) /\ "reserved" \in seed[s].diff
<1> DEFINE Goal ==
      /\ HeldFinite'
      /\ HeldIsReserved =>
           \/ HeldIsReserved'
           \/ \E s \in Seeders : SeedSave(s) /\ "reserved" \in seed[s].diff
<1>1. ASSUME UNCHANGED <<basket, reserved, status>> PROVE Goal
  BY <1>1, UncountedStep DEF CountInv
<1>2. ASSUME NEW w \in Workers, NEW o \in Orders,
             \/ ReserveStart(w, o)
             \/ \E source \in Requests : FinalizeStart(w, o, source)
      PROVE  Goal
  BY <1>1, <1>2 DEF ReserveStart, FinalizeStart, ledgerVars
<1>3. ASSUME NEW r \in Reapers, ReapClaim(r) \/ ReapNext(r) PROVE Goal
  BY <1>1, <1>3 DEF ReapClaim, ReapNext, ledgerVars
<1>4. ASSUME NEW w \in Procs, Progress(w) PROVE Goal
  <2>1. ASSUME ReserveInsert(w) \/ ReserveOverwrite(w) PROVE Goal
    <3>1. txn[w].order \in Orders
      BY <2>1, BegunTyped
         DEF CountInv, BoundInv, ReserveInsert, ReserveOverwrite, At, Transactions
    <3>2. CASE /\ HoldUnits(txn[w].order) /\ basket' = basket
               /\ \/ status' = status
                  \/ status' = [status EXCEPT ![txn[w].order] = "held"]
      BY <3>1, <3>2, CountedStep
    <3>3. CASE UNCHANGED <<basket, reserved, status>>
      BY <1>1, <3>3
    <3>. QED BY <2>1, <3>2, <3>3 DEF ReserveInsert, ReserveOverwrite, DuplicateKey
  <2>2. ASSUME FinalizeCommit(w) PROVE Goal
    BY <2>2, SettledStep
  <2>3. ASSUME \/ ReserveItem(w) \/ ReserveReject(w) \/ ReserveSelect(w)
               \/ FinalizeUnknown(w) \/ FinalizeNoOp(w) \/ FinalizeFind(w)
               \/ FinalizeItem(w) \/ FinalizeCheckFails(w) \/ Reply(w)
        PROVE  Goal
    BY <1>1, <2>3 DEF ReserveItem, ReserveReject, ReserveSelect, FinalizeUnknown,
       FinalizeNoOp, FinalizeFind, FinalizeItem, FinalizeCheckFails, Reply, ledgerVars
  <2>. QED BY <1>4, <2>1, <2>2, <2>3 DEF Progress
<1>5. ASSUME NEW w \in Procs, DeadlockVictim(w) \/ Rollback(w) PROVE Goal
  BY <1>1, <1>5 DEF DeadlockVictim, Rollback, ledgerVars
<1>6. ASSUME NEW s \in Seeders, SeedSave(s) PROVE Goal
  <2>1. UNCHANGED <<basket, status>> /\ seed[s] \in Seedings
    BY <1>6 DEF SeedSave, CountInv, BoundInv, ServiceTypeOK, Idle
  <2>2. HeldFinite'
    BY <2>1, UncountedStep DEF CountInv
  <2>3. CASE "reserved" \in seed[s].diff
    BY <1>6, <2>2, <2>3
  <2>4. CASE "reserved" \notin seed[s].diff
    <3>1. reserved \in [Products -> Nat]
      BY DEF CountInv, BoundInv, LedgerTypeOK
    <3>2. reserved' = reserved
      BY <1>6, <2>4, <3>1 DEF SeedSave
    <3>. QED BY <1>1, <2>1, <3>2
  <2>. QED BY <2>3, <2>4
<1>7. ASSUME NEW s \in Seeders,
             \/ \E p \in Products, n \in Levels : SeedRead(s, p, n)
             \/ SeedDiff(s)
      PROVE  Goal
  BY <1>1, <1>7 DEF SeedRead, SeedDiff, ledgerVars
<1>8. ASSUME \/ \E o \in Orders : TtlPasses(o)
             \/ Restart
             \/ UNCHANGED vars
      PROVE  Goal
  BY <1>1, <1>8 DEF TtlPasses, Expire, Restart, vars, ledgerVars
<1>. QED BY <1>2, <1>3, <1>4, <1>5, <1>6, <1>7, <1>8 DEF Next

LEMMA CountInit == Init => HeldFinite /\ HeldIsReserved
<1> SUFFICES ASSUME Init PROVE HeldFinite /\ HeldIsReserved
  OBVIOUS
<1>1. \A p \in Products : UnitsOf(Held, p) = {} /\ reserved[p] = 0
  BY DEF Init, LedgerInit, Held, UnitsOf
<1>2. IsFiniteSet({}) /\ Cardinality({}) = 0
  BY FS_EmptySet
<1>. QED BY <1>1, <1>2 DEF HeldFinite, HeldIsReserved

LEMMA InventoryCounts == Spec => []CountInv
<1>1. CountInv /\ [Next]_vars => HeldFinite'
  BY CountStep
<1>2. Init => HeldFinite
  BY CountInit
<1>3. BoundInv /\ RowsHeld /\ HeldFinite <=> CountInv
  BY DEF CountInv
<1>. QED BY <1>1, <1>2, <1>3, InventoryRowsHeld, PTL DEF Spec

\* Only a PUT /stock that writes a stale `reserved` back takes the counter
\* below what is held: no redelivery, race, rollback or restart does.
THEOREM InventoryOnlyStalePutUndercounts == Spec => OnlyStalePutUndercounts
<1>1. CountInv /\ [Next]_vars =>
        [HeldIsReserved =>
           \/ HeldIsReserved'
           \/ \E s \in Seeders : SeedSave(s) /\ "reserved" \in seed[s].diff]_vars
  BY CountStep
<1>. QED BY <1>1, InventoryCounts, PTL DEF Spec, OnlyStalePutUndercounts

\* So without PUT /stock no more is ever held than there is, however often a
\* reserve request is delivered.
THEOREM InventoryHeldFitsStock ==
  ASSUME Seeders = {}
  PROVE  Spec => []HeldFitsStock
<1>1. CountInv /\ HeldIsReserved /\ [Next]_vars => HeldIsReserved'
  BY CountStep
<1>2. Init => HeldIsReserved
  BY CountInit
<1>3. CountInv /\ HeldIsReserved => HeldFitsStock
  <2> SUFFICES ASSUME CountInv, HeldIsReserved, NEW p \in Products
               PROVE  Cardinality(UnitsOf(Held, p)) <= quantity[p]
    BY DEF HeldFitsStock
  <2>1. /\ Cardinality(UnitsOf(Held, p)) <= reserved[p] /\ reserved[p] <= quantity[p]
        /\ reserved[p] \in Nat /\ quantity[p] \in Nat
    BY DEF CountInv, BoundInv, LedgerTypeOK, ReservedBounds, HeldIsReserved
  <2>2. Cardinality(UnitsOf(Held, p)) \in Nat
    BY FS_CardinalityType DEF CountInv, HeldFinite
  <2>. QED BY <2>1, <2>2
<1>. QED BY <1>1, <1>2, <1>3, InventoryCounts, PTL DEF Spec
=============================================================================
