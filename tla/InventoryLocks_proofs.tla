----------------------- MODULE InventoryLocks_proofs -----------------------
(***************************************************************************)
(* Why the row locks of the inventory service never deadlock, for every    *)
(* number of handlers, orders and products, whatever PUT /stock writes, as *)
(* long as a reserve request is delivered once.                            *)
(*                                                                         *)
(* A transaction that waits for a stock row holds only rows of smaller     *)
(* products, so along a chain of such waits the products ascend.  One that *)
(* waits for the row of its reservation holds nothing; only a reserve that *)
(* found its row, which takes a second delivery, would hold stock as well. *)
(*                                                                         *)
(* And why an outcome is final: the lock keeps a reservation held until    *)
(* the one finalize that has it commits (RowsHeld of Inventory_proofs),    *)
(* and a reserve delivered once finds no reservation.                      *)
(***************************************************************************)
EXTENDS Inventory_proofs, WellFoundedInduction

DeliveredOnce == Resend = {}

LockTypes ==
  /\ basket \in [Orders -> Baskets]
  /\ status \in [Orders -> Statuses]
  /\ expired \subseteq Orders
  /\ claimed \in [Reapers -> SUBSET Orders]
  /\ txn \in [Procs -> Transactions \union {Idle}]

\* What one transaction has locked, and what it knows of its reservation.
OwnLocks(w) ==
  /\ At(w, "find") \/ At(w, "reply") => txn[w].done = {}
  /\ ~ At(w, "idle") => \A p \in txn[w].done, q \in Left(w) : p < q
  /\ txn[w].step \in Reserving =>
       txn[w].order \in requested /\ status[txn[w].order] = "none"
  /\ At(w, "items") => status[txn[w].order] # "none"

LockInv ==
  /\ LockTypes
  /\ \A o \in Orders : status[o] # "none" => o \in requested
  /\ \A w \in Procs : OwnLocks(w)
  /\ \A w, v \in Procs :
       w # v /\ txn[w].step \in Reserving /\ txn[v].step \in Reserving
         => txn[w].order # txn[v].order

-----------------------------------------------------------------------------
\* A transaction that has begun has the fields of one.
LEMMA Begun ==
  ASSUME LockTypes, NEW w \in Procs, txn[w].step # "idle"
  PROVE  txn[w] \in Transactions /\ txn[w] # Idle
BY DEF LockTypes, Idle

LEMMA LockInit == Init => LockInv
<1> SUFFICES ASSUME Init PROVE LockInv
  OBVIOUS
<1>1. LockTypes
  BY DEF Init, LedgerInit, LockTypes, Statuses
<1>. QED BY <1>1 DEF Init, LedgerInit, LockInv, OwnLocks, At, Idle, Reserving

\* A step of one transaction: it alone must show that it locks in order; no
\* reservation disappears, and one appears only by the reserve that writes it.
LEMMA OneStep ==
  ASSUME LockInv, LockTypes', NEW w \in Procs, OwnLocks(w)',
         UNCHANGED basket, requested \subseteq requested',
         \A v \in Procs \ {w} : txn'[v] = txn[v],
         \A o \in Orders : status[o] # "none" => status'[o] # "none",
         \A o \in Orders : status'[o] # "none" /\ status[o] = "none" =>
           txn[w].order = o /\ txn[w].step \in Reserving,
         txn'[w].step \in Reserving =>
           \/ txn[w].step \in Reserving /\ txn'[w].order = txn[w].order
           \/ txn'[w].order \notin requested
  PROVE  LockInv'
<1>1. \A o \in Orders : status'[o] # "none" => o \in requested'
  BY DEF LockInv, OwnLocks
<1>2. ASSUME NEW v \in Procs, v # w PROVE OwnLocks(v)'
  <2>1. txn'[v] = txn[v] /\ Left(v)' = Left(v) /\ OwnLocks(v)
    BY <1>2 DEF LockInv, Left
  <2>2. ASSUME txn[v].step \in Reserving
        PROVE  txn[v].order \in requested' /\ status'[txn[v].order] = "none"
    <3>1. txn[v].order \in Orders
      BY <2>2, Begun DEF LockInv, Reserving, Transactions
    <3>2. status[txn[v].order] = "none" /\ txn[v].order \in requested
      BY <2>1, <2>2 DEF OwnLocks
    <3>. QED BY <1>2, <2>2, <3>1, <3>2 DEF LockInv
  <2>3. ASSUME At(v, "items") PROVE status'[txn[v].order] # "none"
    <3>1. txn[v].order \in Orders
      BY <2>3, Begun DEF LockInv, At, Transactions
    <3>. QED BY <2>1, <2>3, <3>1 DEF OwnLocks
  <2>. QED BY <2>1, <2>2, <2>3 DEF OwnLocks, At
<1>3. ASSUME NEW u \in Procs, NEW v \in Procs, u # v,
             txn'[u].step \in Reserving, txn'[v].step \in Reserving
      PROVE  txn'[u].order # txn'[v].order
  <2>1. ASSUME NEW x \in Procs, x # w, txn'[x].step \in Reserving,
               txn'[w].step \in Reserving
        PROVE  txn'[w].order # txn'[x].order
    BY <2>1 DEF LockInv, OwnLocks
  <2>2. CASE u # w /\ v # w
    BY <1>3, <2>2 DEF LockInv
  <2>. QED BY <1>3, <2>1, <2>2
<1>. QED BY <1>1, <1>2, <1>3 DEF LockInv

\* A transaction that is over, or only has its answer left, holds nothing.
LEMMA EndStep ==
  ASSUME LockInv, NEW w \in Procs,
         txn' = [txn EXCEPT ![w] = Idle] \/ (txn' = Ended(w) /\ ~ At(w, "idle")),
         status' \in [Orders -> Statuses], expired' \subseteq Orders,
         UNCHANGED <<basket, requested, claimed>>,
         \A o \in Orders : status[o] # "none" => status'[o] # "none",
         \A o \in Orders : status'[o] # "none" /\ status[o] = "none" =>
           txn[w].order = o /\ txn[w].step \in Reserving
  PROVE  LockInv'
<1>1. LockTypes
  BY DEF LockInv
<1>2. CASE txn' = [txn EXCEPT ![w] = Idle]
  <2>1. LockTypes' /\ txn'[w] = Idle /\ \A v \in Procs \ {w} : txn'[v] = txn[v]
    BY <1>1, <1>2 DEF LockTypes
  <2>2. OwnLocks(w)'
    BY <2>1 DEF OwnLocks, At, Idle, Reserving
  <2>. QED BY <2>1, <2>2, OneStep DEF Idle, Reserving
<1>3. CASE txn' = Ended(w) /\ ~ At(w, "idle")
  <2>1. txn[w] \in Transactions
    BY <1>1, <1>3, Begun DEF At
  <2>2. /\ txn' \in [Procs -> Transactions \union {Idle}]
        /\ txn'[w].step = "reply" /\ txn'[w].done = {}
        /\ \A v \in Procs \ {w} : txn'[v] = txn[v]
    BY <1>1, <1>3, <2>1 DEF Ended, LockTypes, Transactions
  <2>3. LockTypes'
    BY <1>1, <2>2 DEF LockTypes
  <2>4. OwnLocks(w)'
    BY <2>2 DEF OwnLocks, At, Reserving
  <2>. QED BY <2>2, <2>3, <2>4, OneStep DEF Reserving
<1>. QED BY <1>2, <1>3

\* A transaction begins: a reserve of an order that was never requested, or a
\* finalize.
LEMMA BeginStep ==
  ASSUME LockInv, NEW w \in Procs, NEW o \in Orders,
         NEW source \in Sources \union {"reserve"}, NEW first \in {"stock", "find"},
         Begin(w, o, source, first),
         UNCHANGED <<basket, status, expired>>,
         claimed' \in [Reapers -> SUBSET Orders],
         requested \subseteq requested',
         first = "stock" => /\ o \notin requested /\ o \in requested'
  PROVE  LockInv'
<1>1. /\ txn' \in [Procs -> Transactions \union {Idle}]
      /\ txn'[w] = [step |-> first, order |-> o, source |-> source,
                    done |-> {}, seen |-> "none"]
      /\ \A v \in Procs \ {w} : txn'[v] = txn[v]
  BY DEF Begin, LockInv, LockTypes, Transactions, Statuses
<1>2. LockTypes'
  BY <1>1 DEF LockInv, LockTypes
<1>3. first = "stock" => status[o] = "none"
  BY DEF LockInv
<1>4. OwnLocks(w)'
  BY <1>1, <1>3 DEF OwnLocks, At, Reserving
<1>. QED BY <1>1, <1>2, <1>4, OneStep DEF Reserving

\* The smallest product left is locked: those left after it are greater.
LEMMA ItemStep ==
  ASSUME LockInv, NEW w \in Procs, At(w, "stock") \/ At(w, "items"),
         NEW p \in Products, IsNext(w, p),
         txn' = [txn EXCEPT ![w].done = @ \union {p}],
         UNCHANGED <<ledgerVars, requested, claimed>>
  PROVE  LockInv'
<1>1. /\ LockTypes /\ OwnLocks(w)
      /\ txn[w] \in Transactions
  BY Begun DEF LockInv, At
<1>2. /\ txn' \in [Procs -> Transactions \union {Idle}]
      /\ txn'[w].step = txn[w].step /\ txn'[w].order = txn[w].order
      /\ txn'[w].done = txn[w].done \union {p}
      /\ \A v \in Procs \ {w} : txn'[v] = txn[v]
  BY <1>1 DEF LockTypes, Transactions
<1>3. LockTypes'
  BY <1>1, <1>2 DEF LockTypes, ledgerVars
<1>4. Left(w)' = Left(w) \ {p}
  BY <1>2 DEF Left, ledgerVars
<1>5. ASSUME NEW d \in txn'[w].done, NEW q \in Left(w)' PROVE d < q
  <2>1. q \in Left(w) /\ q # p /\ q \in Nat /\ p \in Nat
    BY <1>4, ProductsAssumption DEF Left
  <2>2. CASE d = p
    BY <2>1, <2>2 DEF IsNext
  <2>3. CASE d \in txn[w].done
    BY <1>1, <2>1, <2>3 DEF OwnLocks, At
  <2>. QED BY <1>2, <2>2, <2>3
<1>6. OwnLocks(w)'
  BY <1>1, <1>2, <1>5 DEF OwnLocks, At, ledgerVars
<1>. QED BY <1>2, <1>3, <1>6, OneStep DEF ledgerVars

\* A SELECT takes the transaction to its next statement.
LEMMA SelectStep ==
  ASSUME LockInv, NEW w \in Procs, ReserveSelect(w) \/ FinalizeFind(w)
  PROVE  LockInv'
<1>1. /\ LockTypes /\ OwnLocks(w)
      /\ txn[w] \in Transactions
      /\ UNCHANGED <<ledgerVars, requested, claimed>>
  BY Begun DEF LockInv, At, ReserveSelect, FinalizeFind
<1>2. status[txn[w].order] \in Statuses
  BY <1>1 DEF LockTypes, Transactions
<1>3. /\ txn' \in [Procs -> Transactions \union {Idle}]
      /\ txn'[w].order = txn[w].order /\ txn'[w].done = txn[w].done
      /\ \A v \in Procs \ {w} : txn'[v] = txn[v]
      /\ \/ txn[w].step = "stock" /\ txn'[w].step = "save"
         \/ txn[w].step = "find" /\ txn'[w].step = "items" /\ status[txn[w].order] = "held"
  <2>1. CASE ReserveSelect(w)
    BY <1>1, <1>2, <2>1 DEF ReserveSelect, At, LockTypes, Transactions
  <2>2. CASE FinalizeFind(w)
    BY <1>1, <2>2 DEF FinalizeFind, At, LockTypes, Transactions
  <2>. QED BY <2>1, <2>2
<1>4. LockTypes'
  BY <1>1, <1>3 DEF LockTypes, ledgerVars
<1>5. Left(w)' = Left(w)
  BY <1>1, <1>3 DEF Left, ledgerVars
<1>6. OwnLocks(w)'
  BY <1>1, <1>3, <1>5 DEF OwnLocks, At, Reserving, ledgerVars
<1>. QED BY <1>1, <1>3, <1>4, <1>6, OneStep DEF Reserving, ledgerVars

LEMMA OrderedLockStep ==
  ASSUME DeliveredOnce, LockInv, [Next]_vars
  PROVE  LockInv'
<1>1. ASSUME NEW w \in Workers, NEW o \in Orders, ReserveStart(w, o)
      PROVE  LockInv'
  <2>1. o \notin requested /\ w \in Procs
    BY <1>1 DEF ReserveStart, DeliveredOnce, Procs
  <2>. QED BY <1>1, <2>1, BeginStep DEF ReserveStart, ledgerVars, LockInv, LockTypes
<1>2. ASSUME NEW w \in Workers, NEW o \in Orders, NEW source \in Requests,
             FinalizeStart(w, o, source)
      PROVE  LockInv'
  BY <1>2, BeginStep DEF FinalizeStart, ledgerVars, LockInv, LockTypes, Procs, Sources
<1>3. ASSUME NEW r \in Reapers, ReapNext(r) PROVE LockInv'
  <2>1. PICK o \in claimed[r] : /\ Begin(r, o, "reaper", "find")
                                /\ claimed' = [claimed EXCEPT ![r] = @ \ {o}]
    BY <1>3 DEF ReapNext
  <2>2. o \in Orders /\ claimed' \in [Reapers -> SUBSET Orders]
    BY <2>1 DEF LockInv, LockTypes
  <2>. QED BY <1>3, <2>1, <2>2, BeginStep DEF ReapNext, ledgerVars, Procs, Sources
<1>4. ASSUME NEW w \in Procs, Progress(w) PROVE LockInv'
  <2>1. CASE ReserveItem(w) \/ FinalizeItem(w)
    <3>1. PICK p \in Products : /\ IsNext(w, p)
                                /\ txn' = [txn EXCEPT ![w].done = @ \union {p}]
      BY <2>1 DEF ReserveItem, FinalizeItem
    <3>. QED BY <2>1, <3>1, ItemStep DEF ReserveItem, FinalizeItem
  <2>2. CASE ReserveSelect(w) \/ FinalizeFind(w)
    BY <2>2, SelectStep
  <2>3. CASE ReserveInsert(w) \/ ReserveOverwrite(w)
    <3>1. /\ At(w, "save") /\ UNCHANGED <<basket, requested, claimed>>
          /\ expired' \subseteq expired
          /\ status' = status \/ status' = [status EXCEPT ![txn[w].order] = "held"]
          /\ txn' = [txn EXCEPT ![w] = Idle] \/ txn' = Ended(w)
      BY <2>3 DEF ReserveInsert, ReserveOverwrite, DuplicateKey
    <3>2. txn[w].step \in Reserving /\ ~ At(w, "idle")
      BY <3>1 DEF At, Reserving
    <3>3. /\ status' \in [Orders -> Statuses] /\ expired' \subseteq Orders
          /\ \A o \in Orders :
               status'[o] = status[o] \/ (o = txn[w].order /\ status'[o] # "none")
      BY <3>1 DEF LockInv, LockTypes, Statuses
    <3>. QED BY <3>1, <3>2, <3>3, EndStep
  <2>4. CASE FinalizeCommit(w)
    <3>1. /\ At(w, "items") /\ UNCHANGED <<basket, requested, claimed, expired>>
          /\ txn' = Ended(w)
          /\ \E outcome \in Terminal :
               status' = [status EXCEPT ![txn[w].order] = outcome]
      BY <2>4 DEF FinalizeCommit, Terminal
    <3>2. status[txn[w].order] # "none" /\ ~ At(w, "idle")
      BY <3>1 DEF LockInv, OwnLocks, At
    <3>3. /\ status' \in [Orders -> Statuses] /\ expired' \subseteq Orders
          /\ \A o \in Orders : (status'[o] # "none") = (status[o] # "none")
      BY <3>1, <3>2 DEF LockInv, LockTypes, Statuses, Terminal
    <3>. QED BY <3>1, <3>2, <3>3, EndStep
  <2>5. CASE FinalizeNoOp(w)
    BY <2>5, EndStep DEF FinalizeNoOp, At, ledgerVars, LockInv, LockTypes
  <2>6. CASE \/ ReserveReject(w) \/ FinalizeUnknown(w)
             \/ FinalizeCheckFails(w) \/ Reply(w)
    BY <2>6, EndStep DEF ReserveReject, FinalizeUnknown, FinalizeCheckFails, Reply,
         ledgerVars, LockInv, LockTypes
  <2>. QED BY <1>4, <2>1, <2>2, <2>3, <2>4, <2>5, <2>6 DEF Progress
<1>5. ASSUME NEW w \in Procs, DeadlockVictim(w) \/ Rollback(w) PROVE LockInv'
  BY <1>5, EndStep DEF DeadlockVictim, Rollback, ledgerVars, LockInv, LockTypes
<1>6. ASSUME UNCHANGED <<basket, status, requested, txn>>,
             expired' \subseteq Orders, claimed' \in [Reapers -> SUBSET Orders]
      PROVE  LockInv'
  BY <1>6 DEF LockInv, LockTypes, OwnLocks, At, Left
<1>7. ASSUME NEW r \in Reapers, ReapClaim(r) PROVE LockInv'
  BY <1>6, <1>7 DEF ReapClaim, Due, ledgerVars, LockInv, LockTypes
<1>8. ASSUME NEW s \in Seeders,
             SeedDiff(s) \/ SeedSave(s)
               \/ \E p \in Products, n \in Levels : SeedRead(s, p, n)
      PROVE  LockInv'
  BY <1>6, <1>8 DEF SeedRead, SeedDiff, SeedSave, ledgerVars, LockInv, LockTypes
<1>9. ASSUME NEW o \in Orders, TtlPasses(o) PROVE LockInv'
  BY <1>6, <1>9 DEF TtlPasses, Expire, serviceVars, LockInv, LockTypes
<1>10. CASE Restart
  BY <1>10 DEF Restart, ledgerVars, LockInv, LockTypes, OwnLocks, At, Idle, Reserving
<1>11. CASE UNCHANGED vars
  BY <1>6, <1>11 DEF vars, ledgerVars, serviceVars, LockInv, LockTypes
<1>. QED BY <1>1, <1>2, <1>3, <1>4, <1>5, <1>7, <1>8, <1>9, <1>10, <1>11 DEF Next

-----------------------------------------------------------------------------
(* In a finite set of waiters, one waits for the greatest product. *)

LEMMA LeastNatural ==
  ASSUME NEW S \in SUBSET Nat, S # {}
  PROVE  \E m \in S : \A n \in S : m <= n
<1> DEFINE R == OpToRel(<, Nat)
<1>1. \E m \in S : \A n \in S : <<n, m>> \notin R
  BY NatLessThanWellFounded, WFMin
<1>2. ASSUME NEW m \in Nat, NEW n \in Nat, <<n, m>> \notin R PROVE m <= n
  BY <1>2 DEF OpToRel
<1>. QED BY <1>1, <1>2

\* A map from a finite set to the naturals has a greatest value: take the
\* element with the fewest elements above it.
LEMMA GreatestValue ==
  ASSUME NEW S, IsFiniteSet(S), S # {}, NEW f \in [S -> Nat]
  PROVE  \E x \in S : \A y \in S : f[y] <= f[x]
<1> DEFINE Above(x) == {y \in S : f[x] < f[y]}
           Counts   == {Cardinality(Above(x)) : x \in S}
<1>1. ASSUME NEW x \in S
      PROVE  IsFiniteSet(Above(x)) /\ Cardinality(Above(x)) \in Nat
  BY FS_Subset, FS_CardinalityType
<1>2. Counts \in SUBSET Nat /\ Counts # {}
  BY <1>1
<1>3. PICK x \in S : \A y \in S : Cardinality(Above(x)) <= Cardinality(Above(y))
  <2>1. PICK m \in Counts : \A n \in Counts : m <= n
    BY <1>2, LeastNatural
  <2>2. PICK x \in S : m = Cardinality(Above(x))
    OBVIOUS
  <2>3. ASSUME NEW y \in S PROVE Cardinality(Above(x)) <= Cardinality(Above(y))
    <3>1. Cardinality(Above(y)) \in Counts
      OBVIOUS
    <3>. QED BY <2>1, <2>2, <3>1
  <2>. QED BY <2>3
<1>4. ASSUME NEW y \in S, f[x] < f[y] PROVE FALSE
  <2>1. Above(y) \subseteq Above(x) /\ y \in Above(x) /\ y \notin Above(y)
    BY <1>4
  <2>2. /\ Cardinality(Above(y)) <= Cardinality(Above(x))
        /\ Cardinality(Above(y)) = Cardinality(Above(x)) => Above(y) = Above(x)
    BY <1>1, <2>1, FS_Subset
  <2>. QED BY <1>1, <1>3, <2>1, <2>2
<1>. QED BY <1>4

LEMMA LocksHaveNoCycle == LockInv => NoWaitCycle
<1> SUFFICES ASSUME LockInv, NEW waiting \in SUBSET Procs, waiting # {},
                    \A w \in waiting : \E v \in waiting : WaitsFor(w, v)
             PROVE  FALSE
  BY DEF NoWaitCycle
<1> DEFINE ForStock == {w \in waiting : At(w, "stock") \/ At(w, "items")}
           wanted   == [w \in ForStock |-> CHOOSE p \in Products : IsNext(w, p)]
<1>1. ASSUME NEW w \in waiting, NEW v \in waiting, WaitsFor(w, v),
             txn[v] # Idle, NEW p \in txn[v].done
      PROVE  v \in ForStock /\ \E q \in Left(v) : IsNext(v, q) /\ p < q
  <2>1. txn[v] \in Transactions /\ OwnLocks(v)
    BY <1>1 DEF LockInv, LockTypes
  <2>2. PICK u \in waiting : WaitsFor(v, u)
    OBVIOUS
  <2>3. ~ At(v, "find")
    BY <1>1, <2>1 DEF OwnLocks
  <2>4. ~ (At(v, "save") /\ status[txn[v].order] # "none")
    BY <2>1 DEF OwnLocks, At, Reserving
  <2>5. v \in ForStock /\ \E q \in Products : IsNext(v, q)
    BY <2>1, <2>2, <2>3, <2>4 DEF WaitsFor, At, Transactions, IsNext, Left
  <2>. QED BY <1>1, <2>1, <2>5 DEF OwnLocks, IsNext, At
<1>2. ForStock # {}
  <2>1. PICK w \in waiting, v \in waiting : WaitsFor(w, v)
    OBVIOUS
  <2>. QED BY <1>1, <2>1 DEF WaitsFor
<1>3. ASSUME NEW w \in ForStock, NEW p \in Products, IsNext(w, p)
      PROVE  wanted[w] = p
  <2>1. IsNext(w, wanted[w]) /\ wanted[w] \in Products
    BY <1>3
  <2>2. wanted[w] <= p /\ p <= wanted[w] /\ p \in Nat /\ wanted[w] \in Nat
    BY <1>3, <2>1, ProductsAssumption DEF IsNext
  <2>. QED BY <2>2
<1>4. ASSUME NEW w \in ForStock
      PROVE  wanted[w] \in Nat /\ \E v \in ForStock : wanted[w] < wanted[v]
  <2>1. PICK v \in waiting : WaitsFor(w, v)
    OBVIOUS
  <2>2. PICK p \in txn[v].done : txn[v] # Idle /\ IsNext(w, p)
    BY <2>1 DEF WaitsFor, At
  <2>3. PICK q \in Left(v) : v \in ForStock /\ IsNext(v, q) /\ p < q
    BY <1>1, <2>1, <2>2
  <2>. QED BY <1>3, <2>2, <2>3, ProductsAssumption DEF IsNext, Left
<1>5. IsFiniteSet(ForStock)
  BY ProcsAssumption, FS_Union, FS_Subset DEF Procs
<1> HIDE DEF ForStock, wanted
<1>6. wanted \in [ForStock -> Nat]
  BY <1>4 DEF wanted
<1>7. PICK w \in ForStock : \A v \in ForStock : wanted[v] <= wanted[w]
  BY <1>2, <1>5, <1>6, GreatestValue
<1>. QED BY <1>4, <1>6, <1>7

(***************************************************************************)
(* While a reserve request is delivered once, Postgres never has a         *)
(* deadlock to break between the transactions of the inventory service.    *)
(***************************************************************************)
THEOREM InventoryNoWaitCycle ==
  ASSUME DeliveredOnce
  PROVE  Spec => []NoWaitCycle
<1>1. LockInv /\ [Next]_vars => LockInv'
  BY OrderedLockStep
<1>. QED BY <1>1, LockInit, LocksHaveNoCycle, PTL DEF Spec

-----------------------------------------------------------------------------
(***************************************************************************)
(* A committed or released reservation keeps its outcome, whatever         *)
(* finalizes race for it and whatever PUT /stock writes, while a reserve   *)
(* request is delivered once.                                              *)
(***************************************************************************)
THEOREM InventoryOutcomeIsFinal ==
  ASSUME DeliveredOnce
  PROVE  Spec => OutcomeIsFinal
<1>1. LockInv /\ [Next]_vars => LockInv'
  BY OrderedLockStep
<1>2. LockInv /\ BoundInv /\ RowsHeld /\ [Next]_vars
        => [\A o \in Orders : status[o] \in Terminal => status'[o] = status[o]]_ledgerVars
  <2> SUFFICES ASSUME LockInv, BoundInv, RowsHeld, [Next]_vars,
                      NEW o \in Orders, status[o] \in Terminal
               PROVE  status'[o] = status[o]
    OBVIOUS
  <2>1. \A w \in Procs : At(w, "save") => status[txn[w].order] = "none"
    BY DEF LockInv, OwnLocks, At, Reserving
  <2>. QED BY <2>1, RowsStep DEF SavedOrSettled, Terminal
<1>. QED BY <1>1, <1>2, LockInit, InventoryRowsHeld, PTL DEF Spec, OutcomeIsFinal
=============================================================================
