---------------------------- MODULE StockLedger ----------------------------
(***************************************************************************)
(* What the inventory service promises of its stock, every operation one   *)
(* atomic step: a reservation takes all the units of an order or none, it  *)
(* is finalized at most once, and what stock_items.reserved counts is what *)
(* the held reservations hold.  Inventory.tla is the service as its        *)
(* Postgres transactions run and implements this module.                   *)
(***************************************************************************)
EXTENDS Naturals, FiniteSets

CONSTANTS
  Orders,        \* order ids
  Products,      \* product ids
  Baskets,       \* what an order may ask for: units per product, 0 if none
  InitialStock   \* stock_items.quantity per product; 0 when there is no row

ASSUME BasketsAssumption == Baskets \subseteq [Products -> Nat]
ASSUME StockAssumption   == InitialStock \in [Products -> Nat]

VARIABLES
  basket,        \* the summed items of each order's reserve request
  quantity,      \* stock_items.quantity
  reserved,      \* stock_items.reserved
  status,        \* reservations.status, "none" while there is no row
  expired        \* the orders whose expiresAt has passed

ledgerVars == <<basket, quantity, reserved, status, expired>>

Statuses == {"none", "held", "committed", "released"}
Terminal == {"committed", "released"}
Actions  == {"commit", "release"}

LedgerInit ==
  /\ basket \in [Orders -> Baskets]
  /\ quantity = InitialStock
  /\ reserved = [p \in Products |-> 0]
  /\ status = [o \in Orders |-> "none"]
  /\ expired = {}

(***************************************************************************)
(* The effect on the tables of the three writes of inventory.repository.ts *)
(***************************************************************************)
HoldUnits(o) ==
  /\ reserved' = [p \in Products |-> reserved[p] + basket[o][p]]
  /\ UNCHANGED quantity

\* Mutant: a commit takes the units out of `reserved` only.
ReturnUnitsKeepsQuantity(o, action) ==
  /\ reserved' = [p \in Products |-> reserved[p] - basket[o][p]]
  /\ UNCHANGED quantity

ReturnUnits(o, action) ==
  /\ reserved' = [p \in Products |-> reserved[p] - basket[o][p]]
  /\ quantity' = IF action = "commit"
                   THEN [p \in Products |-> quantity[p] - basket[o][p]]
                   ELSE quantity

Reserve(o) ==
  /\ status[o] = "none"
  /\ \A p \in Products : reserved[p] + basket[o][p] <= quantity[p]
  /\ HoldUnits(o)
  /\ status' = [status EXCEPT ![o] = "held"]
  /\ UNCHANGED <<basket, expired>>

Finalize(o, action) ==
  /\ status[o] = "held"
  /\ ReturnUnits(o, action)
  /\ status' = [status EXCEPT
       ![o] = IF action = "commit" THEN "committed" ELSE "released"]
  /\ UNCHANGED <<basket, expired>>

\* expiresAt, a timestamp, passes while the reservation is held.
Expire(o) ==
  /\ status[o] = "held"
  /\ expired' = expired \union {o}
  /\ UNCHANGED <<basket, quantity, reserved, status>>

LedgerNext ==
  \E o \in Orders : \/ Reserve(o)
                    \/ \E action \in Actions : Finalize(o, action)
                    \/ Expire(o)

LedgerSpec == LedgerInit /\ [][LedgerNext]_ledgerVars

-----------------------------------------------------------------------------
LedgerTypeOK ==
  /\ basket \in [Orders -> Baskets]
  /\ quantity \in [Products -> Nat]
  /\ reserved \in [Products -> Nat]
  /\ status \in [Orders -> Statuses]
  /\ expired \subseteq Orders

\* One element for each unit of product p that a reservation in `set` holds.
UnitsOf(set, p) == UNION {{o} \X (1 .. basket[o][p]) : o \in set}
Held            == {o \in Orders : status[o] = "held"}
Committed       == {o \in Orders : status[o] = "committed"}

(***************************************************************************)
(* stock_items.reserved is the number of units the held reservations hold: *)
(* the "live counter" of stock-item.entity.ts:9-13 never drifts from the   *)
(* rows it summarizes.                                                     *)
(***************************************************************************)
ReservedMatchesHeld ==
  \A p \in Products : reserved[p] = Cardinality(UnitsOf(Held, p))

\* CHK_STOCK_RESERVED_BOUNDS of stock-item.entity.ts:15-18, which Postgres
\* enforces.  It speaks of the counter, not of what is held.
ReservedBounds == \A p \in Products : reserved[p] <= quantity[p]

(***************************************************************************)
(* No oversell: the units that reservations hold never exceed the stock    *)
(* there is (inventory.repository.ts:54-59 and inventory-reservation.e2e-  *)
(* spec.ts:327).  The CHECK sees only a counter; that it protects what is  *)
(* held takes that the counter never says less than what is held.          *)
(***************************************************************************)
HeldFitsStock == \A p \in Products : Cardinality(UnitsOf(Held, p)) <= quantity[p]

(***************************************************************************)
(* Stock leaves only with committed orders: the units a product started    *)
(* with are those it still has and those the committed reservations took.  *)
(***************************************************************************)
StockConserved ==
  \A p \in Products :
    quantity[p] + Cardinality(UnitsOf(Committed, p)) = InitialStock[p]

(***************************************************************************)
(* A reservation that was committed or released keeps that outcome, and no *)
(* row disappears: inventory.repository.ts:146-148.                        *)
(***************************************************************************)
OutcomeIsFinal ==
  [][\A o \in Orders : status[o] \in Terminal => status'[o] = status[o]]_ledgerVars

=============================================================================
