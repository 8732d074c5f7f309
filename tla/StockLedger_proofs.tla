------------------------- MODULE StockLedger_proofs -------------------------
(***************************************************************************)
(* Proofs about StockLedger for every set of orders, products and baskets. *)
(* The counter `reserved` is compared with a cardinality, so the inductive *)
(* invariant carries the finiteness of the two sets of units it counts:    *)
(* they start empty and every step adds or removes the units of one order. *)
(***************************************************************************)
EXTENDS StockLedger, FiniteSetTheorems, TLAPS

\* The units of one order: as many as its basket says.
LEMMA UnitsOfOrder ==
  ASSUME NEW o, NEW n \in Nat
  PROVE  /\ IsFiniteSet({o} \X (1 .. n))
         /\ Cardinality({o} \X (1 .. n)) = n
<1>1. IsFiniteSet({o}) /\ Cardinality({o}) = 1
  BY FS_Singleton
<1>2. IsFiniteSet(1 .. n) /\ Cardinality(1 .. n) = n
  BY FS_Interval
<1>3. IsFiniteSet({o} \X (1 .. n))
      /\ Cardinality({o} \X (1 .. n)) = Cardinality({o}) * Cardinality(1 .. n)
  BY <1>1, <1>2, FS_Product
<1>. QED BY <1>1, <1>2, <1>3

\* Adding an order to a set of orders adds its units to theirs.
LEMMA UnitsAdded ==
  ASSUME NEW set, NEW o, o \notin set, NEW p, basket[o][p] \in Nat,
         IsFiniteSet(UnitsOf(set, p))
  PROVE  /\ IsFiniteSet(UnitsOf(set \union {o}, p))
         /\ Cardinality(UnitsOf(set \union {o}, p))
              = Cardinality(UnitsOf(set, p)) + basket[o][p]
<1> DEFINE U == UnitsOf(set, p)
           V == {o} \X (1 .. basket[o][p])
<1>1. UnitsOf(set \union {o}, p) = U \union V
  BY DEF UnitsOf
<1>2. U \intersect V = {}
  BY DEF UnitsOf
<1>3. IsFiniteSet(V) /\ Cardinality(V) = basket[o][p]
  BY UnitsOfOrder
<1>4. Cardinality(U) \in Nat
  BY FS_CardinalityType
<1>5. Cardinality(U \intersect V) = 0
  BY <1>2, FS_EmptySet
<1>6. /\ IsFiniteSet(U \union V)
      /\ Cardinality(U \union V)
           = Cardinality(U) + Cardinality(V) - Cardinality(U \intersect V)
  BY <1>3, FS_Union
<1>7. Cardinality(U \union V) = Cardinality(U) + basket[o][p]
  BY <1>3, <1>4, <1>5, <1>6
<1>. QED BY <1>1, <1>6, <1>7

\* Removing an order removes its units.
LEMMA UnitsRemoved ==
  ASSUME NEW set, NEW o \in set, NEW p, basket[o][p] \in Nat,
         IsFiniteSet(UnitsOf(set, p))
  PROVE  /\ IsFiniteSet(UnitsOf(set \ {o}, p))
         /\ Cardinality(UnitsOf(set, p))
              = Cardinality(UnitsOf(set \ {o}, p)) + basket[o][p]
<1>1. UnitsOf(set \ {o}, p) \subseteq UnitsOf(set, p)
  BY DEF UnitsOf
<1>2. IsFiniteSet(UnitsOf(set \ {o}, p))
  BY <1>1, FS_Subset
<1>3. Cardinality(UnitsOf((set \ {o}) \union {o}, p))
        = Cardinality(UnitsOf(set \ {o}, p)) + basket[o][p]
  BY <1>2, UnitsAdded
<1>4. (set \ {o}) \union {o} = set
  OBVIOUS
<1>. QED BY <1>2, <1>3, <1>4

-----------------------------------------------------------------------------
UnitsFinite ==
  \A p \in Products : /\ IsFiniteSet(UnitsOf(Held, p))
                      /\ IsFiniteSet(UnitsOf(Committed, p))

LedgerInv ==
  /\ LedgerTypeOK
  /\ UnitsFinite
  /\ ReservedMatchesHeld
  /\ ReservedBounds
  /\ StockConserved

LEMMA LedgerInitInv == LedgerInit => LedgerInv
<1> SUFFICES ASSUME LedgerInit PROVE LedgerInv
  OBVIOUS
<1>1. Held = {} /\ Committed = {}
  BY DEF LedgerInit, Held, Committed
<1>2. \A p \in Products : UnitsOf({}, p) = {}
  BY DEF UnitsOf
<1>3. IsFiniteSet({}) /\ Cardinality({}) = 0
  BY FS_EmptySet
<1>4. LedgerTypeOK
  BY StockAssumption DEF LedgerInit, LedgerTypeOK, Statuses
<1>5. UnitsFinite
  BY <1>1, <1>2, <1>3 DEF UnitsFinite
<1>6. ReservedMatchesHeld
  BY <1>1, <1>2, <1>3 DEF LedgerInit, ReservedMatchesHeld
<1>7. ReservedBounds
  BY StockAssumption DEF LedgerInit, ReservedBounds
<1>8. StockConserved
  BY <1>1, <1>2, <1>3, StockAssumption DEF LedgerInit, StockConserved
<1>. QED BY <1>4, <1>5, <1>6, <1>7, <1>8 DEF LedgerInv

\* What taking the units of an order does to the counters.
LEMMA ReserveInv ==
  ASSUME LedgerInv, NEW o \in Orders, Reserve(o)
  PROVE  LedgerInv'
<1>1. /\ basket \in [Orders -> [Products -> Nat]]
      /\ basket' = basket /\ quantity' = quantity /\ expired' = expired
      /\ status' = [status EXCEPT ![o] = "held"]
      /\ reserved' = [p \in Products |-> reserved[p] + basket[o][p]]
  BY BasketsAssumption DEF LedgerInv, LedgerTypeOK, Reserve, HoldUnits
<1>2. /\ Held' = Held \union {o} /\ o \notin Held
      /\ Committed' = Committed
  BY <1>1 DEF LedgerInv, LedgerTypeOK, Reserve, Held, Committed, Statuses
<1>3. ASSUME NEW p \in Products
      PROVE  /\ UnitsOf(Held, p)' = UnitsOf(Held \union {o}, p)
             /\ UnitsOf(Committed, p)' = UnitsOf(Committed, p)
  BY <1>1, <1>2 DEF UnitsOf
<1>4. ASSUME NEW p \in Products
      PROVE  /\ IsFiniteSet(UnitsOf(Held \union {o}, p))
             /\ Cardinality(UnitsOf(Held \union {o}, p))
                  = reserved[p] + basket[o][p]
  BY <1>1, <1>2, UnitsAdded DEF LedgerInv, UnitsFinite, ReservedMatchesHeld
<1>5. LedgerTypeOK'
  BY <1>1 DEF LedgerInv, LedgerTypeOK, Statuses
<1>6. UnitsFinite'
  BY <1>3, <1>4 DEF LedgerInv, UnitsFinite
<1>7. ReservedMatchesHeld'
  BY <1>1, <1>3, <1>4 DEF ReservedMatchesHeld
<1>8. ReservedBounds'
  BY <1>1 DEF Reserve, ReservedBounds
<1>9. StockConserved'
  BY <1>1, <1>3 DEF LedgerInv, StockConserved
<1>. QED BY <1>5, <1>6, <1>7, <1>8, <1>9 DEF LedgerInv

\* Returning them: the counter holds at least the units of a held order.
LEMMA FinalizeInv ==
  ASSUME LedgerInv, NEW o \in Orders, NEW action \in Actions,
         Finalize(o, action)
  PROVE  LedgerInv'
<1> DEFINE outcome == IF action = "commit" THEN "committed" ELSE "released"
<1>1. /\ basket \in [Orders -> [Products -> Nat]]
      /\ basket' = basket /\ expired' = expired
      /\ status' = [status EXCEPT ![o] = outcome]
      /\ reserved' = [p \in Products |-> reserved[p] - basket[o][p]]
      /\ quantity' = IF action = "commit"
                       THEN [p \in Products |-> quantity[p] - basket[o][p]]
                       ELSE quantity
  BY BasketsAssumption DEF LedgerInv, LedgerTypeOK, Finalize, ReturnUnits
<1>2. /\ Held' = Held \ {o} /\ o \in Held /\ o \notin Committed
      /\ Committed' = IF action = "commit" THEN Committed \union {o}
                                           ELSE Committed
  BY <1>1 DEF LedgerInv, LedgerTypeOK, Finalize, Held, Committed, Statuses, Actions
<1>3. ASSUME NEW p \in Products
      PROVE  /\ UnitsOf(Held, p)' = UnitsOf(Held \ {o}, p)
             /\ UnitsOf(Committed, p)' = UnitsOf(Committed', p)
  BY <1>1, <1>2 DEF UnitsOf
<1>4. ASSUME NEW p \in Products
      PROVE  /\ IsFiniteSet(UnitsOf(Held \ {o}, p))
             /\ Cardinality(UnitsOf(Held \ {o}, p)) + basket[o][p] = reserved[p]
  BY <1>1, <1>2, UnitsRemoved DEF LedgerInv, UnitsFinite, ReservedMatchesHeld
<1>5. ASSUME NEW p \in Products
      PROVE  /\ IsFiniteSet(UnitsOf(Committed', p))
             /\ Cardinality(UnitsOf(Committed', p))
                  = IF action = "commit"
                      THEN Cardinality(UnitsOf(Committed, p)) + basket[o][p]
                      ELSE Cardinality(UnitsOf(Committed, p))
  BY <1>1, <1>2, UnitsAdded DEF LedgerInv, UnitsFinite
<1>6. ASSUME NEW p \in Products
      PROVE  /\ Cardinality(UnitsOf(Held \ {o}, p)) \in Nat
             /\ Cardinality(UnitsOf(Committed, p)) \in Nat
             /\ basket[o][p] \in Nat /\ quantity[p] \in Nat /\ reserved[p] \in Nat
             /\ reserved[p] <= quantity[p]
  BY <1>1, <1>4, FS_CardinalityType
     DEF LedgerInv, LedgerTypeOK, UnitsFinite, ReservedBounds
<1>7. ASSUME NEW p \in Products
      PROVE  /\ reserved[p] - basket[o][p] = Cardinality(UnitsOf(Held \ {o}, p))
             /\ reserved[p] - basket[o][p] \in Nat
             /\ quantity[p] - basket[o][p] \in Nat
  <2> DEFINE c == Cardinality(UnitsOf(Held \ {o}, p))
  <2>1. c + basket[o][p] = reserved[p] /\ c \in Nat
    BY <1>4, <1>6
  <2> HIDE DEF c
  <2>2. /\ reserved[p] - basket[o][p] = c
        /\ reserved[p] - basket[o][p] \in Nat
        /\ quantity[p] - basket[o][p] \in Nat
    BY <1>6, <2>1
  <2>. QED BY <2>1, <2>2 DEF c
<1>8. LedgerTypeOK'
  BY <1>1, <1>7 DEF LedgerInv, LedgerTypeOK, Statuses
<1>9. UnitsFinite'
  BY <1>3, <1>4, <1>5 DEF UnitsFinite
<1>10. ReservedMatchesHeld'
  BY <1>1, <1>3, <1>7 DEF ReservedMatchesHeld
<1>11. ReservedBounds'
  BY <1>1, <1>6, <1>7 DEF ReservedBounds
<1>12. StockConserved'
  <2> SUFFICES ASSUME NEW p \in Products
               PROVE  quantity'[p] + Cardinality(UnitsOf(Committed', p))
                        = InitialStock[p]
    BY <1>3 DEF StockConserved
  <2>1. quantity[p] + Cardinality(UnitsOf(Committed, p)) = InitialStock[p]
    BY DEF LedgerInv, StockConserved
  <2>. QED BY <1>1, <1>5, <1>6, <2>1
<1>. QED BY <1>8, <1>9, <1>10, <1>11, <1>12 DEF LedgerInv

LEMMA LedgerStutterInv ==
  ASSUME LedgerInv, UNCHANGED <<basket, quantity, reserved, status>>,
         expired' \subseteq Orders
  PROVE  LedgerInv'
<1>1. Held' = Held /\ Committed' = Committed
  BY DEF Held, Committed
<1>2. \A p \in Products : /\ UnitsOf(Held, p)' = UnitsOf(Held, p)
                          /\ UnitsOf(Committed, p)' = UnitsOf(Committed, p)
  BY <1>1 DEF UnitsOf
<1>. QED BY <1>2 DEF LedgerInv, LedgerTypeOK, UnitsFinite,
                     ReservedMatchesHeld, ReservedBounds, StockConserved

LEMMA LedgerStepInv == LedgerInv /\ [LedgerNext]_ledgerVars => LedgerInv'
<1> SUFFICES ASSUME LedgerInv, [LedgerNext]_ledgerVars PROVE LedgerInv'
  OBVIOUS
<1>1. ASSUME NEW o \in Orders, Reserve(o) PROVE LedgerInv'
  BY <1>1, ReserveInv
<1>2. ASSUME NEW o \in Orders, NEW action \in Actions, Finalize(o, action)
      PROVE LedgerInv'
  BY <1>2, FinalizeInv
<1>3. ASSUME NEW o \in Orders, Expire(o) PROVE LedgerInv'
  <2>1. expired' \subseteq Orders
    BY <1>3 DEF Expire, LedgerInv, LedgerTypeOK
  <2>. QED BY <1>3, <2>1, LedgerStutterInv DEF Expire
<1>4. CASE UNCHANGED ledgerVars
  BY <1>4, LedgerStutterInv DEF ledgerVars, LedgerInv, LedgerTypeOK
<1>. QED BY <1>1, <1>2, <1>3, <1>4 DEF LedgerNext

-----------------------------------------------------------------------------
(***************************************************************************)
(* The four invariants hold together in every reachable state: the         *)
(* counters of stock_items stay naturals, `reserved` counts exactly the    *)
(* units of the held reservations, never exceeds `quantity`, and           *)
(* `quantity` shrinks by exactly what was committed.                       *)
(***************************************************************************)
THEOREM LedgerInvariant == LedgerSpec => []LedgerInv
BY LedgerInitInv, LedgerStepInv, PTL DEF LedgerSpec

\* The counter never drifts from the reservations it summarizes.
THEOREM LedgerReserved == LedgerSpec => []ReservedMatchesHeld
<1>1. LedgerInv => ReservedMatchesHeld
  BY DEF LedgerInv
<1>. QED BY <1>1, LedgerInvariant, PTL

\* The counters are natural numbers within the CHECK of stock_items.
THEOREM LedgerCounters == LedgerSpec => [](LedgerTypeOK /\ ReservedBounds)
<1>1. LedgerInv => LedgerTypeOK /\ ReservedBounds
  BY DEF LedgerInv
<1>. QED BY <1>1, LedgerInvariant, PTL

\* What is held never exceeds the stock there is: the counter says how much
\* that is, and the CHECK bounds the counter.
THEOREM LedgerHeldFitsStock == LedgerSpec => []HeldFitsStock
<1>1. LedgerInv => HeldFitsStock
  BY DEF LedgerInv, ReservedMatchesHeld, ReservedBounds, HeldFitsStock
<1>. QED BY <1>1, LedgerInvariant, PTL

\* Stock leaves only with committed orders.
THEOREM LedgerConserved == LedgerSpec => []StockConserved
<1>1. LedgerInv => StockConserved
  BY DEF LedgerInv
<1>. QED BY <1>1, LedgerInvariant, PTL

\* A committed or released reservation keeps its outcome for ever.
THEOREM LedgerOutcomeIsFinal == LedgerSpec => OutcomeIsFinal
<1>1. LedgerInv /\ [LedgerNext]_ledgerVars
        => [\A o \in Orders :
              status[o] \in Terminal => status'[o] = status[o]]_ledgerVars
  <2> SUFFICES ASSUME LedgerInv, LedgerNext, NEW o \in Orders,
                      status[o] \in Terminal
               PROVE  status'[o] = status[o]
    OBVIOUS
  <2>. QED BY DEF LedgerInv, LedgerTypeOK, LedgerNext, Reserve, Finalize,
                  Expire, Terminal, Statuses
<1>. QED BY <1>1, LedgerInvariant, PTL DEF LedgerSpec, OutcomeIsFinal
=============================================================================
