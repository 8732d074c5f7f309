-------------------------- MODULE UsersSeeder_proofs --------------------------
(***************************************************************************)
(* For any number of replicas and users: who serves requests has every     *)
(* user, a replica fails on the unique email at most once for each, and    *)
(* never do all replicas fail on it.                                       *)
(*                                                                         *)
(* The rows are always the first users of the list.  A replica that is     *)
(* about to insert a user found all of them before it, and none after.     *)
(***************************************************************************)
EXTENDS UsersSeeder, TLAPS

Count == Len(SeedSpecs)
First(k) == {SeedSpecs[i] : i \in 1 .. k}

Booting(r) == boot[r].step \in {"find", "insert", "up"}

\* With the first k users there.
Progressed(k) ==
  /\ users = First(k)
  /\ \A r \in Replicas :
       /\ Booting(r) => boot[r].next <= k + 1
       /\ At(r, "up") => boot[r].next = Count + 1
       /\ boot[r].step \in {"find", "insert"} => boot[r].next <= Count
       /\ conflicts[r] <= k
       /\ At(r, "insert") => conflicts[r] < boot[r].next

\* A replica that is not down by a conflict, and not about to be.
Survivor(k) ==
  \E r \in Replicas : /\ ~ At(r, "conflict")
                      /\ At(r, "insert") => boot[r].next = k + 1

IInv ==
  /\ TypeOK
  /\ \E k \in 0 .. Count : Progressed(k) /\ Survivor(k)

-----------------------------------------------------------------------------
\* Looking up the i-th user tells whether it is one of the first k.
LEMMA FindTells ==
  ASSUME NEW k \in 0 .. Count, users = First(k), NEW i \in 1 .. Count
  PROVE  FindByEmail(SeedSpecs[i].email) = {} <=> i > k
<1>1. ASSUME i <= k PROVE FindByEmail(SeedSpecs[i].email) # {}
  <2>1. SeedSpecs[i] \in users
    BY <1>1 DEF First
  <2>. QED BY <2>1 DEF FindByEmail
<1>2. ASSUME NEW u \in FindByEmail(SeedSpecs[i].email) PROVE i <= k
  <2>1. PICK j \in 1 .. k : u = SeedSpecs[j]
    BY <1>2 DEF FindByEmail, First
  <2>2. SeedSpecs[j].email = SeedSpecs[i].email /\ j \in 1 .. Count
    BY <2>1, SpecsAssumption DEF FindByEmail, Count
  <2>3. j = i
    BY <2>2, SpecsAssumption, EmailsAssumption DEF Count
  <2>. QED BY <2>3
<1>. QED BY <1>1, <1>2

LEMMA InitInv == Init => IInv
<1> SUFFICES ASSUME Init PROVE IInv
  OBVIOUS
<1>1. PICK k \in 0 .. Count : users = First(k)
  BY DEF Init, Count, First
<1>2. Count \in Nat
  BY SpecsAssumption DEF Count
<1>3. TypeOK
  BY <1>1, <1>2, SpecsAssumption DEF Init, TypeOK, Specs, Down, First, Count
<1>4. Progressed(k)
  BY <1>1, <1>2 DEF Init, Progressed, Booting, At
<1>5. Survivor(k)
  BY ReplicasAssumption DEF Init, Survivor, At
<1>. QED BY <1>3, <1>4, <1>5 DEF IInv

\* Each action gives the number of users it leaves.
LEMMA StepInv ==
  ASSUME IInv, NEW r \in Replicas,
         Start(r) \/ Find(r) \/ Create(r) \/ Conflict(r) \/ Fail(r)
  PROVE  \E k \in 0 .. Count : Progressed(k)' /\ Survivor(k)'
<1>1. PICK k \in 0 .. Count : Progressed(k) /\ Survivor(k)
  BY DEF IInv
<1>2. PICK s \in Replicas : /\ ~ At(s, "conflict")
                            /\ At(s, "insert") => boot[s].next = k + 1
  BY <1>1 DEF Survivor
<1>3. /\ Count \in Nat /\ Count = Len(SeedSpecs)
      /\ \A q \in Replicas : /\ boot[q].next \in 1 .. Count + 1
                             /\ conflicts[q] \in Nat
      /\ boot \in [Replicas -> [step : Down \union {"find", "insert", "up"},
                                next : 1 .. Count + 1]]
      /\ conflicts \in [Replicas -> Nat]
  BY SpecsAssumption DEF IInv, TypeOK, Count
<1> USE <1>1, <1>3 DEF Progressed, Booting, At, GoTo
<1>4. CASE Start(r)
  <2>1. Progressed(k)'
    BY <1>4 DEF Start, SeedFrom
  <2>2. Survivor(k)'
    BY <1>4 DEF Start, SeedFrom, Survivor
  <2>. QED BY <2>1, <2>2
<1>5. CASE Find(r)
  <2>1. boot[r].next \in 1 .. Count /\ boot[r].next <= k + 1
    BY <1>5 DEF Find
  <2>2. FindByEmail(SeedSpecs[boot[r].next].email) = {} <=> boot[r].next > k
    BY <2>1, FindTells
  <2>3. CASE boot[r].next > k
    <3>1. GoTo(r, "insert", boot[r].next) /\ boot[r].next = k + 1
      BY <1>5, <2>1, <2>2, <2>3 DEF Find
    <3>2. Progressed(k)'
      BY <1>5, <2>1, <3>1 DEF Find
    <3>3. Survivor(k)'
      BY <1>5, <3>1 DEF Find, Survivor
    <3>. QED BY <3>2, <3>3
  <2>4. CASE boot[r].next <= k
    <3>1. SeedFrom(r, boot[r].next + 1)
      BY <1>5, <2>1, <2>2, <2>4 DEF Find
    <3>2. Progressed(k)'
      BY <1>5, <2>1, <2>4, <3>1 DEF Find, SeedFrom
    <3>3. Survivor(k)'
      BY <1>5, <3>1 DEF Find, SeedFrom, Survivor
    <3>. QED BY <3>2, <3>3
  <2>. QED BY <2>1, <2>3, <2>4
<1>6. CASE Create(r)
  <2>1. boot[r].next \in 1 .. Count /\ boot[r].next <= k + 1
    BY <1>6 DEF Create
  <2>2. FindByEmail(SeedSpecs[boot[r].next].email) = {} <=> boot[r].next > k
    BY <2>1, FindTells
  <2>3. boot[r].next = k + 1
    BY <1>6, <2>1, <2>2 DEF Create
  <2>4. users' = First(k + 1)
    BY <1>6, <2>3 DEF Create, First
  <2>5. k + 1 \in 0 .. Count
    BY <2>1, <2>3
  <2>6. Progressed(k + 1)'
    BY <1>6, <2>3, <2>4 DEF Create, SeedFrom
  <2>7. Survivor(k + 1)'
    BY <1>6 DEF Create, SeedFrom, Survivor
  <2>. QED BY <2>5, <2>6, <2>7
<1>7. CASE Conflict(r)
  <2>1. boot[r].next \in 1 .. Count
    BY <1>7 DEF Conflict
  <2>2. FindByEmail(SeedSpecs[boot[r].next].email) = {} <=> boot[r].next > k
    BY <2>1, FindTells
  <2>3. boot[r].next <= k
    BY <1>7, <2>1, <2>2 DEF Conflict
  <2>4. Progressed(k)'
    BY <1>7, <2>3 DEF Conflict
  <2>5. s # r
    BY <1>2, <1>7, <2>3 DEF Conflict
  <2>6. Survivor(k)'
    BY <1>2, <1>7, <2>5 DEF Conflict, Survivor
  <2>. QED BY <2>4, <2>6
<1>8. CASE Fail(r)
  <2>1. Progressed(k)'
    BY <1>8 DEF Fail
  <2>2. Survivor(k)'
    BY <1>8 DEF Fail, Survivor
  <2>. QED BY <2>1, <2>2
<1>. QED BY <1>4, <1>5, <1>6, <1>7, <1>8

LEMMA TypeStep ==
  ASSUME IInv, NEW r \in Replicas,
         Start(r) \/ Find(r) \/ Create(r) \/ Conflict(r) \/ Fail(r)
  PROVE  TypeOK'
<1>1. PICK k \in 0 .. Count : Progressed(k)
  BY DEF IInv
<1> USE SpecsAssumption DEF TypeOK, IInv, Count, Down, GoTo, SeedFrom, At
<1>2. CASE Start(r)
  BY <1>2 DEF Start
<1>3. CASE Find(r)
  <2>1. boot[r].next \in 1 .. Len(SeedSpecs)
    BY <1>1, <1>3 DEF Find, Progressed
  <2>2. GoTo(r, "insert", boot[r].next) \/ SeedFrom(r, boot[r].next + 1)
    BY <1>3 DEF Find
  <2>. QED BY <1>3, <2>1, <2>2 DEF Find
<1>4. CASE Create(r)
  BY <1>1, <1>4 DEF Create, Specs, Progressed
<1>5. CASE Conflict(r)
  BY <1>5 DEF Conflict
<1>6. CASE Fail(r)
  BY <1>6 DEF Fail
<1>. QED BY <1>2, <1>3, <1>4, <1>5, <1>6

\* The inductive invariant: the users there are, and how far each replica is.
THEOREM SeederInvariant == Spec => []IInv
<1>1. ASSUME IInv, [Next]_vars PROVE IInv'
  <2>1. CASE UNCHANGED vars
    BY <1>1, <2>1 DEF vars, IInv, TypeOK, Progressed, Survivor, Booting, At
  <2>2. CASE Next
    BY <1>1, <2>2, StepInv, TypeStep DEF Next, IInv
  <2>. QED BY <1>1, <2>1, <2>2
<1>. QED BY <1>1, InitInv, PTL DEF Spec

-----------------------------------------------------------------------------
\* Every variable keeps its type, the rows are those of the list among it.
THEOREM SeederTypes == Spec => []TypeOK
<1>1. IInv => TypeOK
  BY DEF IInv
<1>. QED BY <1>1, SeederInvariant, PTL

\* A replica that serves requests can log in every user of the list, with
\* its role: all were found or created before it listened.
THEOREM SeederReadyWhenUp == Spec => []ReadyWhenUp
<1>1. ASSUME IInv PROVE ReadyWhenUp
  <2>1. SUFFICES ASSUME NEW r \in Replicas, At(r, "up"), NEW s \in Specs
                 PROVE  Login(s.email, s.password) = {s.role}
    BY DEF ReadyWhenUp
  <2>2. PICK k \in 0 .. Count : Progressed(k)
    BY <1>1 DEF IInv
  <2>3. Count \in Nat
    BY SpecsAssumption DEF Count
  <2>4. boot[r].next = Count + 1 /\ boot[r].next <= k + 1
    BY <2>1, <2>2 DEF Progressed, Booting, At
  <2>5. k = Count
    BY <2>3, <2>4
  <2>6. users = Specs
    BY <2>2, <2>5, SpecsAssumption DEF Progressed, First, Specs, Count
  <2>7. \A u \in Specs : u.email = s.email => u = s
    BY EmailsAssumption DEF Specs
  <2>. QED BY <2>1, <2>6, <2>7 DEF Login, FindByEmail
<1>. QED BY <1>1, SeederInvariant, PTL

\* Starting again helps: no replica fails on the unique email more often than
\* there are users.
THEOREM SeederConflictsBounded == Spec => []ConflictsBounded
<1>1. IInv => ConflictsBounded
  BY SpecsAssumption DEF IInv, TypeOK, Progressed, ConflictsBounded, Count
<1>. QED BY <1>1, SeederInvariant, PTL

\* The replicas never all keep each other from starting.
THEOREM SeederSomeoneSurvives == Spec => []SomeoneSurvives
<1>1. IInv => SomeoneSurvives
  BY DEF IInv, Survivor, SomeoneSurvives
<1>. QED BY <1>1, SeederInvariant, PTL
=============================================================================
