----------------------------- MODULE UsersSeeder -----------------------------
(***************************************************************************)
(* The fixture users of the orders service.  Every replica that starts     *)
(* looks each of them up and creates the missing ones before it serves a   *)
(* request; the email is unique, so of two replicas that find it missing   *)
(* one fails to start.  Nothing restarts it (docker-compose.yml has no     *)
(* restart policy): Start may happen again, but does not have to.          *)
(***************************************************************************)
EXTENDS Naturals, Sequences, FiniteSets

CONSTANTS
  Replicas,   \* of the orders service
  SeedSpecs   \* getSeedSpecs, the same for all: <<[email, password, role], ...>>

VARIABLES
  users,      \* the rows; a passwordHash stands for what it is the hash of
  boot,       \* how far each replica is
  conflicts   \* how often a replica failed on the unique email

vars == <<users, boot, conflicts>>

Specs == {SeedSpecs[i] : i \in DOMAIN SeedSpecs}
Down  == {"stopped", "failed", "conflict"}

ASSUME ReplicasAssumption == Replicas # {}
ASSUME SpecsAssumption ==
  Len(SeedSpecs) \in Nat /\ DOMAIN SeedSpecs = 1 .. Len(SeedSpecs)
ASSUME EmailsAssumption ==
  \A i, j \in DOMAIN SeedSpecs : SeedSpecs[i].email = SeedSpecs[j].email => i = j

\* The rows an earlier start left, cut short or not.
Init ==
  /\ \E k \in 0 .. Len(SeedSpecs) : users = {SeedSpecs[i] : i \in 1 .. k}
  /\ boot = [r \in Replicas |-> [step |-> "stopped", next |-> 1]]
  /\ conflicts = [r \in Replicas |-> 0]

FindByEmail(email) == {u \in users : u.email = email}

\* login: the role in the token, for those who get one.
Login(email, password) == {u.role : u \in {v \in FindByEmail(email) : v.password = password}}

At(r, step) == boot[r].step = step
GoTo(r, step, i) == boot' = [boot EXCEPT ![r] = [step |-> step, next |-> i]]

\* onApplicationBootstrap goes on with the i-th user, or the replica listens.
SeedFrom(r, i) == GoTo(r, IF i <= Len(SeedSpecs) THEN "find" ELSE "up", i)

Start(r) ==
  /\ boot[r].step \in Down
  /\ SeedFrom(r, 1)
  /\ UNCHANGED <<users, conflicts>>

\* Mutant: a user that exists ends the loop.
FindEndsLoop(r) ==
  /\ At(r, "find")
  /\ IF FindByEmail(SeedSpecs[boot[r].next].email) # {}
     THEN GoTo(r, "up", boot[r].next)
     ELSE GoTo(r, "insert", boot[r].next)
  /\ UNCHANGED <<users, conflicts>>

\* Mutant: every start creates its users.
FindSkipped(r) ==
  /\ At(r, "find")
  /\ GoTo(r, "insert", boot[r].next)
  /\ UNCHANGED <<users, conflicts>>

Find(r) ==
  /\ At(r, "find")
  /\ IF FindByEmail(SeedSpecs[boot[r].next].email) # {}
     THEN SeedFrom(r, boot[r].next + 1)
     ELSE GoTo(r, "insert", boot[r].next)
  /\ UNCHANGED <<users, conflicts>>

\* Mutant: the role is left to the column's default.
CreateDefaultRole(r) ==
  /\ At(r, "insert")
  /\ FindByEmail(SeedSpecs[boot[r].next].email) = {}
  /\ users' = users \union {[SeedSpecs[boot[r].next] EXCEPT !.role = "customer"]}
  /\ SeedFrom(r, boot[r].next + 1)
  /\ UNCHANGED conflicts

\* The hash took its time: the email may be in use by now.
Create(r) ==
  /\ At(r, "insert")
  /\ FindByEmail(SeedSpecs[boot[r].next].email) = {}
  /\ users' = users \union {SeedSpecs[boot[r].next]}
  /\ SeedFrom(r, boot[r].next + 1)
  /\ UNCHANGED conflicts

\* ConflictException: bootstrap is rejected and the process ends.
Conflict(r) ==
  /\ At(r, "insert")
  /\ FindByEmail(SeedSpecs[boot[r].next].email) # {}
  /\ GoTo(r, "conflict", boot[r].next)
  /\ conflicts' = [conflicts EXCEPT ![r] = @ + 1]
  /\ UNCHANGED users

\* Any other error while it starts, or the end of the process.
Fail(r) ==
  /\ boot[r].step \in {"find", "insert", "up"}
  /\ GoTo(r, "failed", boot[r].next)
  /\ UNCHANGED <<users, conflicts>>

Next ==
  \E r \in Replicas : Start(r) \/ Find(r) \/ Create(r) \/ Conflict(r) \/ Fail(r)

Spec == Init /\ [][Next]_vars

-----------------------------------------------------------------------------
TypeOK ==
  /\ users \subseteq Specs
  /\ boot \in [Replicas -> [step : Down \union {"find", "insert", "up"},
                            next : 1 .. Len(SeedSpecs) + 1]]
  /\ conflicts \in [Replicas -> Nat]

(***************************************************************************)
(* A replica that serves requests has its credentials ready for a login,   *)
(* with their role, whoever created the users and however often starting   *)
(* was cut short (users-seeder.service.ts:14-18).                          *)
(***************************************************************************)
ReadyWhenUp ==
  \A r \in Replicas : At(r, "up") =>
    \A s \in Specs : Login(s.email, s.password) = {s.role}

(***************************************************************************)
(* Starting again helps: a replica fails on the unique email at most once  *)
(* for each user, so it does not crash in a loop.                          *)
(***************************************************************************)
ConflictsBounded == \A r \in Replicas : conflicts[r] <= Len(SeedSpecs)

(***************************************************************************)
(* The replicas never keep each other from starting: one of them at least  *)
(* did not fail on the unique email.                                       *)
(***************************************************************************)
SomeoneSurvives == \E r \in Replicas : ~ At(r, "conflict")
=============================================================================
