--------------------------- MODULE CircuitBreaker ---------------------------
(***************************************************************************)
(* InventoryCircuitBreaker, the in-memory breaker around the synchronous   *)
(* inventory.reserve call of the orders service.  Each method runs to      *)
(* completion, but calls overlap: one admitted while the circuit was       *)
(* closed may end after it has opened, or during the trial that follows.   *)
(*                                                                         *)
(* Time is discrete.  Of Date.now() only differences are read, so a call   *)
(* carries its age and openedAt is the time since it was set, which stops  *)
(* counting at ResetTimeout.  A call ends by its timeout at the latest:    *)
(* SendTimeout stands for sendTimeoutMs and the lag of the timer.          *)
(***************************************************************************)
EXTENDS Naturals, FiniteSets

CONSTANTS
  Calls,          \* execute() calls that can overlap
  Threshold,      \* breakerFailureThreshold
  ResetTimeout,   \* breakerResetTimeoutMs
  SendTimeout     \* sendTimeoutMs

\* parseIntEnv and the defaults make every setting a positive integer.
Setting == Nat \ {0}

ASSUME SettingsAssumption ==
  Threshold \in Setting /\ ResetTimeout \in Setting /\ SendTimeout \in Setting

VARIABLES
  state,          \* "closed", "open" or "half-open"
  failures,       \* consecutiveFailures, as far as the threshold
  sinceOpened,    \* Date.now() - openedAt, as far as the reset timeout
  trialInFlight,
  call            \* what each call runs: plain or as the trial, and its age

vars == <<state, failures, sinceOpened, trialInFlight, call>>

Idle     == [kind |-> "idle", age |-> 0]
InFlight == {c \in Calls : call[c].kind # "idle"}
Trials   == {c \in Calls : call[c].kind = "trial"}

UpTo(n, limit) == IF n <= limit THEN n ELSE limit

Init ==
  /\ state = "closed"
  /\ failures = 0
  /\ sinceOpened = 0
  /\ trialInFlight = FALSE
  /\ call = [c \in Calls |-> Idle]

-----------------------------------------------------------------------------
Begin(c, kind) == call' = [call EXCEPT ![c] = [kind |-> kind, age |-> 0]]

\* admit() in the closed state.
AdmitCall(c) ==
  /\ c \notin InFlight
  /\ state = "closed"
  /\ Begin(c, "plain")
  /\ UNCHANGED <<state, failures, sinceOpened, trialInFlight>>

\* Mutant: the reset timeout is not waited for.
TrialDueAtOnce ==
  state = "open" \/ (state = "half-open" /\ ~ trialInFlight)

\* admit() in the other states lets a trial through, or throws
\* CircuitOpenError and changes nothing.
TrialDue ==
  \/ state = "open" /\ sinceOpened >= ResetTimeout
  \/ state = "half-open" /\ ~ trialInFlight

\* Mutant: a trial is admitted without a look at the one in flight.
AdmitTrialAgain(c) ==
  /\ c \notin InFlight
  /\ state = "half-open" \/ (state = "open" /\ sinceOpened >= ResetTimeout)
  /\ state' = "half-open"
  /\ trialInFlight' = TRUE
  /\ Begin(c, "trial")
  /\ UNCHANGED <<failures, sinceOpened>>

AdmitTrial(c) ==
  /\ c \notin InFlight
  /\ TrialDue
  /\ state' = "half-open"
  /\ trialInFlight' = TRUE
  /\ Begin(c, "trial")
  /\ UNCHANGED <<failures, sinceOpened>>

End(c) == call' = [call EXCEPT ![c] = Idle]

\* onSuccess: whoever it is that succeeds closes the circuit.
Succeed(c) ==
  /\ c \in InFlight
  /\ state' = "closed"
  /\ failures' = 0
  /\ sinceOpened' = 0
  /\ trialInFlight' = FALSE
  /\ End(c)

TripOpen == state' = "open" /\ sinceOpened' = 0

\* Mutant: the failure of a trial counts past the threshold.
FailTrialCounts(c) ==
  /\ c \in Trials
  /\ trialInFlight' = FALSE
  /\ failures' = failures + 1
  /\ TripOpen
  /\ End(c)

\* Mutant: the failure of a trial does not reopen the circuit.
FailTrialKeepsState(c) ==
  /\ c \in Trials
  /\ End(c)
  /\ UNCHANGED <<state, sinceOpened, trialInFlight, failures>>

\* onFailure of a trial.
FailTrial(c) ==
  /\ c \in Trials
  /\ trialInFlight' = FALSE
  /\ TripOpen
  /\ End(c)
  /\ UNCHANGED failures

\* onFailure of any other call: a timeout, a refused connection, or an error
\* that the inventory handler threw.
FailCall(c) ==
  /\ c \in InFlight \ Trials
  /\ trialInFlight' = FALSE
  /\ failures' = UpTo(failures + 1, Threshold)
  /\ IF failures' >= Threshold
       THEN TripOpen
       ELSE UNCHANGED <<state, sinceOpened>>
  /\ End(c)

Fail(c) == FailTrial(c) \/ FailCall(c)

\* Time passes, but no call outlives its timeout.
Tick ==
  /\ \A c \in InFlight : call[c].age < SendTimeout
  /\ sinceOpened' = IF state = "open" THEN UpTo(sinceOpened + 1, ResetTimeout)
                                      ELSE sinceOpened
  /\ call' = [c \in Calls |->
                IF c \in InFlight THEN [call[c] EXCEPT !.age = @ + 1]
                                   ELSE call[c]]
  /\ UNCHANGED <<state, failures, trialInFlight>>

Next ==
  \/ \E c \in Calls : \/ AdmitCall(c) \/ AdmitTrial(c)
                      \/ Succeed(c) \/ Fail(c)
  \/ Tick

Spec == Init /\ [][Next]_vars

(***************************************************************************)
(* Time passes, a call ends (its timeout sees to that), and there are      *)
(* always clients asking for orders.                                       *)
(***************************************************************************)
Fairness ==
  /\ WF_vars(Tick)
  /\ \A c \in Calls : /\ WF_vars(Succeed(c) \/ Fail(c))
                      /\ WF_vars(AdmitTrial(c))

FairSpec == Spec /\ Fairness

-----------------------------------------------------------------------------
TypeOK ==
  /\ state \in {"closed", "open", "half-open"}
  /\ failures \in 0 .. Threshold
  /\ sinceOpened \in 0 .. ResetTimeout
  /\ trialInFlight \in BOOLEAN
  /\ call \in [Calls -> [kind : {"idle", "plain", "trial"}, age : 0 .. SendTimeout]]

(***************************************************************************)
(* README.md:421, inventory-circuit-breaker.ts:48-53: a single trial is in *)
(* flight.  It holds when the reset timeout is longer than a call.         *)
(***************************************************************************)
SingleFlight == \A c, d \in Trials : c = d

(***************************************************************************)
(* The outcome of a trial decides alone: while half-open the trial is the  *)
(* only call in flight, so no late answer of an earlier call can close or  *)
(* reopen the circuit behind its back, and outside half-open there is no   *)
(* trial left that could.                                                  *)
(***************************************************************************)
TrialDecidesAlone ==
  /\ state = "half-open" => InFlight = Trials
  /\ Trials # {} => state = "half-open"

(***************************************************************************)
(* The circuit is never wedged half-open, rejecting every call for a trial *)
(* that is over: some trial is in flight, and ends by its timeout.         *)
(***************************************************************************)
NeverWedged == state = "half-open" => Trials # {}

(***************************************************************************)
(* Once inventory stops failing calls, the circuit closes for good.        *)
(***************************************************************************)
Recovers ==
  (<>[][\A c \in Calls : ~ Fail(c)]_vars) => <>[](state = "closed")
=============================================================================
