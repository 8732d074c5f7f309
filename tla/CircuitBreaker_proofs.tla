----------------------- MODULE CircuitBreaker_proofs -----------------------
(***************************************************************************)
(* The single trial of the circuit breaker, for every number of calls and  *)
(* every threshold, when the reset timeout is longer than a call can take  *)
(* (the defaults are 15 s and 3 s).  A call in flight while the circuit is *)
(* open is older than the opening, so all of them have ended when the      *)
(* trial is due.                                                           *)
(***************************************************************************)
EXTENDS CircuitBreaker, TLAPS

LongReset == SendTimeout < ResetTimeout

\* The types apart from the flag, whose Boolean values are left to Zenon.
CallTypes ==
  /\ state \in {"closed", "open", "half-open"}
  /\ failures \in 0 .. Threshold
  /\ sinceOpened \in 0 .. ResetTimeout
  /\ call \in [Calls -> [kind : {"idle", "plain", "trial"}, age : 0 .. SendTimeout]]

FlagType == trialInFlight \in BOOLEAN

BreakerInv ==
  /\ CallTypes
  /\ state = "closed" => Trials = {}
  /\ state = "open" =>
       \A c \in InFlight : call[c].kind = "plain" /\ sinceOpened <= call[c].age
  /\ state = "half-open" =>
       /\ trialInFlight = TRUE
       /\ \E c \in Calls : InFlight = {c} /\ Trials = {c}

LEMMA BreakerInit == Init => BreakerInv
BY SettingsAssumption
   DEF Setting, Init, BreakerInv, CallTypes, Idle, InFlight, Trials

LEMMA FlagStep ==
  ASSUME FlagType, [Next]_vars
  PROVE  FlagType'
BY Zenon DEF FlagType, Next, vars, AdmitCall, AdmitTrial, Succeed, Fail, FailTrial,
             FailCall, Tick

LEMMA TypeStep ==
  ASSUME CallTypes, [Next]_vars
  PROVE  CallTypes'
<1> USE SettingsAssumption DEF Setting, CallTypes
<1>1. ASSUME NEW c \in Calls, AdmitCall(c) \/ AdmitTrial(c) PROVE CallTypes'
  BY <1>1 DEF AdmitCall, AdmitTrial, Begin
<1>2. ASSUME NEW c \in Calls, Succeed(c) PROVE CallTypes'
  BY <1>2 DEF Succeed, End, Idle
<1>3. ASSUME NEW c \in Calls, FailTrial(c) PROVE CallTypes'
  BY <1>3 DEF FailTrial, TripOpen, End, Idle
<1>4. ASSUME NEW c \in Calls, FailCall(c) PROVE CallTypes'
  <2>1. failures' \in 0 .. Threshold
    BY <1>4 DEF FailCall, UpTo
  <2>2. state' \in {"closed", "open", "half-open"}
        /\ sinceOpened' \in 0 .. ResetTimeout
    BY <1>4 DEF FailCall, TripOpen
  <2>. QED BY <1>4, <2>1, <2>2 DEF FailCall, End, Idle
<1>5. CASE Tick
  <2>1. sinceOpened' \in 0 .. ResetTimeout
    BY <1>5 DEF Tick, UpTo
  <2>2. ASSUME NEW c \in Calls
        PROVE  call'[c] \in [kind : {"idle", "plain", "trial"}, age : 0 .. SendTimeout]
    BY <1>5 DEF Tick, InFlight
  <2>3. call' = [c \in Calls |-> call'[c]]
    BY <1>5 DEF Tick
  <2>. QED BY <1>5, <2>1, <2>2, <2>3 DEF Tick
<1>6. CASE UNCHANGED vars
  BY <1>6 DEF vars
<1>. QED BY <1>1, <1>2, <1>3, <1>4, <1>5, <1>6 DEF Next, Fail

LEMMA BreakerStep ==
  ASSUME LongReset, BreakerInv, [Next]_vars
  PROVE  BreakerInv'
<1> USE SettingsAssumption DEF Setting, InFlight, Trials
<1>1. ASSUME NEW c \in Calls, AdmitCall(c) PROVE BreakerInv'
  BY <1>1 DEF BreakerInv, CallTypes, AdmitCall, Begin
<1>2. ASSUME NEW c \in Calls, AdmitTrial(c) PROVE BreakerInv'
  <2>1. state = "open" /\ sinceOpened >= ResetTimeout
    BY <1>2 DEF AdmitTrial, TrialDue, BreakerInv
  <2>2. InFlight = {}
    <3> SUFFICES ASSUME NEW d \in InFlight PROVE FALSE
      OBVIOUS
    <3>1. sinceOpened <= call[d].age /\ call[d].age \in 0 .. SendTimeout
      BY <2>1 DEF BreakerInv, CallTypes
    <3>. QED BY <2>1, <3>1 DEF LongReset, BreakerInv, CallTypes
  <2>3. /\ call'[c] = [kind |-> "trial", age |-> 0]
        /\ \A d \in Calls \ {c} : call'[d] = call[d]
    BY <1>2 DEF AdmitTrial, Begin, BreakerInv, CallTypes
  <2>4. InFlight' = {c} /\ Trials' = {c}
    BY <2>2, <2>3
  <2>5. CallTypes'
    BY <1>2 DEF AdmitTrial, Begin, BreakerInv, CallTypes
  <2>. QED BY <1>2, <2>4, <2>5 DEF AdmitTrial, BreakerInv
<1>3. ASSUME NEW c \in Calls, Succeed(c) PROVE BreakerInv'
  BY <1>3 DEF BreakerInv, CallTypes, Succeed, End, Idle
<1>4. ASSUME NEW c \in Calls, FailTrial(c) PROVE BreakerInv'
  <2>1. state = "half-open"
    BY <1>4 DEF FailTrial, BreakerInv, CallTypes
  <2>2. InFlight = {c}
    BY <1>4, <2>1 DEF FailTrial, BreakerInv
  <2>3. InFlight' = {}
    BY <1>4, <2>2 DEF FailTrial, End, Idle, BreakerInv, CallTypes
  <2>. QED BY <1>4, <2>3 DEF BreakerInv, CallTypes, FailTrial, TripOpen, End, Idle
<1>5. ASSUME NEW c \in Calls, FailCall(c) PROVE BreakerInv'
  <2>1. state # "half-open"
    BY <1>5 DEF FailCall, BreakerInv
  <2>2. /\ Trials = {}
        /\ call' = [call EXCEPT ![c] = Idle]
    BY <1>5, <2>1 DEF FailCall, End, BreakerInv, CallTypes
  <2>3. \A d \in InFlight' : d \in InFlight /\ call'[d] = call[d]
    BY <2>2 DEF BreakerInv, CallTypes, Idle
  <2>4. failures' \in 0 .. Threshold
    BY <1>5 DEF FailCall, UpTo, BreakerInv, CallTypes
  <2>5. state' \in {"closed", "open"}
        /\ (state' = "open" => sinceOpened' = 0 \/ (state = "open" /\ sinceOpened' = sinceOpened))
    BY <1>5, <2>1 DEF FailCall, TripOpen, BreakerInv, CallTypes
  <2>6. CallTypes'
    BY <1>5, <2>2, <2>4, <2>5 DEF FailCall, TripOpen, BreakerInv, CallTypes, Idle
  <2>. QED BY <2>2, <2>3, <2>5, <2>6 DEF BreakerInv, CallTypes
<1>6. CASE Tick
  <2>1. \A c \in Calls :
          /\ call'[c].kind = call[c].kind
          /\ c \in InFlight => call'[c].age = call[c].age + 1
    BY <1>6 DEF Tick, BreakerInv, CallTypes
  <2>2. InFlight' = InFlight /\ Trials' = Trials
    BY <2>1
  <2>3. CallTypes'
    BY <1>6 DEF Tick, UpTo, BreakerInv, CallTypes
  <2>4. sinceOpened' <= sinceOpened + 1
    BY <1>6 DEF Tick, UpTo, BreakerInv, CallTypes
  <2>. QED BY <1>6, <2>1, <2>2, <2>3, <2>4 DEF Tick, BreakerInv, CallTypes
<1>7. CASE UNCHANGED vars
  BY <1>7 DEF vars, BreakerInv, CallTypes
<1>. QED BY <1>1, <1>2, <1>3, <1>4, <1>5, <1>6, <1>7 DEF Next, Fail

-----------------------------------------------------------------------------
LEMMA FlagAlways == Spec => []FlagType
<1>1. Init => FlagType
  BY DEF Init, FlagType
<1>2. FlagType /\ [Next]_vars => FlagType'
  BY FlagStep
<1>. QED BY <1>1, <1>2, PTL DEF Spec

\* Every variable of the breaker keeps its type, also with a reset timeout
\* shorter than a call: the counters stop at the threshold and the timeouts.
THEOREM BreakerTypes == Spec => []TypeOK
<1>1. Init => CallTypes
  BY BreakerInit DEF BreakerInv
<1>2. CallTypes /\ [Next]_vars => CallTypes'
  BY TypeStep
<1>3. CallTypes /\ FlagType => TypeOK
  BY DEF CallTypes, FlagType, TypeOK
<1>. QED BY <1>1, <1>2, <1>3, FlagAlways, PTL DEF Spec

\* The inductive invariant of what follows.
THEOREM BreakerInvariant ==
  ASSUME LongReset
  PROVE  Spec => []BreakerInv
<1>1. BreakerInv /\ [Next]_vars => BreakerInv'
  BY BreakerStep
<1>. QED BY <1>1, BreakerInit, PTL DEF Spec

\* Whatever the calls in flight when the circuit opened, and whenever they
\* end, never are two trials in flight.
THEOREM BreakerSingleFlight ==
  ASSUME LongReset
  PROVE  Spec => []SingleFlight
<1>1. BreakerInv => SingleFlight
  <2> SUFFICES ASSUME BreakerInv, NEW c \in Trials, NEW d \in Trials PROVE c = d
    BY DEF SingleFlight
  <2>1. state = "half-open"
    BY DEF BreakerInv, CallTypes, Trials, InFlight
  <2>. QED BY <2>1 DEF BreakerInv
<1>. QED BY <1>1, BreakerInvariant, PTL

\* The trial alone decides what becomes of the circuit: no call that began
\* before it is left to answer.
THEOREM BreakerTrialDecidesAlone ==
  ASSUME LongReset
  PROVE  Spec => []TrialDecidesAlone
<1>1. BreakerInv => TrialDecidesAlone
  <2> SUFFICES ASSUME BreakerInv PROVE TrialDecidesAlone
    OBVIOUS
  <2>1. ASSUME Trials # {} PROVE state = "half-open"
    BY <2>1 DEF BreakerInv, CallTypes, Trials, InFlight
  <2>2. state = "half-open" => InFlight = Trials
    BY DEF BreakerInv
  <2>. QED BY <2>1, <2>2 DEF TrialDecidesAlone
<1>. QED BY <1>1, BreakerInvariant, PTL

\* A half-open circuit has its trial in flight, also with a reset timeout
\* shorter than a call: whichever trial ends settles the circuit.
THEOREM BreakerNeverWedged == Spec => []NeverWedged
<1>1. Init => CallTypes /\ NeverWedged
  BY BreakerInit DEF BreakerInv, Init, NeverWedged
<1>2. ASSUME CallTypes, NeverWedged, [Next]_vars PROVE NeverWedged'
  <2> USE <1>2 DEF CallTypes, NeverWedged, Trials
  <2>1. ASSUME NEW c \in Calls, AdmitCall(c) PROVE NeverWedged'
    BY <2>1 DEF AdmitCall
  <2>2. ASSUME NEW c \in Calls, AdmitTrial(c) PROVE NeverWedged'
    BY <2>2 DEF AdmitTrial, Begin
  <2>3. ASSUME NEW c \in Calls, Succeed(c) \/ FailTrial(c) PROVE NeverWedged'
    BY <2>3 DEF Succeed, FailTrial, TripOpen
  <2>4. ASSUME NEW c \in Calls, FailCall(c) PROVE NeverWedged'
    <3>1. \A t \in Trials : call'[t] = call[t]
      BY <2>4 DEF FailCall, End
    <3>. QED BY <2>4, <3>1 DEF FailCall, TripOpen
  <2>5. CASE Tick
    <3>1. \A t \in Trials : call'[t].kind = "trial"
      BY <2>5 DEF Tick, InFlight
    <3>. QED BY <2>5, <3>1 DEF Tick
  <2>6. CASE UNCHANGED vars
    BY <2>6 DEF vars
  <2>. QED BY <2>1, <2>2, <2>3, <2>4, <2>5, <2>6 DEF Next, Fail
<1>3. CallTypes /\ [Next]_vars => CallTypes'
  BY TypeStep
<1>. QED BY <1>1, <1>2, <1>3, PTL DEF Spec
=============================================================================
