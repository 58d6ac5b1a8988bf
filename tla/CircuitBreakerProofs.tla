------------------------- MODULE CircuitBreakerProofs -------------------------
(***************************************************************************)
(* Proofs about both circuit breakers for any number of callers, any       *)
(* thresholds, retries and reset time: they implement FailureGate, and a   *)
(* half-open breaker closes only on successes of its own period.           *)
(***************************************************************************)
EXTENDS CircuitBreaker, TLAPS

(* The breaker's counters agree with the history; in a half-open period    *)
(* successCount is what has succeeded in it.                               *)
Counted ==
    /\ failures = streak
    /\ mode = "HALF_OPEN" => successes = probed

IInv == TypeOK /\ Counted

LEMMA InitHolds == Init => IInv
  BY BreakerAssumption DEF Init, IInv, TypeOK, Counted, NoCall, Old

LEMMA NextKeeps == IInv /\ [Next]_vars => IInv'
<1> SUFFICES ASSUME IInv, [Next]_vars
             PROVE  IInv'
  OBVIOUS
<1> USE BreakerAssumption DEF IInv, TypeOK, Counted, NoCall, Old, breaker, history
<1>1. ASSUME NEW c \in Calls, Enter(c)
      PROVE  IInv'
  BY <1>1 DEF Enter, Begins
<1>2. ASSUME NEW c \in Calls, HalfOpen(c)
      PROVE  IInv'
  BY <1>2 DEF HalfOpen, Begins, ProbesAnew, Enhanced
<1>3. ASSUME NEW c \in Calls, TurnAway(c)
      PROVE  IInv'
  BY <1>3 DEF TurnAway, AgeOfRefused
<1>4. ASSUME NEW c \in Calls, Succeed(c)
      PROVE  IInv'
  BY <1>4 DEF Succeed, Ends, CountCleared, OnSuccess, EnoughProbes, Running
<1>5. ASSUME NEW c \in Calls, Retry(c)
      PROVE  IInv'
  BY <1>5 DEF Retry, Running
<1>6. ASSUME NEW c \in Calls, Fail(c)
      PROVE  IInv'
  BY <1>6 DEF Fail, Ends, OneMore, Enhanced, Running
<1>7. CASE Flip
  BY <1>7 DEF Flip
<1>8. CASE Tick
  BY <1>8 DEF Tick
<1>9. CASE UNCHANGED vars
  BY <1>9 DEF vars
<1> QED
  BY <1>1, <1>2, <1>3, <1>4, <1>5, <1>6, <1>7, <1>8, <1>9 DEF Next

LEMMA BreakerInvariance == Spec => []IInv
  BY InitHolds, NextKeeps, PTL DEF Spec

(* Every variable stays within its type, for any parameters.               *)
THEOREM BreakerTypes == Spec => []TypeOK
<1>1. IInv => TypeOK
  BY DEF IInv
<1> QED
  BY <1>1, BreakerInvariance, PTL

(* A half-open breaker closes on Probes successes of this very period.     *)
THEOREM ClosesByProbes == Spec => ClosedByProbes
<1>1. IInv /\ [Next]_vars => [mode = "HALF_OPEN" /\ mode' = "CLOSED" => probed' = Probes]_vars
  <2> SUFFICES ASSUME IInv, Next, mode = "HALF_OPEN", mode' = "CLOSED"
               PROVE  probed' = Probes
    OBVIOUS
  <2>1. PICK c \in Calls : Succeed(c)
    BY DEF Next, Enter, HalfOpen, TurnAway, Retry, Fail, Flip, Tick, breaker
  <2> QED
    BY <2>1, BreakerAssumption
    DEF Succeed, OnSuccess, EnoughProbes, IInv, TypeOK, Counted
<1> QED
  BY <1>1, BreakerInvariance, PTL DEF Spec, ClosedByProbes

(* Both breakers implement FailureGate: they shut for Threshold failures   *)
(* in a row, however the calls overlap, and open only by success or time.  *)
THEOREM BreakerIsGate == Spec => ImplementsGate
<1>1. Init => Gate!GateInit
  BY BreakerAssumption DEF Init, Gate!GateInit, Shut, Enhanced
<1>2. IInv /\ [Next]_vars => [Gate!CallFailed \/ Gate!CallSucceeded \/ Gate!TimePassed]_Gate!GateVars
  <2> SUFFICES ASSUME IInv, [Next]_vars
               PROVE  \/ Gate!CallFailed \/ Gate!CallSucceeded \/ Gate!TimePassed
                      \/ UNCHANGED <<streak, Shut>>
    BY DEF Gate!GateVars
  <2> USE BreakerAssumption DEF IInv, TypeOK, Counted, Shut, Enhanced, breaker, history
  <2>1. ASSUME NEW c \in Calls, Enter(c)
        PROVE  UNCHANGED <<streak, Shut>>
    BY <2>1 DEF Enter
  <2>2. ASSUME NEW c \in Calls, HalfOpen(c)
        PROVE  Gate!TimePassed
    BY <2>2 DEF HalfOpen, Gate!TimePassed
  <2>3. ASSUME NEW c \in Calls, TurnAway(c)
        PROVE  UNCHANGED <<streak, Shut>>
    BY <2>3 DEF TurnAway, AgeOfRefused
  <2>4. ASSUME NEW c \in Calls, Succeed(c)
        PROVE  Gate!CallSucceeded
    BY <2>4 DEF Succeed, OnSuccess, CountCleared, EnoughProbes, Gate!CallSucceeded
  <2>5. ASSUME NEW c \in Calls, Retry(c)
        PROVE  UNCHANGED <<streak, Shut>>
    BY <2>5 DEF Retry
  <2>6. ASSUME NEW c \in Calls, Fail(c)
        PROVE  Gate!CallFailed
    BY <2>6 DEF Fail, OneMore, Gate!CallFailed
  <2>7. CASE Flip
    BY <2>7 DEF Flip
  <2>8. CASE Tick
    <3>1. age' = age + 1 /\ UNCHANGED <<kind, mode, failures, streak>>
      BY <2>8 DEF Tick
    <3> QED
      BY <3>1 DEF Gate!TimePassed
  <2>9. CASE UNCHANGED vars
    BY <2>9 DEF vars
  <2> QED
    BY <2>1, <2>2, <2>3, <2>4, <2>5, <2>6, <2>7, <2>8, <2>9 DEF Next
<1> QED
  BY <1>1, <1>2, BreakerInvariance, PTL DEF Spec, ImplementsGate, Gate!GateSpec
=============================================================================
