---------------------------- MODULE CircuitBreaker ----------------------------
(***************************************************************************)
(* The two circuit breakers of the API around concurrent calls to Redis:   *)
(* EnhancedRedisCircuitBreaker (redis-enhanced.ts) with its three states,  *)
(* and RedisCircuitBreaker (redis-circuit-breaker.ts), which only counts.  *)
(* kind says which of the two a behaviour is about.                        *)
(*                                                                         *)
(* Time is the age of the last failure that was dated, up to Reset + 1.    *)
(***************************************************************************)
EXTENDS Integers

CONSTANTS
    Calls,        \* callers, each with one execute at a time
    Threshold,    \* failureThreshold
    Probes,       \* successThreshold
    MaxRetries,   \* retries of one execute
    Reset         \* resetTimeout

ASSUME BreakerAssumption ==
    /\ Threshold \in Nat \ {0} /\ Probes \in Nat \ {0}
    /\ MaxRetries \in Nat /\ Reset \in Nat \ {0}

VARIABLES
    kind,         \* which breaker
    mode,         \* state; the counting breaker has none and stays CLOSED
    failures,     \* failureCount, failures; above Threshold they are alike
    successes,    \* successCount
    age,          \* since lastFailureTime, openedAt
    call,         \* the retries of each open execute
    answer,       \* what each caller's last execute gave it
    up,           \* does Redis answer?
    streak,       \* history: calls failed since one succeeded, up to Threshold
    probed        \* history: calls succeeded since the breaker was half open

breaker == <<mode, failures, successes, age>>
history == <<streak, probed>>
vars    == <<kind, breaker, call, answer, up, history>>

NoCall == -1
Old    == Reset + 1

TypeOK ==
    /\ kind \in {"enhanced", "counting"}
    /\ mode \in {"CLOSED", "OPEN", "HALF_OPEN"}
    /\ kind = "counting" => mode = "CLOSED"
    /\ failures \in 0..Threshold
    /\ successes \in 0..Probes-1
    /\ age \in 0..Old
    /\ call \in [Calls -> NoCall..MaxRetries]
    /\ answer \in [Calls -> {"none", "result", "fallback", "error"}]
    /\ up \in BOOLEAN
    /\ streak \in 0..Threshold
    /\ probed \in 0..Probes

Init ==
    /\ kind \in {"enhanced", "counting"}
    /\ mode = "CLOSED"
    /\ failures = 0
    /\ successes = 0
    /\ age = Old
    /\ call = [c \in Calls |-> NoCall]
    /\ answer = [c \in Calls |-> "none"]
    /\ up = TRUE
    /\ streak = 0
    /\ probed = 0

Enhanced == kind = "enhanced"
Shut     == IF Enhanced THEN mode = "OPEN" ELSE failures = Threshold /\ age < Reset

-----------------------------------------------------------------------------
(* execute, up to its first attempt or its refusal.                        *)

Begins(c) == call' = [call EXCEPT ![c] = 0]

Enter(c) ==
    /\ call[c] = NoCall
    /\ IF Enhanced THEN mode # "OPEN" ELSE ~Shut
    /\ Begins(c)
    /\ UNCHANGED <<kind, breaker, answer, up, history>>

SuccessesKept == successes      \* slip: an earlier half-open period counts
ProbesAnew    == 0

HalfOpen(c) ==
    /\ Enhanced /\ mode = "OPEN" /\ age > Reset
    /\ call[c] = NoCall
    /\ mode' = "HALF_OPEN"
    /\ successes' = ProbesAnew
    /\ probed' = 0
    /\ Begins(c)
    /\ UNCHANGED <<kind, failures, age, answer, up, streak>>

Dated        == 0               \* slip: a call turned away counts as a failure
AgeOfRefused == age

(* The counting breaker always has a fallback, the enhanced one may.       *)
TurnAway(c) ==
    /\ call[c] = NoCall
    /\ Shut /\ (Enhanced => age =< Reset)
    /\ \E a \in {"fallback", "error"} :
          /\ a = "error" => Enhanced
          /\ answer' = [answer EXCEPT ![c] = a]
    /\ age' = AgeOfRefused
    /\ UNCHANGED <<kind, mode, failures, successes, call, up, history>>

-----------------------------------------------------------------------------
(* An attempt ends.  Attempts under way when the breaker shuts, and their  *)
(* retries, go on and count.                                               *)

Running(c) == call[c] # NoCall
Ends(c, a) == call' = [call EXCEPT ![c] = NoCall] /\ answer' = [answer EXCEPT ![c] = a]

EnoughProbes == successes + 1 = Probes

OnSuccess ==
    IF mode = "HALF_OPEN"
    THEN /\ mode' = IF EnoughProbes THEN "CLOSED" ELSE "HALF_OPEN"
         /\ successes' = IF EnoughProbes THEN 0 ELSE successes + 1
    ELSE UNCHANGED <<mode, successes>>

CountKept    == failures        \* slip: a success does not clear the count
CountCleared == 0

Succeed(c) ==
    /\ Running(c)
    /\ up
    /\ failures' = CountCleared
    /\ OnSuccess
    /\ streak' = 0
    /\ probed' = IF probed = Probes THEN Probes ELSE probed + 1
    /\ Ends(c, "result")
    /\ UNCHANGED <<kind, age, up>>

(* withExponentialBackoff's and execute's pause before the next attempt.   *)
Retry(c) ==
    /\ Running(c)
    /\ ~up
    /\ call[c] < MaxRetries
    /\ call' = [call EXCEPT ![c] = @ + 1]
    /\ UNCHANGED <<kind, breaker, answer, up, history>>

OneMore(n) == IF n = Threshold THEN Threshold ELSE n + 1

(* The enhanced breaker gives up at once on an error it does not retry.    *)
Fail(c) ==
    /\ Running(c)
    /\ ~up
    /\ Enhanced \/ call[c] = MaxRetries
    /\ failures' = OneMore(failures)
    /\ streak' = OneMore(streak)
    /\ mode' = IF Enhanced /\ failures' = Threshold THEN "OPEN" ELSE mode
    /\ age' = IF Enhanced \/ failures' = Threshold THEN 0 ELSE age
    /\ \E a \in {"fallback", "error"} :
          /\ a = "fallback" => ~Enhanced \/ mode' = "OPEN"
          /\ a = "error" => Enhanced
          /\ Ends(c, a)
    /\ UNCHANGED <<kind, successes, up, probed>>

(* Redis comes and goes.                                                   *)
Flip ==
    /\ up' = ~up
    /\ UNCHANGED <<kind, breaker, call, answer, history>>

Tick ==
    /\ age < Old
    /\ age' = age + 1
    /\ UNCHANGED <<kind, mode, failures, successes, call, answer, up, history>>

Next ==
    \/ \E c \in Calls : \/ Enter(c) \/ HalfOpen(c) \/ TurnAway(c)
                        \/ Succeed(c) \/ Retry(c) \/ Fail(c)
    \/ Flip
    \/ Tick

Spec == Init /\ [][Next]_vars

(* Calls keep coming, attempts end, and time passes.                       *)
FairSpec ==
    /\ Spec
    /\ WF_vars(Tick)
    /\ \A c \in Calls : WF_vars(Enter(c) \/ HalfOpen(c)) /\ WF_vars(Succeed(c))

-----------------------------------------------------------------------------
(* Properties.                                                             *)

(* Both breakers keep the promise of FailureGate, however their calls      *)
(* overlap: they shut for Threshold failures in a row and nothing else     *)
(* (redis-enhanced 84-90, redis-circuit-breaker 26-28).                    *)
Gate == INSTANCE FailureGate WITH shut <- Shut
ImplementsGate == Gate!GateSpec

(* A half-open breaker closes on Probes successes of this very period; an  *)
(* earlier period that ended in failure counts for nothing, although its   *)
(* successCount is still there (redis-enhanced 29, 74-79).                 *)
ClosedByProbes == [][mode = "HALF_OPEN" /\ mode' = "CLOSED" => probed' = Probes]_vars

(* Once Redis stays up, calls get through again for good, and the enhanced *)
(* breaker is closed: calls turned away do not prolong the closure, and    *)
(* late failures end (redis-enhanced 27-30, redis-circuit-breaker 15).     *)
Recovers == (<>[]up) => <>[](~Shut /\ mode = "CLOSED")
=============================================================================
