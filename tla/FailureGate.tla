----------------------------- MODULE FailureGate -----------------------------
(***************************************************************************)
(* What a circuit breaker promises.  It shuts on the failure that makes    *)
(* Threshold of them in a row, on every one after that, and for no other   *)
(* reason; it opens again by a success or because time has passed.         *)
(***************************************************************************)
EXTENDS Integers

CONSTANT Threshold

VARIABLES
    streak,     \* failed calls since the last success, counted up to Threshold
    shut        \* are new calls turned away?

GateVars == <<streak, shut>>

GateInit == streak = 0 /\ shut = FALSE

CallFailed ==
    /\ streak' = IF streak = Threshold THEN Threshold ELSE streak + 1
    /\ shut' = (shut \/ streak' = Threshold)

CallSucceeded ==
    /\ streak' = 0
    /\ shut' \in {shut, FALSE}

TimePassed ==
    /\ shut
    /\ shut' = FALSE
    /\ UNCHANGED streak

GateSpec == GateInit /\ [][CallFailed \/ CallSucceeded \/ TimePassed]_GateVars
=============================================================================
