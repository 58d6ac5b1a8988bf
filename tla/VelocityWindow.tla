---------------------------- MODULE VelocityWindow ----------------------------
(***************************************************************************)
(* FraudService for one event: each attempt to reserve increments the      *)
(* counter of its address, of its user and, unless it is denied, of the    *)
(* event.  A counter starts with an attempt and expires a window later.    *)
(*                                                                         *)
(* An attempt's increments are separate Redis scripts, so those of other   *)
(* attempts and the clock may come in between.                             *)
(***************************************************************************)
EXTENDS Integers, Sequences, FiniteSets

CONSTANTS
    Ips, Users,
    Event,           \* the event, as the subject of a counter
    Limit,           \* VELOCITY_LIMIT
    Window,          \* VELOCITY_WINDOW and PATTERN_WINDOW, in ticks
    OldCount,        \* the count of a counter left without an expiry
    MaxTime, MaxAttempts, MaxFailures      \* bounds

Subjects == Ips \cup Users \cup {Event}
Never    == -1

ASSUME VelocityAssumption ==
    /\ Limit \in Nat \ {0} /\ Window \in Nat \ {0} /\ OldCount \in Nat \ {0}
    /\ MaxTime \in Nat /\ MaxAttempts \in Nat /\ MaxFailures \in Nat
    /\ Ips \cap Users = {} /\ Event \notin Ips \cup Users

VARIABLES
    now,
    counter,         \* Redis: each subject's count and when it expires
    old,             \* the subjects whose first counter had no expiry
    attempt,         \* the attempts, in the order they arrived
    failures

vars == <<now, counter, old, attempt, failures>>

NoCounter == [count |-> 0, expires |-> Never]

(* at[i] is when its i-th increment took effect, Never if it did not.      *)
Attempts ==
    [ip : Ips, user : Users, next : 1..4, over : BOOLEAN,
     at : [1..3 -> 0..MaxTime \cup {Never}],
     verdict : {"open", "passed", "denied", "failed", "repeat"}]

TypeOK ==
    /\ now \in 0..MaxTime
    /\ counter \in [Subjects -> [count : Nat, expires : Nat \cup {Never}]]
    /\ \A s \in Subjects : counter[s].expires = Never =>
          counter[s].count = (IF s \in old THEN OldCount ELSE 0)
    /\ old \subseteq Subjects
    /\ attempt \in Seq(Attempts)
    /\ failures \in 0..MaxFailures

Init ==
    /\ now = 0
    /\ old \in {{}} \cup {{s} : s \in Subjects}
    /\ counter = [s \in Subjects |->
                    IF s \in old THEN [count |-> OldCount, expires |-> Never] ELSE NoCounter]
    /\ attempt = <<>>
    /\ failures = 0

Tick ==
    /\ now < MaxTime
    /\ now' = now + 1
    /\ UNCHANGED <<counter, old, attempt, failures>>

-----------------------------------------------------------------------------
(* The script: INCR, and EXPIRE if the counter is new or has no expiry.    *)

Live(s)  == counter[s].count > 0 /\ (counter[s].expires = Never \/ now < counter[s].expires)
Count(s) == IF Live(s) THEN counter[s].count + 1 ELSE 1

Always(s)  == TRUE              \* slip: every attempt renews the expiry
Expires(s) == Count(s) = 1 \/ counter[s].expires = Never

Increment(s) ==
    counter' = [counter EXCEPT ![s] =
                  [count   |-> Count(s),
                   expires |-> IF Expires(s) THEN now + Window ELSE counter[s].expires]]

-----------------------------------------------------------------------------
(* detectFraud.                                                            *)

Subject(r)   == <<attempt[r].ip, attempt[r].user, Event>>[attempt[r].next]
IsFailed(r)  == attempt[r].verdict = "failed"

(* An attempt that has not sent a script yet matters to nobody, so one is  *)
(* enough at a time.                                                       *)
Arrive(ip, user) ==
    /\ Len(attempt) < MaxAttempts
    /\ \A r \in 1..Len(attempt) : attempt[r].next # 1
    /\ attempt' = Append(attempt, [ip |-> ip, user |-> user, next |-> 1, over |-> FALSE,
                                   at |-> <<Never, Never, Never>>, verdict |-> "open"])
    /\ UNCHANGED <<now, counter, old, failures>>

NotAwaited(r) ==                \* slip: detectFraud does not await checkVelocity
    /\ attempt[r].next = 1
    /\ Increment(Subject(r))
    /\ attempt' = [attempt EXCEPT ![r].at[1] = now, ![r].next = 4, ![r].verdict = "passed"]
    /\ UNCHANGED <<now, old, failures>>

OverLimit(r, s) == attempt[r].over \/ Count(s) > Limit

(* checkVelocity, one counter: both are counted whatever the first says.   *)
(* The user's answer decides, unless a counter's answer was lost.          *)
CheckVelocity(r) ==
    /\ attempt[r].next \in {1, 2}
    /\ LET s    == Subject(r)
           over == OverLimit(r, s)
           last == attempt[r].next = 2 /\ (over \/ IsFailed(r))
       IN  /\ Increment(s)
           /\ attempt' = [attempt EXCEPT
                 ![r].at[attempt[r].next] = now,
                 ![r].over = over,
                 ![r].next = IF last THEN 4 ELSE @ + 1,
                 ![r].verdict = IF last /\ ~IsFailed(r) THEN "denied" ELSE @]
    /\ UNCHANGED <<now, old, failures>>

RecordEventPressure(r) ==
    /\ attempt[r].next = 3
    /\ Increment(Event)
    /\ attempt' = [attempt EXCEPT ![r].at[3] = now, ![r].next = 4, ![r].verdict = "passed"]
    /\ UNCHANGED <<now, old, failures>>

(* The call rejects, with or without effect.  The user's increment is      *)
(* already on its way when the address's fails.                            *)
EvalFails(r) ==
    /\ attempt[r].next \in 1..3
    /\ failures < MaxFailures
    /\ failures' = failures + 1
    /\ \E effect \in BOOLEAN :
          /\ IF effect THEN Increment(Subject(r)) ELSE UNCHANGED counter
          /\ attempt' = [attempt EXCEPT
                ![r].at[attempt[r].next] = IF effect THEN now ELSE Never,
                ![r].next = IF @ = 1 THEN 2 ELSE 4,
                ![r].verdict = "failed"]
    /\ UNCHANGED <<now, old>>

(* ioredis sends an unanswered script again: its first execution counts    *)
(* like an attempt that got no further.                                    *)
EvalResent(r) ==
    /\ attempt[r].next \in 1..3
    /\ failures < MaxFailures /\ Len(attempt) < MaxAttempts
    /\ failures' = failures + 1
    /\ Increment(Subject(r))
    /\ LET at == [i \in 1..3 |-> IF i = attempt[r].next THEN now ELSE Never]
       IN  attempt' = Append(attempt, [ip |-> attempt[r].ip, user |-> attempt[r].user, next |-> 4,
                                       over |-> FALSE, at |-> at, verdict |-> "repeat"])
    /\ UNCHANGED <<now, old>>

DetectFraud(r) == CheckVelocity(r) \/ RecordEventPressure(r) \/ EvalFails(r)

Next ==
    \/ Tick
    \/ \E ip \in Ips, user \in Users : Arrive(ip, user)
    \/ \E r \in 1..Len(attempt) : DetectFraud(r) \/ EvalResent(r)

Spec == Init /\ [][Next]_vars

-----------------------------------------------------------------------------
(* Properties.                                                             *)

Index(r, s) == IF attempt[r].ip = s THEN 1 ELSE 2
Counts(r, s) == s \in {attempt[r].ip, attempt[r].user}
TimeOf(r, s) == attempt[r].at[Index(r, s)]

(* The attempts on s that were counted in the window that ends at t.       *)
Within(s, t) ==
    {r \in 1..Len(attempt) : Counts(r, s) /\ TimeOf(r, s) # Never
                             /\ t - Window < TimeOf(r, s) /\ TimeOf(r, s) =< t}

(* What an old counter still stands for at t: it lives until a window      *)
(* after the first attempt that meets it.                                  *)
Legacy(s, t) ==
    IF s \in old /\ \A r \in 1..Len(attempt) :
          Counts(r, s) /\ TimeOf(r, s) # Never => t - Window < TimeOf(r, s)
    THEN OldCount ELSE 0

(* Only the actors' own attempts deny: when an attempt is denied, its      *)
(* address or its user made more than the limit within one window, a       *)
(* script executed twice making two, whatever others do, and an old        *)
(* counter weighs for one window only (fraud.service 37-44; line 23:       *)
(* pressure is never a deny rule).                                         *)
NoFalseAlarm ==
    \A r \in 1..Len(attempt) : attempt[r].verdict = "denied" =>
        \E s \in {attempt[r].ip, attempt[r].user} :
            LET t == TimeOf(r, s) IN Cardinality(Within(s, t)) + Legacy(s, t) > Limit

Passed(s, t) == {r \in Within(s, t) : attempt[r].verdict = "passed"}

(* However attempts interleave and calls fail, no address and no user gets *)
(* twice the limit through within a window (fraud.service 38-44): what     *)
(* passes falls under two counters, and the first one's opening attempt is *)
(* a window old when the second begins.                                    *)
BoundedPass ==
    \A s \in Ips \cup Users : \A t \in 0..now : Cardinality(Passed(s, t)) < 2 * Limit
=============================================================================
