---------------------------- MODULE VelocityProofs ----------------------------
(***************************************************************************)
(* Proofs about the velocity counters, for every limit, window and number  *)
(* of addresses, users, attempts and lost answers.                         *)
(***************************************************************************)
EXTENDS VelocityWindow, FiniteSetTheorems, TLAPS

Times == 0..MaxTime \cup {Never}
Actors == Ips \cup Users

LEMMA Bounds ==
    /\ Limit \in Nat /\ Limit > 0 /\ Window \in Nat /\ Window > 0 /\ OldCount \in Nat /\ OldCount > 0
    /\ MaxTime \in Nat /\ Never \in Int /\ Never < 0 /\ Never \notin Nat
BY VelocityAssumption DEF Never

LEMMA IncrementTyped ==
    ASSUME TypeOK, NEW s \in Subjects, Increment(s)
    PROVE  /\ counter' \in [Subjects -> [count : Nat, expires : Nat \cup {Never}]]
           /\ counter'[s].count = Count(s)
           /\ counter'[s].expires = IF Expires(s) THEN now + Window ELSE counter[s].expires
           /\ counter'[s].expires # Never
           /\ \A x \in Subjects : x # s => counter'[x] = counter[x]
           /\ Count(s) \in Nat \ {0}
<1>1. counter[s] \in [count : Nat, expires : Nat \cup {Never}] /\ now \in Nat
  BY Bounds DEF TypeOK
<1>2. Count(s) \in Nat \ {0}
  BY <1>1 DEF Count
<1> DEFINE g == [count |-> Count(s), expires |-> IF Expires(s) THEN now + Window ELSE counter[s].expires]
<1>3. g.expires \in Nat
  <2>1. now + Window \in Nat  BY <1>1, Bounds
  <2> QED  BY <1>1, <2>1 DEF Expires
<1>4. g \in [count : Nat, expires : Nat \cup {Never}]
  BY <1>2, <1>3
<1>5. counter' = [counter EXCEPT ![s] = g]
  BY DEF Increment
<1>6. counter'[s] = g /\ \A x \in Subjects : x # s => counter'[x] = counter[x]
  BY <1>5 DEF TypeOK
<1>7. counter' \in [Subjects -> [count : Nat, expires : Nat \cup {Never}]]
  <2> HIDE DEF g
  <2> QED  BY <1>4, <1>5 DEF TypeOK
<1> QED  BY <1>2, <1>3, <1>6, <1>7, Bounds

LEMMA AttemptTyped ==
    ASSUME TypeOK, NEW r \in 1..Len(attempt)
    PROVE  /\ attempt[r] \in Attempts
           /\ attempt[r].ip \in Ips /\ attempt[r].user \in Users
           /\ attempt[r].next \in 1..4 /\ attempt[r].over \in BOOLEAN
           /\ attempt[r].at \in [1..3 -> Times]
           /\ attempt[r].verdict \in {"open", "passed", "denied", "failed", "repeat"}
<1>1. attempt[r] \in Attempts  BY DEF TypeOK
<1> QED  BY <1>1 DEF Attempts, Times

LEMMA SubjectIs ==
    ASSUME TypeOK, NEW r \in 1..Len(attempt), attempt[r].next \in 1..3
    PROVE  /\ Subject(r) \in Subjects
           /\ attempt[r].next = 1 => Subject(r) = attempt[r].ip
           /\ attempt[r].next = 2 => Subject(r) = attempt[r].user
           /\ attempt[r].next = 3 => Subject(r) = Event
<1>1. attempt[r].ip \in Ips /\ attempt[r].user \in Users  BY AttemptTyped
<1>2. CASE attempt[r].next = 1  BY <1>1, <1>2 DEF Subject, Subjects
<1>3. CASE attempt[r].next = 2  BY <1>1, <1>3 DEF Subject, Subjects
<1>4. CASE attempt[r].next = 3  BY <1>4 DEF Subject, Subjects
<1> QED  BY <1>2, <1>3, <1>4

-----------------------------------------------------------------------------
(* What a script does to its attempt: one increment is dated, the rest     *)
(* stays, and a new record takes the attempt's place.                      *)
Counting(r, g) ==
    /\ attempt' = [attempt EXCEPT ![r] = g]
    /\ g \in Attempts
    /\ g.ip = attempt[r].ip /\ g.user = attempt[r].user
    /\ \A i \in 1..3 : i # attempt[r].next => g.at[i] = attempt[r].at[i]

LEMMA CheckRecord ==
    ASSUME TypeOK, NEW r \in 1..Len(attempt), CheckVelocity(r)
    PROVE  \E g \in Attempts :
              /\ Counting(r, g)
              /\ g.at[attempt[r].next] = now
              /\ g.over = OverLimit(r, Subject(r))
              /\ g.next = IF attempt[r].next = 2 /\ (g.over \/ IsFailed(r)) THEN 4 ELSE attempt[r].next + 1
              /\ g.verdict = IF attempt[r].next = 2 /\ g.over /\ ~IsFailed(r) THEN "denied"
                             ELSE attempt[r].verdict
<1> DEFINE n == attempt[r].next
           over == OverLimit(r, Subject(r))
           last == n = 2 /\ (over \/ IsFailed(r))
           g == [attempt[r] EXCEPT !.at[n] = now, !.over = over,
                                   !.next = IF last THEN 4 ELSE @ + 1,
                                   !.verdict = IF last /\ ~IsFailed(r) THEN "denied" ELSE @]
<1>1. n \in {1, 2} /\ now \in Times /\ over \in BOOLEAN
  BY AttemptTyped DEF CheckVelocity, TypeOK, Times, OverLimit
<1>2. attempt' = [attempt EXCEPT ![r] = g]
  BY DEF CheckVelocity
<1>3. attempt[r] \in [ip : Ips, user : Users, next : 1..4, over : BOOLEAN, at : [1..3 -> Times],
                      verdict : {"open", "passed", "denied", "failed", "repeat"}]
  BY AttemptTyped DEF Attempts, Times
<1>4. /\ g.ip = attempt[r].ip /\ g.user = attempt[r].user
      /\ g.at = [attempt[r].at EXCEPT ![n] = now] /\ g.over = over
      /\ g.next = IF last THEN 4 ELSE n + 1
      /\ g.verdict = IF last /\ ~IsFailed(r) THEN "denied" ELSE attempt[r].verdict
  <2> HIDE DEF over, n, last
  <2> QED  BY <1>3 DEF n
<1>5. g \in Attempts
  <2>1. [attempt[r].at EXCEPT ![n] = now] \in [1..3 -> Times]
    BY <1>1, <1>3
  <2>2. (IF last THEN 4 ELSE n + 1) \in 1..4
    BY <1>1
  <2>3. (IF last /\ ~IsFailed(r) THEN "denied" ELSE attempt[r].verdict) \in {"open", "passed", "denied", "failed", "repeat"}
    BY <1>3
  <2> HIDE DEF over, last, n
  <2> QED  BY <1>1, <1>3, <2>1, <2>2, <2>3 DEF Attempts, Times, n
<1>6. g.at[n] = now /\ \A i \in 1..3 : i # n => g.at[i] = attempt[r].at[i]
  <2> HIDE DEF g
  <2> QED  BY <1>1, <1>3, <1>4
<1> HIDE DEF g
<1>7. Counting(r, g)
  BY <1>2, <1>4, <1>5, <1>6 DEF Counting
<1> QED  BY <1>4, <1>5, <1>6, <1>7

LEMMA PressureRecord ==
    ASSUME TypeOK, NEW r \in 1..Len(attempt), RecordEventPressure(r)
    PROVE  \E g \in Attempts :
              /\ Counting(r, g)
              /\ g.at[attempt[r].next] = now
              /\ g.over = attempt[r].over /\ g.next = 4 /\ g.verdict = "passed"
<1> DEFINE g == [attempt[r] EXCEPT !.at[3] = now, !.next = 4, !.verdict = "passed"]
<1>1. attempt[r].next = 3 /\ now \in Times
  BY DEF RecordEventPressure, TypeOK, Times
<1>2. attempt' = [attempt EXCEPT ![r] = g]
  BY DEF RecordEventPressure
<1>3. attempt[r] \in [ip : Ips, user : Users, next : 1..4, over : BOOLEAN, at : [1..3 -> Times],
                      verdict : {"open", "passed", "denied", "failed", "repeat"}]
  BY AttemptTyped DEF Attempts, Times
<1>4. /\ g.ip = attempt[r].ip /\ g.user = attempt[r].user
      /\ g.at = [attempt[r].at EXCEPT ![3] = now] /\ g.over = attempt[r].over
      /\ g.next = 4 /\ g.verdict = "passed"
  BY <1>1, <1>3
<1>6. g \in Attempts
  <2> DEFINE dates == [attempt[r].at EXCEPT ![3] = now]
  <2>1. dates \in [1..3 -> Times]
    BY <1>1, <1>3
  <2>2. g = [attempt[r] EXCEPT !.at = dates, !.next = 4, !.verdict = "passed"]
    BY <1>3
  <2>3. 4 \in 1..4
    OBVIOUS
  <2> HIDE DEF g, dates
  <2> QED  BY <1>3, <2>1, <2>2, <2>3 DEF Attempts, Times
<1>7. g.at[3] = now /\ \A i \in 1..3 : i # 3 => g.at[i] = attempt[r].at[i]
  <2> HIDE DEF g
  <2> QED  BY <1>1, <1>3, <1>4
<1> HIDE DEF g
<1>5. Counting(r, g) /\ g.at[attempt[r].next] = now
  BY <1>1, <1>2, <1>4, <1>6, <1>7 DEF Counting
<1> QED  BY <1>4, <1>5, <1>6

LEMMA FailureRecord ==
    ASSUME TypeOK, NEW r \in 1..Len(attempt), EvalFails(r)
    PROVE  \E g \in Attempts :
              /\ Counting(r, g)
              /\ \/ g.at[attempt[r].next] = now /\ Increment(Subject(r))
                 \/ g.at[attempt[r].next] = Never /\ UNCHANGED counter
              /\ g.over = attempt[r].over
              /\ g.next = IF attempt[r].next = 1 THEN 2 ELSE 4
              /\ g.verdict = "failed"
<1>1. PICK effect \in BOOLEAN :
         /\ IF effect THEN Increment(Subject(r)) ELSE UNCHANGED counter
         /\ attempt' = [attempt EXCEPT
                ![r].at[attempt[r].next] = IF effect THEN now ELSE Never,
                ![r].next = IF @ = 1 THEN 2 ELSE 4,
                ![r].verdict = "failed"]
  BY DEF EvalFails
<1> DEFINE n == attempt[r].next
           t == IF effect THEN now ELSE Never
           g == [attempt[r] EXCEPT !.at[n] = t, !.next = IF @ = 1 THEN 2 ELSE 4, !.verdict = "failed"]
<1>2. n \in 1..3 /\ t \in Times
  BY DEF EvalFails, TypeOK, Times
<1>3. attempt' = [attempt EXCEPT ![r] = g]
  BY <1>1
<1>4. attempt[r] \in [ip : Ips, user : Users, next : 1..4, over : BOOLEAN, at : [1..3 -> Times],
                      verdict : {"open", "passed", "denied", "failed", "repeat"}]
  BY AttemptTyped DEF Attempts, Times
<1>5. /\ g.ip = attempt[r].ip /\ g.user = attempt[r].user
      /\ g.at = [attempt[r].at EXCEPT ![n] = t] /\ g.over = attempt[r].over
      /\ g.next = (IF n = 1 THEN 2 ELSE 4) /\ g.verdict = "failed"
  <2> HIDE DEF t, n
  <2> QED  BY <1>4 DEF n
<1>6. g \in Attempts
  <2>1. [attempt[r].at EXCEPT ![n] = t] \in [1..3 -> Times]
    <3> HIDE DEF t
    <3> QED  BY <1>2, <1>4
  <2>2. (IF n = 1 THEN 2 ELSE 4) \in 1..4
    OBVIOUS
  <2> HIDE DEF t, n
  <2> QED  BY <1>4, <2>1, <2>2 DEF Attempts, Times, n
<1>7. g.at[n] = t /\ \A i \in 1..3 : i # n => g.at[i] = attempt[r].at[i]
  <2> HIDE DEF g, t
  <2> QED  BY <1>2, <1>4, <1>5
<1> HIDE DEF g
<1>8. Counting(r, g)
  BY <1>3, <1>5, <1>6, <1>7 DEF Counting
<1> QED  BY <1>1, <1>5, <1>6, <1>7, <1>8

-----------------------------------------------------------------------------
(* The life of an attempt.                                                 *)

AttemptsInv ==
    \A r \in 1..Len(attempt) :
        /\ \A i \in 1..3 : /\ i >= attempt[r].next => attempt[r].at[i] = Never
                           /\ attempt[r].at[i] =< now
        /\ attempt[r].next = 3 => attempt[r].verdict = "open" /\ ~attempt[r].over
        /\ attempt[r].next < 4 => attempt[r].verdict \in {"open", "failed"}
        /\ attempt[r].verdict = "denied" => attempt[r].over
        /\ attempt[r].verdict = "passed" => ~attempt[r].over

(* What the three steps of detectFraud have in common: the increment takes *)
(* effect, or the attempt has failed.                                      *)
Detected(r, g, hit) ==
    /\ Counting(r, g)
    /\ attempt[r].next \in 1..3 /\ g.next > attempt[r].next
    /\ UNCHANGED <<now, old>>
    /\ hit  => g.at[attempt[r].next] = now /\ Increment(Subject(r))
    /\ ~hit => g.at[attempt[r].next] = Never /\ UNCHANGED counter /\ g.verdict = "failed"
    /\ attempt[r].over => g.over
    /\ g.over /\ ~attempt[r].over => /\ hit /\ attempt[r].next \in {1, 2}
                                     /\ Count(Subject(r)) > Limit
    /\ hit /\ attempt[r].next \in {1, 2} /\ Count(Subject(r)) > Limit => g.over \/ g.verdict = "failed"
    /\ g.verdict \in {"open", "passed"} => attempt[r].verdict = "open"
    /\ g.next = 3 => g.verdict = "open" /\ ~g.over
    /\ g.next < 4 => g.verdict \in {"open", "failed"}
    /\ g.verdict = "denied" => g.over
    /\ g.verdict = "passed" => ~g.over

LEMMA DetectionStep ==
    ASSUME TypeOK, AttemptsInv, NEW r \in 1..Len(attempt), DetectFraud(r)
    PROVE  \E g \in Attempts, hit \in BOOLEAN : Detected(r, g, hit)
<1>a. /\ attempt[r].next \in 1..4 /\ attempt[r].over \in BOOLEAN
      /\ attempt[r].next = 3 => attempt[r].verdict = "open" /\ ~attempt[r].over
      /\ attempt[r].next < 4 => attempt[r].verdict \in {"open", "failed"}
  BY AttemptTyped DEF AttemptsInv
<1>1. CASE CheckVelocity(r)
  <2>1. PICK g \in Attempts :
           /\ Counting(r, g)
           /\ g.at[attempt[r].next] = now
           /\ g.over = OverLimit(r, Subject(r))
           /\ g.next = IF attempt[r].next = 2 /\ (g.over \/ IsFailed(r)) THEN 4 ELSE attempt[r].next + 1
           /\ g.verdict = IF attempt[r].next = 2 /\ g.over /\ ~IsFailed(r) THEN "denied"
                          ELSE attempt[r].verdict
    BY <1>1, CheckRecord
  <2>2. /\ attempt[r].next \in {1, 2} /\ Increment(Subject(r)) /\ UNCHANGED <<now, old>>
        /\ g.over <=> attempt[r].over \/ Count(Subject(r)) > Limit
    BY <1>1, <2>1 DEF CheckVelocity, OverLimit
  <2>3. g.next > attempt[r].next /\ (g.next < 4 => g.verdict \in {"open", "failed"})
    BY <1>a, <2>1, <2>2
  <2>4. g.next = 3 => g.verdict = "open" /\ ~g.over
    BY <1>a, <2>1, <2>2 DEF IsFailed
  <2>5. g.verdict \in {"open", "passed"} => attempt[r].verdict = "open"
    BY <1>a, <2>1, <2>2
  <2>6. (g.verdict = "denied" => g.over) /\ g.verdict # "passed"
    BY <1>a, <2>1, <2>2
  <2>7. Detected(r, g, TRUE)
    BY <1>a, <2>1, <2>2, <2>3, <2>4, <2>5, <2>6 DEF Detected
  <2> QED  BY <2>7
<1>2. CASE RecordEventPressure(r)
  <2>1. PICK g \in Attempts :
           /\ Counting(r, g)
           /\ g.at[attempt[r].next] = now
           /\ g.over = attempt[r].over /\ g.next = 4 /\ g.verdict = "passed"
    BY <1>2, PressureRecord
  <2>2. attempt[r].next = 3 /\ Increment(Subject(r)) /\ UNCHANGED <<now, old>>
    BY <1>2, SubjectIs DEF RecordEventPressure
  <2>3. Detected(r, g, TRUE)
    BY <1>a, <2>1, <2>2 DEF Detected
  <2> QED  BY <2>3
<1>3. CASE EvalFails(r)
  <2>1. PICK g \in Attempts :
           /\ Counting(r, g)
           /\ \/ g.at[attempt[r].next] = now /\ Increment(Subject(r))
              \/ g.at[attempt[r].next] = Never /\ UNCHANGED counter
           /\ g.over = attempt[r].over
           /\ g.next = IF attempt[r].next = 1 THEN 2 ELSE 4
           /\ g.verdict = "failed"
    BY <1>3, FailureRecord
  <2>2. attempt[r].next \in 1..3 /\ UNCHANGED <<now, old>>
    BY <1>3 DEF EvalFails
  <2>3. g.next > attempt[r].next /\ g.next # 3
    BY <2>1, <2>2
  <2>4. CASE g.at[attempt[r].next] = now /\ Increment(Subject(r))
    <3>1. Detected(r, g, TRUE)  BY <1>a, <2>1, <2>2, <2>3, <2>4 DEF Detected
    <3> QED  BY <3>1
  <2>5. CASE g.at[attempt[r].next] = Never /\ UNCHANGED counter
    <3>1. Detected(r, g, FALSE)  BY <1>a, <2>1, <2>2, <2>3, <2>5 DEF Detected
    <3> QED  BY <3>1
  <2> QED  BY <2>1, <2>4, <2>5
<1> QED  BY <1>1, <1>2, <1>3 DEF DetectFraud

LEMMA ArrivalStep ==
    ASSUME TypeOK, NEW ip \in Ips, NEW user \in Users, Arrive(ip, user)
    PROVE  /\ attempt' \in Seq(Attempts) /\ Len(attempt') = Len(attempt) + 1
           /\ UNCHANGED <<now, counter, old>>
           /\ \A r \in 1..Len(attempt) : attempt'[r] = attempt[r]
           /\ LET g == attempt'[Len(attempt')]
              IN  /\ g.next = 1 /\ ~g.over /\ g.verdict = "open"
                  /\ \A i \in 1..3 : g.at[i] = Never
<1> DEFINE g == [ip |-> ip, user |-> user, next |-> 1, over |-> FALSE,
                 at |-> <<Never, Never, Never>>, verdict |-> "open"]
<1>1. <<Never, Never, Never>> \in [1..3 -> Times] /\ \A i \in 1..3 : <<Never, Never, Never>>[i] = Never
  BY DEF Times
<1>2. g \in Attempts
  BY <1>1 DEF Attempts, Times
<1>3. attempt \in Seq(Attempts)  BY DEF TypeOK
<1>4. attempt' = Append(attempt, g)  BY DEF Arrive
<1>5. g.next = 1 /\ ~g.over /\ g.verdict = "open" /\ \A i \in 1..3 : g.at[i] = Never
  BY <1>1
<1> HIDE DEF g
<1>6. /\ attempt' \in Seq(Attempts) /\ Len(attempt') = Len(attempt) + 1
      /\ \A r \in 1..Len(attempt) : attempt'[r] = attempt[r]
      /\ attempt'[Len(attempt')] = g
  BY <1>2, <1>3, <1>4
<1> QED  BY <1>5, <1>6 DEF Arrive

LEMMA RepeatStep ==
    ASSUME TypeOK, NEW r \in 1..Len(attempt), EvalResent(r)
    PROVE  /\ attempt' \in Seq(Attempts) /\ Len(attempt') = Len(attempt) + 1
           /\ Len(attempt) \in Nat /\ Increment(Subject(r)) /\ UNCHANGED <<now, old>>
           /\ \A q \in 1..Len(attempt) : attempt'[q] = attempt[q]
           /\ attempt[r].next \in 1..3
           /\ LET g == attempt'[Len(attempt')]
              IN  /\ g.ip = attempt[r].ip /\ g.user = attempt[r].user
                  /\ g.next = 4 /\ ~g.over /\ g.verdict = "repeat"
                  /\ \A i \in 1..3 : g.at[i] = IF i = attempt[r].next THEN now ELSE Never
<1> DEFINE at == [i \in 1..3 |-> IF i = attempt[r].next THEN now ELSE Never]
           g == [ip |-> attempt[r].ip, user |-> attempt[r].user, next |-> 4, over |-> FALSE,
                 at |-> at, verdict |-> "repeat"]
<1>1. at \in [1..3 -> Times]
  BY DEF Times, TypeOK
<1>2. g \in Attempts
  <2> HIDE DEF at
  <2> QED  BY <1>1, AttemptTyped DEF Attempts, Times
<1>3. attempt \in Seq(Attempts)  BY DEF TypeOK
<1>4. attempt' = Append(attempt, g)  BY DEF EvalResent
<1>5. /\ g.ip = attempt[r].ip /\ g.user = attempt[r].user
      /\ g.next = 4 /\ ~g.over /\ g.verdict = "repeat"
      /\ \A i \in 1..3 : g.at[i] = IF i = attempt[r].next THEN now ELSE Never
  OBVIOUS
<1> HIDE DEF g
<1>6. /\ attempt' \in Seq(Attempts) /\ Len(attempt') = Len(attempt) + 1 /\ Len(attempt) \in Nat
      /\ \A q \in 1..Len(attempt) : attempt'[q] = attempt[q]
      /\ attempt'[Len(attempt')] = g
  BY <1>2, <1>3, <1>4
<1> QED  BY <1>5, <1>6 DEF EvalResent

LEMMA DetectionRecords ==
    ASSUME TypeOK, NEW r \in 1..Len(attempt), NEW g, Counting(r, g)
    PROVE  /\ attempt' \in Seq(Attempts) /\ Len(attempt') = Len(attempt)
           /\ attempt'[r] = g /\ \A q \in 1..Len(attempt) : q # r => attempt'[q] = attempt[q]
<1>1. attempt \in Seq(Attempts) /\ g \in Attempts /\ attempt' = [attempt EXCEPT ![r] = g]
  BY DEF TypeOK, Counting
<1> QED  BY <1>1

LEMMA TypesStart == Init => TypeOK
<1> SUFFICES ASSUME Init PROVE TypeOK
  OBVIOUS
<1>1. \A s \in Subjects : counter[s] = IF s \in old THEN [count |-> OldCount, expires |-> Never] ELSE NoCounter
  BY DEF Init
<1>2. counter \in [Subjects -> [count : Nat, expires : Nat \cup {Never}]]
  BY Bounds DEF Init, NoCounter
<1>3. \A s \in Subjects : counter[s].expires = Never => counter[s].count = (IF s \in old THEN OldCount ELSE 0)
  BY <1>1 DEF NoCounter
<1>4. old \subseteq Subjects /\ attempt \in Seq(Attempts)
  BY DEF Init
<1>5. now \in 0..MaxTime /\ failures \in 0..MaxFailures
  BY VelocityAssumption DEF Init
<1> QED  BY <1>2, <1>3, <1>4, <1>5 DEF TypeOK

LEMMA TypesKept == TypeOK /\ AttemptsInv /\ [Next]_vars => TypeOK'
<1> SUFFICES ASSUME TypeOK, AttemptsInv, [Next]_vars PROVE TypeOK'
  OBVIOUS
<1>1. CASE Tick
  <2>1. now' \in 0..MaxTime  BY <1>1, Bounds DEF Tick, TypeOK
  <2> QED  BY <1>1, <2>1 DEF Tick, TypeOK
<1>2. ASSUME NEW ip \in Ips, NEW user \in Users, Arrive(ip, user) PROVE TypeOK'
  <2>1. attempt' \in Seq(Attempts)  BY <1>2, ArrivalStep
  <2> QED  BY <1>2, <2>1 DEF Arrive, TypeOK
<1>3. ASSUME NEW r \in 1..Len(attempt), DetectFraud(r) PROVE TypeOK'
  <2>1. PICK g \in Attempts, hit \in BOOLEAN : Detected(r, g, hit)
    BY <1>3, DetectionStep
  <2>2. attempt' \in Seq(Attempts)  BY <2>1, DetectionRecords DEF Detected
  <2>3. failures' \in 0..MaxFailures
    <3>1. failures' = failures \/ (failures < MaxFailures /\ failures' = failures + 1)
      BY <1>3 DEF DetectFraud, CheckVelocity, RecordEventPressure, EvalFails
    <3>2. failures \in 0..MaxFailures /\ MaxFailures \in Nat
      BY VelocityAssumption DEF TypeOK
    <3> QED  BY <3>1, <3>2
  <2>4. /\ counter' \in [Subjects -> [count : Nat, expires : Nat \cup {Never}]]
        /\ \A s \in Subjects : counter'[s].expires = Never =>
              counter'[s].count = (IF s \in old THEN OldCount ELSE 0)
    <3>1. CASE hit
      <4>1. Subject(r) \in Subjects /\ Increment(Subject(r))
        BY <2>1, <3>1, SubjectIs DEF Detected
      <4> QED  BY <4>1, IncrementTyped DEF TypeOK
    <3>2. CASE ~hit
      BY <2>1, <3>2 DEF Detected, TypeOK
    <3> QED  BY <3>1, <3>2
  <2> QED  BY <2>1, <2>2, <2>3, <2>4 DEF Detected, TypeOK
<1>4. CASE UNCHANGED vars
  BY <1>4 DEF vars, TypeOK
<1>5. ASSUME NEW r \in 1..Len(attempt), EvalResent(r) PROVE TypeOK'
  <2>1. attempt' \in Seq(Attempts) /\ Increment(Subject(r)) /\ Subject(r) \in Subjects
    BY <1>5, RepeatStep, SubjectIs DEF EvalResent
  <2>2. failures' \in 0..MaxFailures
    BY <1>5, VelocityAssumption DEF EvalResent, TypeOK
  <2>3. /\ counter' \in [Subjects -> [count : Nat, expires : Nat \cup {Never}]]
        /\ \A s \in Subjects : counter'[s].expires = Never =>
              counter'[s].count = (IF s \in old THEN OldCount ELSE 0)
    BY <2>1, IncrementTyped DEF TypeOK
  <2> QED  BY <1>5, <2>1, <2>2, <2>3 DEF EvalResent, TypeOK
<1> QED  BY <1>1, <1>2, <1>3, <1>4, <1>5 DEF Next

LEMMA AttemptsKept == TypeOK /\ AttemptsInv /\ [Next]_vars => AttemptsInv'
<1> SUFFICES ASSUME TypeOK, AttemptsInv, [Next]_vars PROVE AttemptsInv'
  OBVIOUS
<1> DEFINE Fine(g, t) ==
              /\ \A i \in 1..3 : (i >= g.next => g.at[i] = Never) /\ g.at[i] =< t
              /\ g.next = 3 => g.verdict = "open" /\ ~g.over
              /\ g.next < 4 => g.verdict \in {"open", "failed"}
              /\ g.verdict = "denied" => g.over
              /\ g.verdict = "passed" => ~g.over
<1>0. \A r \in 1..Len(attempt) : Fine(attempt[r], now)
  BY DEF AttemptsInv
<1>n. now \in Nat  BY Bounds DEF TypeOK
<1>1. CASE Tick
  <2>1. \A r \in 1..Len(attempt) : \A i \in 1..3 : attempt[r].at[i] \in Times
    BY AttemptTyped
  <2>2. \A t \in Times : t =< now => t =< now + 1
    BY <1>n, Bounds DEF Times
  <2>3. \A r \in 1..Len(attempt) : Fine(attempt[r], now + 1)
    BY <1>0, <2>1, <2>2
  <2> HIDE DEF Fine
  <2>4. \A r \in 1..Len(attempt') : Fine(attempt'[r], now')
    BY <1>1, <2>3 DEF Tick
  <2> QED  BY <2>4 DEF AttemptsInv, Fine
<1>2. ASSUME NEW ip \in Ips, NEW user \in Users, Arrive(ip, user) PROVE AttemptsInv'
  <2> DEFINE g == attempt'[Len(attempt')]
  <2>1. /\ Len(attempt') = Len(attempt) + 1 /\ now' = now
        /\ \A r \in 1..Len(attempt) : attempt'[r] = attempt[r]
        /\ g.next = 1 /\ ~g.over /\ g.verdict = "open" /\ \A i \in 1..3 : g.at[i] = Never
    BY <1>2, ArrivalStep
  <2>2. Fine(g, now)
    <3>1. \A i \in 1..3 : g.at[i] = Never /\ g.at[i] =< now
      BY <2>1, <1>n, Bounds
    <3>2. g.next = 1 /\ ~g.over /\ g.verdict = "open"
      BY <2>1
    <3> HIDE DEF g
    <3> QED  BY <3>1, <3>2
  <2>3. Len(attempt) \in Nat  BY DEF TypeOK
  <2>4. \A r \in 1..Len(attempt') : r \in 1..Len(attempt) \/ r = Len(attempt')
    BY <2>1, <2>3
  <2> HIDE DEF Fine
  <2>5. \A r \in 1..Len(attempt') : Fine(attempt'[r], now')
    BY <1>0, <2>1, <2>2, <2>4
  <2> QED  BY <2>5 DEF AttemptsInv, Fine
<1>3. ASSUME NEW r \in 1..Len(attempt), DetectFraud(r) PROVE AttemptsInv'
  <2>1. PICK g \in Attempts, hit \in BOOLEAN : Detected(r, g, hit)
    BY <1>3, DetectionStep
  <2> DEFINE n == attempt[r].next
  <2>2. /\ Len(attempt') = Len(attempt) /\ attempt'[r] = g /\ now' = now
        /\ \A q \in 1..Len(attempt) : q # r => attempt'[q] = attempt[q]
    BY <2>1, DetectionRecords DEF Detected
  <2>3. /\ n \in 1..3 /\ g.next > n /\ g.next \in 1..4
        /\ \A i \in 1..3 : i # n => g.at[i] = attempt[r].at[i]
        /\ g.at[n] \in {now, Never}
    BY <2>1 DEF Detected, Counting, Attempts
  <2>4. \A i \in 1..3 : i >= g.next => i # n /\ i >= n
    BY <2>3
  <2>5. \A i \in 1..3 : (i >= g.next => g.at[i] = Never) /\ g.at[i] =< now
    BY <1>0, <1>n, <2>3, <2>4, Bounds
  <2>6. Fine(g, now)
    BY <2>1, <2>5 DEF Detected
  <2> HIDE DEF Fine
  <2>7. \A q \in 1..Len(attempt') : Fine(attempt'[q], now')
    BY <1>0, <2>2, <2>6
  <2> QED  BY <2>7 DEF AttemptsInv, Fine
<1>4. CASE UNCHANGED vars
  BY <1>4 DEF vars, AttemptsInv
<1>5. ASSUME NEW r \in 1..Len(attempt), EvalResent(r) PROVE AttemptsInv'
  <2> DEFINE g == attempt'[Len(attempt')]
  <2>1. /\ Len(attempt') = Len(attempt) + 1 /\ Len(attempt) \in Nat /\ now' = now
        /\ \A q \in 1..Len(attempt) : attempt'[q] = attempt[q]
        /\ g.next = 4 /\ ~g.over /\ g.verdict = "repeat"
        /\ \A i \in 1..3 : g.at[i] \in {now, Never}
    BY <1>5, RepeatStep
  <2>2. Fine(g, now)
    <3>1. \A i \in 1..3 : g.at[i] =< now /\ ~(i >= 4)
      BY <2>1, <1>n, Bounds
    <3> HIDE DEF g
    <3> QED  BY <2>1, <3>1
  <2>3. \A q \in 1..Len(attempt') : q \in 1..Len(attempt) \/ q = Len(attempt')
    BY <2>1
  <2> HIDE DEF Fine
  <2>4. \A q \in 1..Len(attempt') : Fine(attempt'[q], now')
    BY <1>0, <2>1, <2>2, <2>3
  <2> QED  BY <2>4 DEF AttemptsInv, Fine
<1> QED  BY <1>1, <1>2, <1>3, <1>4, <1>5 DEF Next

-----------------------------------------------------------------------------
(* What a counter stands for.                                              *)

IsOpen(r)  == attempt[r].verdict \in {"open", "passed"} /\ ~attempt[r].over
Reached(s) == {r \in 1..Len(attempt) : Counts(r, s) /\ TimeOf(r, s) # Never}
Start(s)   == counter[s].expires - Window
Since(s)   == {r \in Reached(s) : TimeOf(r, s) >= Start(s)}
Weight(s)  == IF s \in old /\ \A r \in Reached(s) : TimeOf(r, s) >= Start(s) THEN OldCount ELSE 0

LEMMA ReachedFacts ==
    ASSUME TypeOK, AttemptsInv, NEW s \in Actors
    PROVE  /\ Reached(s) \subseteq 1..Len(attempt) /\ IsFiniteSet(Reached(s))
           /\ \A r \in Reached(s) : TimeOf(r, s) \in Nat /\ TimeOf(r, s) =< now
           /\ now \in Nat /\ s \in Subjects /\ s # Event
<1>1. Len(attempt) \in Nat  BY DEF TypeOK
<1>2. IsFiniteSet(1..Len(attempt))  BY <1>1, FS_Interval
<1>3. Reached(s) \subseteq 1..Len(attempt)  BY DEF Reached
<1>4. IsFiniteSet(Reached(s))  BY <1>2, <1>3, FS_Subset
<1>5. ASSUME NEW r \in Reached(s) PROVE TimeOf(r, s) \in Nat /\ TimeOf(r, s) =< now
  <2>1. r \in 1..Len(attempt) /\ TimeOf(r, s) # Never  BY DEF Reached
  <2>2. Index(r, s) \in 1..3 /\ TimeOf(r, s) = attempt[r].at[Index(r, s)]  BY DEF Index, TimeOf
  <2>3. TimeOf(r, s) \in Times /\ TimeOf(r, s) =< now
    BY <2>1, <2>2, AttemptTyped DEF AttemptsInv
  <2> QED  BY <2>1, <2>3, Bounds DEF Times
<1>6. now \in Nat /\ s \in Subjects /\ s # Event
  BY Bounds, VelocityAssumption DEF TypeOK, Subjects, Actors
<1> QED  BY <1>3, <1>4, <1>5, <1>6

LEMMA WithinReached ==
    ASSUME NEW s, NEW t
    PROVE  /\ Within(s, t) = {r \in Reached(s) : t - Window < TimeOf(r, s) /\ TimeOf(r, s) =< t}
           /\ Legacy(s, t) = IF s \in old /\ \A r \in Reached(s) : t - Window < TimeOf(r, s)
                             THEN OldCount ELSE 0
BY DEF Within, Legacy, Reached

(* Whose dates a step of detectFraud touches.                              *)
LEMMA ReachedMoves ==
    ASSUME TypeOK, AttemptsInv, NEW s \in Actors,
           NEW r \in 1..Len(attempt), NEW g \in Attempts, NEW hit \in BOOLEAN, Detected(r, g, hit)
    PROVE  /\ hit /\ s = Subject(r) => /\ r \notin Reached(s) /\ Reached(s)' = Reached(s) \cup {r}
                                       /\ TimeOf(r, s)' = now
           /\ ~(hit /\ s = Subject(r)) => Reached(s)' = Reached(s)
           /\ \A q \in Reached(s) : TimeOf(q, s)' = TimeOf(q, s)
<1> DEFINE n == attempt[r].next
<1>1. /\ Len(attempt') = Len(attempt) /\ attempt'[r] = g
      /\ \A q \in 1..Len(attempt) : q # r => attempt'[q] = attempt[q]
  BY DetectionRecords DEF Detected
<1>2. /\ n \in 1..3 /\ g.ip = attempt[r].ip /\ g.user = attempt[r].user
      /\ \A i \in 1..3 : i # n => g.at[i] = attempt[r].at[i]
      /\ hit => g.at[n] = now
      /\ ~hit => g.at[n] = Never
      /\ attempt[r].at[n] = Never
  BY DEF Detected, Counting, AttemptsInv
<1>3. now # Never  BY Bounds DEF TypeOK
<1>4. attempt[r].ip \in Ips /\ attempt[r].user \in Users /\ attempt[r].ip # attempt[r].user
  BY AttemptTyped, VelocityAssumption
<1>5. s # Event  BY ReachedFacts
<1>6. Counts(r, s) => (Index(r, s) = n <=> s = Subject(r)) /\ Index(r, s) \in 1..3
  BY <1>2, <1>4, <1>5, SubjectIs DEF Counts, Index
<1>7. s = Subject(r) => Counts(r, s)
  BY <1>2, <1>5, SubjectIs DEF Counts
<1>8. /\ Counts(r, s)' <=> Counts(r, s)
      /\ Index(r, s)' = Index(r, s) /\ TimeOf(r, s)' = g.at[Index(r, s)]
      /\ TimeOf(r, s) = attempt[r].at[Index(r, s)]
  BY <1>1, <1>2 DEF Counts, Index, TimeOf
<1>9. \A q \in 1..Len(attempt) : q # r => (Counts(q, s)' <=> Counts(q, s)) /\ TimeOf(q, s)' = TimeOf(q, s)
  BY <1>1 DEF Counts, Index, TimeOf
<1>10. CASE hit /\ s = Subject(r)
  <2>1. r \notin Reached(s)  BY <1>2, <1>6, <1>7, <1>8, <1>10 DEF Reached
  <2>2. TimeOf(r, s)' = now /\ Counts(r, s)'  BY <1>2, <1>6, <1>7, <1>8, <1>10
  <2>3. Reached(s)' = Reached(s) \cup {r}
    BY <1>1, <1>3, <1>9, <2>1, <2>2 DEF Reached
  <2>4. \A q \in Reached(s) : TimeOf(q, s)' = TimeOf(q, s)
    BY <1>9, <2>1 DEF Reached
  <2> QED  BY <1>10, <2>1, <2>2, <2>3, <2>4
<1>11. CASE ~(hit /\ s = Subject(r))
  <2>1. Counts(r, s) => TimeOf(r, s)' = TimeOf(r, s)
    BY <1>2, <1>6, <1>8, <1>11
  <2>2. Reached(s)' = Reached(s)
    BY <1>1, <1>8, <1>9, <2>1 DEF Reached
  <2>3. \A q \in Reached(s) : TimeOf(q, s)' = TimeOf(q, s)
    BY <1>9, <2>1 DEF Reached
  <2> QED  BY <1>11, <2>2, <2>3
<1> QED  BY <1>10, <1>11

LEMMA ReachedStays ==
    ASSUME TypeOK, NEW s, (\E ip \in Ips, user \in Users : Arrive(ip, user)) \/ UNCHANGED attempt
    PROVE  /\ Reached(s)' = Reached(s)
           /\ \A q \in Reached(s) : TimeOf(q, s)' = TimeOf(q, s)
<1>1. CASE UNCHANGED attempt
  BY <1>1 DEF Reached, Counts, TimeOf, Index
<1>2. ASSUME NEW ip \in Ips, NEW user \in Users, Arrive(ip, user)
      PROVE  /\ Reached(s)' = Reached(s)
             /\ \A q \in Reached(s) : TimeOf(q, s)' = TimeOf(q, s)
  <2>1. /\ Len(attempt') = Len(attempt) + 1 /\ Len(attempt) \in Nat
        /\ \A r \in 1..Len(attempt) : attempt'[r] = attempt[r]
        /\ \A i \in 1..3 : attempt'[Len(attempt')].at[i] = Never
    BY <1>2, ArrivalStep DEF TypeOK
  <2>2. \A r \in 1..Len(attempt) : (Counts(r, s)' <=> Counts(r, s)) /\ TimeOf(r, s)' = TimeOf(r, s)
    BY <2>1 DEF Counts, Index, TimeOf
  <2>3. ASSUME NEW r \in Nat, r = Len(attempt') PROVE TimeOf(r, s)' = Never
    <3>1. Index(r, s)' \in 1..3  BY DEF Index
    <3>2. TimeOf(r, s)' = attempt'[r].at[Index(r, s)']  BY DEF TimeOf
    <3> QED  BY <2>1, <2>3, <3>1, <3>2
  <2>4. \A r \in 1..Len(attempt') : r \in 1..Len(attempt) \/ r = Len(attempt')
    BY <2>1
  <2>5. \A r \in 1..Len(attempt) : r \in 1..Len(attempt')
    BY <2>1
  <2>6. Reached(s)' = Reached(s)
    <3>1. Reached(s)' = {r \in 1..Len(attempt') : Counts(r, s)' /\ TimeOf(r, s)' # Never}
      BY DEF Reached, Never
    <3>2. \A r \in 1..Len(attempt') : r \in Nat
      BY <2>1
    <3> QED  BY <2>2, <2>3, <2>4, <2>5, <3>1, <3>2 DEF Reached
  <2> QED  BY <2>2, <2>6 DEF Reached
<1> QED  BY <1>1, <1>2

(* A script executed twice is one more increment of its counter.           *)
LEMMA ReachedRepeats ==
    ASSUME TypeOK, AttemptsInv, NEW s \in Actors, NEW r \in 1..Len(attempt), EvalResent(r),
           NEW p \in Nat, p = Len(attempt) + 1
    PROVE  /\ s = Subject(r) => /\ p \notin Reached(s) /\ Reached(s)' = Reached(s) \cup {p}
                                /\ TimeOf(p, s)' = now
           /\ s # Subject(r) => Reached(s)' = Reached(s) /\ counter'[s] = counter[s]
           /\ \A q \in Reached(s) : TimeOf(q, s)' = TimeOf(q, s) /\ (IsOpen(q)' => IsOpen(q))
           /\ ~IsOpen(p)'
<1> DEFINE n == attempt[r].next
<1>1. /\ Len(attempt') = p /\ Len(attempt) \in Nat
      /\ Increment(Subject(r)) /\ UNCHANGED <<now, old>>
      /\ \A q \in 1..Len(attempt) : attempt'[q] = attempt[q]
      /\ attempt'[p].ip = attempt[r].ip /\ attempt'[p].user = attempt[r].user
      /\ attempt'[p].verdict = "repeat" /\ n \in 1..3
      /\ \A i \in 1..3 : attempt'[p].at[i] = IF i = n THEN now ELSE Never
  BY RepeatStep
<1>2. \A q \in 1..Len(attempt) : (Counts(q, s)' <=> Counts(q, s)) /\ TimeOf(q, s)' = TimeOf(q, s)
  BY <1>1 DEF Counts, Index, TimeOf
<1>3. /\ Reached(s) \subseteq 1..Len(attempt) /\ s # Event /\ s \in Subjects /\ now # Never
      /\ p \notin 1..Len(attempt)
  BY <1>1, ReachedFacts, Bounds
<1>4. attempt[r].ip \in Ips /\ attempt[r].user \in Users /\ attempt[r].ip # attempt[r].user
  BY AttemptTyped, VelocityAssumption
<1>5. /\ Counts(p, s)' <=> s \in {attempt[r].ip, attempt[r].user}
      /\ TimeOf(p, s)' = attempt'[p].at[IF attempt[r].ip = s THEN 1 ELSE 2]
  BY <1>1 DEF Counts, TimeOf, Index
<1>6. Counts(p, s)' => (TimeOf(p, s)' = IF s = Subject(r) THEN now ELSE Never)
  BY <1>1, <1>3, <1>4, <1>5, SubjectIs
<1>7. s = Subject(r) => Counts(p, s)'
  BY <1>1, <1>3, <1>5, SubjectIs
<1>8. Reached(s)' = {q \in 1..p : Counts(q, s)' /\ TimeOf(q, s)' # Never}
  BY <1>1 DEF Reached, Never
<1>9. 1..p = 1..Len(attempt) \cup {p}
  BY <1>1
<1>10. s = Subject(r) => Reached(s)' = Reached(s) \cup {p} /\ TimeOf(p, s)' = now
  BY <1>2, <1>3, <1>6, <1>7, <1>8, <1>9 DEF Reached
<1>11. s # Subject(r) => Reached(s)' = Reached(s)
  BY <1>2, <1>3, <1>6, <1>8, <1>9 DEF Reached
<1>12. s # Subject(r) => counter'[s] = counter[s]
  BY <1>1, <1>3, SubjectIs, IncrementTyped
<1>13. ~IsOpen(p)'
  BY <1>1 DEF IsOpen
<1>14. \A q \in Reached(s) : TimeOf(q, s)' = TimeOf(q, s) /\ (IsOpen(q)' => IsOpen(q))
  BY <1>1, <1>2, <1>3 DEF IsOpen
<1> QED  BY <1>3, <1>10, <1>11, <1>12, <1>13, <1>14

CounterOf(s) ==
    /\ counter[s].expires = Never => Reached(s) = {}
    /\ counter[s].expires # Never =>
          /\ \E r \in Reached(s) : TimeOf(r, s) = Start(s)
          /\ \A r \in Reached(s) : TimeOf(r, s) < counter[s].expires
          /\ counter[s].count = Cardinality(Since(s)) + Weight(s)

CountersInv == \A s \in Actors : CounterOf(s)

(* A counter that starts again at one has expired.                         *)
LEMMA RestartedExpired ==
    ASSUME TypeOK, AttemptsInv, NEW s \in Actors, CounterOf(s), counter[s].expires # Never, Count(s) = 1
    PROVE  counter[s].expires =< now /\ counter[s].expires \in Nat
<1>1. /\ now \in Nat /\ s \in Subjects /\ IsFiniteSet(Reached(s))
      /\ \A q \in Reached(s) : TimeOf(q, s) \in Nat
  BY ReachedFacts
<1>2. counter[s].count \in Nat /\ counter[s].expires \in Nat
  BY <1>1 DEF TypeOK
<1>3. IsFiniteSet(Since(s)) /\ Cardinality(Since(s)) \in Nat /\ Weight(s) \in Nat
  <2>1. IsFiniteSet(Since(s))  BY <1>1, FS_Subset DEF Since
  <2> QED  BY <2>1, FS_CardinalityType, Bounds DEF Weight
<1>4. PICK q \in Reached(s) : TimeOf(q, s) = Start(s)  BY DEF CounterOf
<1>5. q \in Since(s)  BY <1>1, <1>4 DEF Since
<1>6. Cardinality(Since(s)) # 0  BY <1>3, <1>5, FS_EmptySet
<1>7. counter[s].count > 0  BY <1>3, <1>6 DEF CounterOf
<1>8. ~Live(s)  BY <1>2, <1>7 DEF Count
<1> QED  BY <1>1, <1>2, <1>7, <1>8 DEF Live

(* The script leaves a counter that began within the window, with all the  *)
(* increments since and, at first, what an old counter weighs.             *)
LEMMA IncrementCounts ==
    ASSUME TypeOK, AttemptsInv, NEW s \in Actors, CounterOf(s), Increment(s), UNCHANGED <<now, old>>,
           NEW r, r \notin Reached(s), Reached(s)' = Reached(s) \cup {r}, TimeOf(r, s)' = now,
           \A q \in Reached(s) : TimeOf(q, s)' = TimeOf(q, s)
    PROVE  /\ CounterOf(s)'
           /\ now - Window < Start(s)' /\ Start(s)' =< now /\ Start(s)' \in Nat
           /\ counter'[s].count = Count(s)
           /\ Start(s)' = Start(s) \/ (Start(s)' = now /\ \A q \in Reached(s) : TimeOf(q, s) < now)
           /\ counter[s].expires # Never => Start(s) + Window =< now \/ Start(s)' = Start(s)
<1>r. /\ now \in Nat /\ s \in Subjects /\ IsFiniteSet(Reached(s))
      /\ \A q \in Reached(s) : TimeOf(q, s) \in Nat /\ TimeOf(q, s) =< now
  BY ReachedFacts
<1>w. Window \in Nat /\ Window > 0  BY Bounds
<1>i. /\ counter'[s].count = Count(s) /\ counter'[s].expires # Never
      /\ counter'[s].expires = IF Expires(s) THEN now + Window ELSE counter[s].expires
      /\ Count(s) \in Nat \ {0}
  BY <1>r, IncrementTyped
<1>c. counter[s] \in [count : Nat, expires : Nat \cup {Never}]  BY <1>r DEF TypeOK
<1>f. /\ Since(s) \subseteq Reached(s) /\ IsFiniteSet(Since(s)) /\ Cardinality(Since(s)) \in Nat
      /\ Weight(s) \in Nat
  <2>1. Since(s) \subseteq Reached(s)  BY DEF Since
  <2>2. IsFiniteSet(Since(s))  BY <1>r, <2>1, FS_Subset
  <2> QED  BY <2>1, <2>2, FS_CardinalityType, Bounds DEF Weight
<1>1. CASE Expires(s)
  <2>1. Start(s)' = now
    BY <1>i, <1>r, <1>w, <1>1 DEF Start
  <2>2. \A q \in Reached(s) : TimeOf(q, s) < now
    <3>1. CASE counter[s].expires = Never
      BY <3>1 DEF CounterOf
    <3>2. CASE counter[s].expires # Never
      <4>1. Count(s) = 1  BY <1>1, <3>2 DEF Expires
      <4>3. counter[s].expires =< now /\ counter[s].expires \in Nat
        BY <3>2, <4>1, RestartedExpired
      <4>4. \A q \in Reached(s) : TimeOf(q, s) < counter[s].expires
        BY <3>2 DEF CounterOf
      <4> QED  BY <1>r, <4>3, <4>4
    <3> QED  BY <3>1, <3>2
  <2>3. Since(s)' = {r}
    <3>1. Since(s)' = {q \in Reached(s)' : TimeOf(q, s)' >= Start(s)'}  BY DEF Since
    <3>2. \A q \in Reached(s) : ~(TimeOf(q, s)' >= Start(s)')
      BY <1>r, <2>1, <2>2
    <3>3. TimeOf(r, s)' >= Start(s)'  BY <1>r, <2>1
    <3> QED  BY <3>1, <3>2, <3>3
  <2>4. Weight(s)' = IF s \in old /\ Reached(s) = {} THEN OldCount ELSE 0
    <3>1. (\A q \in Reached(s)' : TimeOf(q, s)' >= Start(s)') <=> Reached(s) = {}
      <4>1. \A q \in Reached(s) : ~(TimeOf(q, s)' >= Start(s)')
        BY <1>r, <2>1, <2>2
      <4>2. TimeOf(r, s)' >= Start(s)'  BY <1>r, <2>1
      <4> QED  BY <4>1, <4>2
    <3> QED  BY <3>1 DEF Weight
  <2>5. Count(s) = 1 + Weight(s)'
    <3>1. CASE counter[s].expires = Never
      <4>1. Reached(s) = {} /\ counter[s].count = (IF s \in old THEN OldCount ELSE 0)
        BY <1>r, <3>1 DEF CounterOf, TypeOK
      <4>2. CASE s \in old
        BY <1>c, <2>4, <3>1, <4>1, <4>2, Bounds DEF Count, Live
      <4>3. CASE s \notin old
        BY <1>c, <2>4, <4>1, <4>3, Bounds DEF Count, Live
      <4> QED  BY <4>2, <4>3
    <3>2. CASE counter[s].expires # Never
      <4>1. Reached(s) # {}  BY <3>2 DEF CounterOf
      <4>2. Count(s) = 1  BY <1>1, <3>2 DEF Expires
      <4> QED  BY <2>4, <4>1, <4>2
    <3> QED  BY <3>1, <3>2
  <2>6. Cardinality(Since(s)') = 1  BY <2>3, FS_Singleton
  <2>7. CounterOf(s)'
    <3>1. \E q \in Reached(s)' : TimeOf(q, s)' = Start(s)'  BY <2>1
    <3>2. counter'[s].expires = now + Window  BY <1>i, <1>1
    <3>3. \A q \in Reached(s)' : TimeOf(q, s)' < counter'[s].expires
      BY <1>r, <1>w, <3>2
    <3>4. counter'[s].count = Cardinality(Since(s)') + Weight(s)'
      BY <1>i, <2>5, <2>6
    <3> QED  BY <1>i, <3>1, <3>3, <3>4 DEF CounterOf
  <2>8. counter[s].expires # Never => Start(s) + Window =< now \/ Start(s)' = Start(s)
    <3> SUFFICES ASSUME counter[s].expires # Never PROVE Start(s) + Window =< now
      OBVIOUS
    <3>1. Count(s) = 1  BY <1>1 DEF Expires
    <3>2. counter[s].expires =< now /\ counter[s].expires \in Nat
      BY <3>1, RestartedExpired
    <3> QED  BY <1>r, <1>w, <3>2 DEF Start
  <2> QED  BY <1>r, <1>w, <1>i, <2>1, <2>2, <2>7, <2>8
<1>2. CASE ~Expires(s)
  <2>1. counter[s].expires # Never /\ counter[s].expires \in Nat /\ Count(s) # 1
    BY <1>c, <1>2 DEF Expires
  <2>2. Live(s) /\ Count(s) = counter[s].count + 1
    BY <2>1 DEF Count
  <2>3. now < counter[s].expires
    BY <2>1, <2>2 DEF Live
  <2>4. Start(s)' = Start(s) /\ counter'[s].expires = counter[s].expires
    BY <1>i, <1>2 DEF Start
  <2>5. PICK q0 \in Reached(s) : TimeOf(q0, s) = Start(s)
    BY <2>1 DEF CounterOf
  <2>6. Start(s) \in Nat /\ Start(s) =< now
    BY <1>r, <2>5
  <2>7. Since(s)' = Since(s) \cup {r} /\ r \notin Since(s)
    <3>1. Since(s)' = {q \in Reached(s)' : TimeOf(q, s)' >= Start(s)'}  BY DEF Since
    <3>2. TimeOf(r, s)' >= Start(s)'  BY <1>r, <2>4, <2>6
    <3> QED  BY <2>4, <3>1, <3>2 DEF Since
  <2>8. Cardinality(Since(s)') = Cardinality(Since(s)) + 1
    BY <1>f, <2>7, FS_AddElement
  <2>9. Weight(s)' = Weight(s)
    <3>1. TimeOf(r, s)' >= Start(s)'  BY <1>r, <2>4, <2>6
    <3>2. (\A q \in Reached(s)' : TimeOf(q, s)' >= Start(s)') <=> (\A q \in Reached(s) : TimeOf(q, s) >= Start(s))
      BY <2>4, <3>1
    <3> QED  BY <3>2 DEF Weight
  <2>10. CounterOf(s)'
    <3>1. \E q \in Reached(s)' : TimeOf(q, s)' = Start(s)'  BY <2>4, <2>5
    <3>2. \A q \in Reached(s)' : TimeOf(q, s)' < counter'[s].expires
      BY <2>1, <2>3, <2>4 DEF CounterOf
    <3>3. counter'[s].count = Cardinality(Since(s)') + Weight(s)'
      BY <1>f, <1>i, <2>1, <2>2, <2>8, <2>9 DEF CounterOf
    <3> QED  BY <1>i, <3>1, <3>2, <3>3 DEF CounterOf
  <2>11. now - Window < Start(s)
    BY <1>r, <1>w, <2>1, <2>3 DEF Start
  <2> QED  BY <1>i, <2>4, <2>6, <2>10, <2>11
<1> QED  BY <1>1, <1>2

LEMMA CounterStays ==
    ASSUME NEW s \in Subjects, counter'[s] = counter[s], UNCHANGED old, Reached(s)' = Reached(s),
           \A q \in Reached(s) : TimeOf(q, s)' = TimeOf(q, s)
    PROVE  (CounterOf(s) => CounterOf(s)') /\ Start(s)' = Start(s)
<1>1. Start(s)' = Start(s)  BY DEF Start
<1>2. Since(s)' = Since(s) /\ Weight(s)' = Weight(s)
  BY <1>1 DEF Since, Weight
<1>3. ASSUME CounterOf(s) PROVE CounterOf(s)'
  <2>1. counter'[s].expires = Never => Reached(s)' = {}
    BY <1>3 DEF CounterOf
  <2>2. counter'[s].expires # Never =>
           /\ \E r \in Reached(s)' : TimeOf(r, s)' = Start(s)'
           /\ \A r \in Reached(s)' : TimeOf(r, s)' < counter'[s].expires
           /\ counter'[s].count = Cardinality(Since(s)') + Weight(s)'
    BY <1>1, <1>2, <1>3 DEF CounterOf
  <2> QED  BY <2>1, <2>2 DEF CounterOf
<1> QED  BY <1>1, <1>3

(* A step that does not increment a counter leaves it alone.               *)
LEMMA OthersStay ==
    ASSUME TypeOK, AttemptsInv, NEW s \in Actors,
           NEW r \in 1..Len(attempt), NEW g \in Attempts, NEW hit \in BOOLEAN, Detected(r, g, hit),
           ~(hit /\ s = Subject(r))
    PROVE  /\ counter'[s] = counter[s] /\ Reached(s)' = Reached(s)
           /\ \A q \in Reached(s) : TimeOf(q, s)' = TimeOf(q, s)
           /\ CounterOf(s) => CounterOf(s)'
           /\ Start(s)' = Start(s)
<1>1. s \in Subjects  BY ReachedFacts
<1>2. counter'[s] = counter[s]
  <2>1. CASE hit
    <3>1. Subject(r) \in Subjects /\ Increment(Subject(r))
      BY <2>1, SubjectIs DEF Detected
    <3> QED  BY <1>1, <2>1, <3>1, IncrementTyped
  <2>2. CASE ~hit
    BY <2>2 DEF Detected
  <2> QED  BY <2>1, <2>2
<1>3. /\ Reached(s)' = Reached(s)
      /\ \A q \in Reached(s) : TimeOf(q, s)' = TimeOf(q, s)
  BY ReachedMoves
<1>4. UNCHANGED old  BY DEF Detected
<1> QED  BY <1>1, <1>2, <1>3, <1>4, CounterStays

LEMMA CountersKept == TypeOK /\ AttemptsInv /\ CountersInv /\ [Next]_vars => CountersInv'
<1> SUFFICES ASSUME TypeOK, AttemptsInv, CountersInv, [Next]_vars, NEW s \in Actors PROVE CounterOf(s)'
  BY DEF CountersInv
<1>0. s \in Subjects /\ CounterOf(s)  BY ReachedFacts DEF CountersInv
<1>1. ASSUME (\E ip \in Ips, user \in Users : Arrive(ip, user)) \/ Tick \/ UNCHANGED vars
      PROVE  CounterOf(s)'
  <2>1. /\ (\E ip \in Ips, user \in Users : Arrive(ip, user)) \/ UNCHANGED attempt
        /\ UNCHANGED <<counter, old>>
    BY <1>1 DEF Arrive, Tick, vars
  <2> QED  BY <1>0, <2>1, ReachedStays, CounterStays
<1>2. ASSUME NEW r \in 1..Len(attempt), DetectFraud(r) PROVE CounterOf(s)'
  <2>1. PICK g \in Attempts, hit \in BOOLEAN : Detected(r, g, hit)
    BY <1>2, DetectionStep
  <2>2. CASE hit /\ s = Subject(r)
    <3>1. Increment(s) /\ UNCHANGED <<now, old>>  BY <2>1, <2>2 DEF Detected
    <3> QED  BY <1>0, <2>1, <2>2, <3>1, ReachedMoves, IncrementCounts
  <2>3. CASE ~(hit /\ s = Subject(r))
    BY <1>0, <2>1, <2>3, OthersStay
  <2> QED  BY <2>2, <2>3
<1>3. ASSUME NEW r \in 1..Len(attempt), EvalResent(r) PROVE CounterOf(s)'
  <2>1. Increment(Subject(r)) /\ UNCHANGED <<now, old>> /\ Len(attempt) \in Nat
    BY <1>3, RepeatStep
  <2>2. PICK p \in Nat : p = Len(attempt) + 1  BY <2>1
  <2>3. CASE s = Subject(r)
    BY <1>0, <1>3, <2>1, <2>2, <2>3, ReachedRepeats, IncrementCounts
  <2>4. CASE s # Subject(r)
    BY <1>0, <1>3, <2>1, <2>2, <2>4, ReachedRepeats, CounterStays
  <2> QED  BY <2>3, <2>4
<1> QED  BY <1>1, <1>2, <1>3 DEF Next

-----------------------------------------------------------------------------
(* Why an attempt is over the limit.                                       *)

Alarm(s, t) == Cardinality(Within(s, t)) + Legacy(s, t) > Limit

AlarmsInv ==
    \A r \in 1..Len(attempt) : attempt[r].over =>
        \E s \in {attempt[r].ip, attempt[r].user} :
            r \in Reached(s) /\ \E t \in Nat : t = TimeOf(r, s) /\ Alarm(s, t)

(* Later increments do not take an alarm back.                             *)
LEMMA AlarmLasts ==
    ASSUME TypeOK, AttemptsInv, NEW s \in Actors, NEW t \in Nat, t =< now, Alarm(s, t), UNCHANGED old,
           \/ Reached(s)' = Reached(s)
           \/ \E r : Reached(s)' = Reached(s) \cup {r} /\ TimeOf(r, s)' = now,
           \A q \in Reached(s) : TimeOf(q, s)' = TimeOf(q, s)
    PROVE  Alarm(s, t)'
<1>r. /\ now \in Nat /\ IsFiniteSet(Reached(s))
      /\ \A q \in Reached(s) : TimeOf(q, s) \in Nat
  BY ReachedFacts
<1>w. Window \in Nat /\ Window > 0 /\ Limit \in Nat  BY Bounds
<1>1. Within(s, t) = {r \in Reached(s) : t - Window < TimeOf(r, s) /\ TimeOf(r, s) =< t}
  BY WithinReached
<1>2. Within(s, t)' = {r \in Reached(s)' : t - Window < TimeOf(r, s)' /\ TimeOf(r, s)' =< t}
  BY DEF Within, Reached
<1>3. Within(s, t) \subseteq Within(s, t)'
  BY <1>1, <1>2
<1>4. IsFiniteSet(Within(s, t)')
  <2>1. IsFiniteSet(Reached(s)')
    <3>1. ASSUME NEW r PROVE IsFiniteSet(Reached(s) \cup {r})
      BY <1>r, FS_AddElement
    <3> QED  BY <1>r, <3>1
  <2> QED  BY <1>2, <2>1, FS_Subset
<1>5. IsFiniteSet(Within(s, t)) /\ Cardinality(Within(s, t)) =< Cardinality(Within(s, t)')
  BY <1>3, <1>4, FS_Subset
<1>6. Cardinality(Within(s, t)) \in Nat /\ Cardinality(Within(s, t)') \in Nat
  BY <1>4, <1>5, FS_CardinalityType
<1>7. Legacy(s, t)' = Legacy(s, t)
  <2>1. Legacy(s, t) = IF s \in old /\ \A r \in Reached(s) : t - Window < TimeOf(r, s) THEN OldCount ELSE 0
    BY WithinReached
  <2>2. Legacy(s, t)' = IF s \in old /\ \A r \in Reached(s)' : t - Window < TimeOf(r, s)' THEN OldCount ELSE 0
    BY DEF Legacy, Reached
  <2>3. t - Window < now
    BY <1>r, <1>w
  <2>4. (\A r \in Reached(s)' : t - Window < TimeOf(r, s)') <=> (\A r \in Reached(s) : t - Window < TimeOf(r, s))
    BY <2>3
  <2> QED  BY <2>1, <2>2, <2>4
<1>8. Legacy(s, t) \in Nat
  BY WithinReached, Bounds
<1>9. Alarm(s, t)' <=> Cardinality(Within(s, t)') + Legacy(s, t)' > Limit
  BY DEF Alarm
<1> QED  BY <1>w, <1>5, <1>6, <1>7, <1>8, <1>9 DEF Alarm

(* A count over the limit is made of what the window holds.                *)
LEMMA AlarmRaised ==
    ASSUME TypeOK, AttemptsInv, NEW s \in Actors, CounterOf(s), Increment(s), UNCHANGED <<now, old>>,
           NEW r, r \notin Reached(s), Reached(s)' = Reached(s) \cup {r}, TimeOf(r, s)' = now,
           \A q \in Reached(s) : TimeOf(q, s)' = TimeOf(q, s),
           Count(s) > Limit, NEW t \in Nat, t = now
    PROVE  Alarm(s, t)'
<1>r. /\ now \in Nat /\ IsFiniteSet(Reached(s)) /\ s \in Subjects
      /\ \A q \in Reached(s) : TimeOf(q, s) \in Nat /\ TimeOf(q, s) =< now
  BY ReachedFacts
<1>w. Window \in Nat /\ Limit \in Nat /\ OldCount \in Nat  BY Bounds
<1>1. /\ CounterOf(s)' /\ now - Window < Start(s)' /\ Start(s)' \in Nat /\ counter'[s].count = Count(s)
  BY IncrementCounts
<1>2. counter'[s].expires # Never /\ Count(s) \in Nat
  BY <1>r, IncrementTyped
<1>3. Cardinality(Since(s)') + Weight(s)' > Limit
  BY <1>1, <1>2 DEF CounterOf
<1>4. \A q \in Reached(s)' : TimeOf(q, s)' \in Nat /\ TimeOf(q, s)' =< now
  BY <1>r
<1>5. Within(s, t)' = {q \in Reached(s)' : t - Window < TimeOf(q, s)' /\ TimeOf(q, s)' =< t}
  BY DEF Within, Reached
<1>6. Since(s)' = {q \in Reached(s)' : TimeOf(q, s)' >= Start(s)'}
  BY DEF Since
<1>7. \A q \in Reached(s)' : TimeOf(q, s)' >= Start(s)' => t - Window < TimeOf(q, s)'
  BY <1>r, <1>w, <1>1, <1>4
<1>8. Since(s)' \subseteq Within(s, t)'
  BY <1>4, <1>5, <1>6, <1>7
<1>9. IsFiniteSet(Within(s, t)')
  <2>1. IsFiniteSet(Reached(s)')  BY <1>r, FS_AddElement
  <2> QED  BY <1>5, <2>1, FS_Subset
<1>10. /\ Cardinality(Since(s)') =< Cardinality(Within(s, t)')
       /\ Cardinality(Since(s)') \in Nat /\ Cardinality(Within(s, t)') \in Nat
  BY <1>8, <1>9, FS_Subset, FS_CardinalityType
<1>11. Weight(s)' =< Legacy(s, t)' /\ Weight(s)' \in Nat /\ Legacy(s, t)' \in Nat
  <2>1. Weight(s)' = IF s \in old /\ \A q \in Reached(s)' : TimeOf(q, s)' >= Start(s)' THEN OldCount ELSE 0
    BY DEF Weight
  <2>2. Legacy(s, t)' = IF s \in old /\ \A q \in Reached(s)' : t - Window < TimeOf(q, s)' THEN OldCount ELSE 0
    BY DEF Legacy, Reached
  <2>3. (\A q \in Reached(s)' : TimeOf(q, s)' >= Start(s)') => \A q \in Reached(s)' : t - Window < TimeOf(q, s)'
    BY <1>7
  <2> QED  BY <1>w, <2>1, <2>2, <2>3
<1>12. Alarm(s, t)' <=> Cardinality(Within(s, t)') + Legacy(s, t)' > Limit
  BY DEF Alarm
<1> QED  BY <1>w, <1>3, <1>10, <1>11, <1>12

LEMMA AlarmsKept == TypeOK /\ AttemptsInv /\ CountersInv /\ AlarmsInv /\ [Next]_vars => AlarmsInv'
<1> SUFFICES ASSUME TypeOK, AttemptsInv, CountersInv, AlarmsInv, [Next]_vars,
                    NEW q \in 1..Len(attempt'), attempt'[q].over
             PROVE  \E s \in {attempt'[q].ip, attempt'[q].user} :
                       /\ q \in Reached(s)'
                       /\ \E t \in Nat : t = TimeOf(q, s)' /\ Alarm(s, t)'
  BY DEF AlarmsInv
(* An alarm that was there.                                                *)
<1> DEFINE Moved(s) == /\ \/ Reached(s)' = Reached(s)
                          \/ \E r : Reached(s)' = Reached(s) \cup {r} /\ TimeOf(r, s)' = now
                       /\ \A x \in Reached(s) : TimeOf(x, s)' = TimeOf(x, s)
<1>1. ASSUME q \in 1..Len(attempt), attempt[q].over, UNCHANGED old,
             attempt'[q].ip = attempt[q].ip, attempt'[q].user = attempt[q].user,
             \A s \in Actors : Moved(s)
      PROVE  \E s \in {attempt'[q].ip, attempt'[q].user} :
                /\ q \in Reached(s)'
                /\ \E t \in Nat : t = TimeOf(q, s)' /\ Alarm(s, t)'
  <2>1. PICK s \in {attempt[q].ip, attempt[q].user}, t \in Nat :
           q \in Reached(s) /\ t = TimeOf(q, s) /\ Alarm(s, t)
    BY <1>1 DEF AlarmsInv
  <2>2. s \in Actors  BY <1>1, AttemptTyped DEF Actors
  <2>3. t =< now  BY <2>1, <2>2, ReachedFacts
  <2>4. Moved(s)  BY <1>1, <2>2
  <2>5. Alarm(s, t)'
    BY <1>1, <2>1, <2>2, <2>3, <2>4, AlarmLasts
  <2>6. q \in Reached(s)' /\ t = TimeOf(q, s)'
    BY <2>1, <2>4
  <2> QED  BY <1>1, <2>1, <2>5, <2>6
<1>2. CASE UNCHANGED <<attempt, old>>
  <2>1. \A s \in Actors : Moved(s)  BY <1>2, ReachedStays
  <2> QED  BY <1>1, <1>2, <2>1
<1>3. ASSUME NEW ip \in Ips, NEW user \in Users, Arrive(ip, user)
      PROVE  \E s \in {attempt'[q].ip, attempt'[q].user} :
                /\ q \in Reached(s)'
                /\ \E t \in Nat : t = TimeOf(q, s)' /\ Alarm(s, t)'
  <2>1. /\ Len(attempt') = Len(attempt) + 1 /\ Len(attempt) \in Nat /\ UNCHANGED old
        /\ \A r \in 1..Len(attempt) : attempt'[r] = attempt[r]
        /\ ~attempt'[Len(attempt')].over
    BY <1>3, ArrivalStep DEF TypeOK
  <2>2. q \in 1..Len(attempt)  BY <2>1
  <2>3. \A s \in Actors : Moved(s)  BY <1>3, ReachedStays
  <2> QED  BY <1>1, <2>1, <2>2, <2>3
<1>4. ASSUME NEW r \in 1..Len(attempt), DetectFraud(r)
      PROVE  \E s \in {attempt'[q].ip, attempt'[q].user} :
                /\ q \in Reached(s)'
                /\ \E t \in Nat : t = TimeOf(q, s)' /\ Alarm(s, t)'
  <2>1. PICK g \in Attempts, hit \in BOOLEAN : Detected(r, g, hit)
    BY <1>4, DetectionStep
  <2>2. /\ Len(attempt') = Len(attempt) /\ attempt'[r] = g /\ UNCHANGED <<now, old>>
        /\ \A x \in 1..Len(attempt) : x # r => attempt'[x] = attempt[x]
        /\ g.ip = attempt[r].ip /\ g.user = attempt[r].user
    BY <2>1, DetectionRecords DEF Detected, Counting
  <2>3. \A s \in Actors : Moved(s)
    BY <2>1, ReachedMoves
  <2>4. CASE attempt[q].over
    <3>1. q \in 1..Len(attempt) /\ attempt'[q].ip = attempt[q].ip /\ attempt'[q].user = attempt[q].user
      BY <2>2
    <3> QED  BY <1>1, <2>2, <2>3, <2>4, <3>1
  <2>5. CASE ~attempt[q].over
    <3>1. q = r /\ hit /\ attempt[r].next \in {1, 2} /\ Count(Subject(r)) > Limit
      BY <2>1, <2>2, <2>5 DEF Detected
    <3>2. Subject(r) \in {attempt[r].ip, attempt[r].user}
      BY <3>1, SubjectIs
    <3>3. Subject(r) \in Actors  BY <3>2, AttemptTyped DEF Actors
    <3>4. PICK x \in Actors : x = Subject(r)  BY <3>3
    <3>5. r \notin Reached(x) /\ Reached(x)' = Reached(x) \cup {r} /\ TimeOf(r, x)' = now
          /\ \A y \in Reached(x) : TimeOf(y, x)' = TimeOf(y, x)
      <4>1. hit /\ x = Subject(r)  BY <3>1, <3>4
      <4>2. /\ hit /\ x = Subject(r) => /\ r \notin Reached(x) /\ Reached(x)' = Reached(x) \cup {r}
                                         /\ TimeOf(r, x)' = now
            /\ \A y \in Reached(x) : TimeOf(y, x)' = TimeOf(y, x)
        BY <2>1, ReachedMoves
      <4> QED  BY <4>1, <4>2
    <3>6. PICK t \in Nat : t = now  BY <3>3, ReachedFacts
    <3>7. CounterOf(x)  BY DEF CountersInv
    <3>8. Increment(x) /\ Count(x) > Limit  BY <2>1, <3>1, <3>4 DEF Detected
    <3>9. Alarm(x, t)'
      BY <2>2, <3>5, <3>6, <3>7, <3>8, AlarmRaised
    <3> QED  BY <2>2, <3>1, <3>2, <3>4, <3>5, <3>6, <3>9
  <2> QED  BY <2>4, <2>5
<1>5. Tick \/ UNCHANGED vars => UNCHANGED <<attempt, old>>
  BY DEF Tick, vars
<1>6. ASSUME NEW r \in 1..Len(attempt), EvalResent(r)
      PROVE  \E s \in {attempt'[q].ip, attempt'[q].user} :
                /\ q \in Reached(s)'
                /\ \E t \in Nat : t = TimeOf(q, s)' /\ Alarm(s, t)'
  <2>1. /\ Len(attempt') = Len(attempt) + 1 /\ Len(attempt) \in Nat /\ UNCHANGED old
        /\ \A x \in 1..Len(attempt) : attempt'[x] = attempt[x]
        /\ ~attempt'[Len(attempt')].over
    BY <1>6, RepeatStep
  <2>2. q \in 1..Len(attempt)  BY <2>1
  <2>3. PICK p \in Nat : p = Len(attempt) + 1  BY <2>1
  <2>4. \A s \in Actors : Moved(s)  BY <1>6, <2>3, ReachedRepeats
  <2> QED  BY <1>1, <2>1, <2>2, <2>4
<1> QED  BY <1>2, <1>3, <1>4, <1>5, <1>6 DEF Next

LEMMA AlarmsTell == TypeOK /\ AttemptsInv /\ AlarmsInv => NoFalseAlarm
<1> SUFFICES ASSUME TypeOK, AttemptsInv, AlarmsInv,
                    NEW r \in 1..Len(attempt), attempt[r].verdict = "denied"
             PROVE  \E s \in {attempt[r].ip, attempt[r].user} :
                       Cardinality(Within(s, TimeOf(r, s))) + Legacy(s, TimeOf(r, s)) > Limit
  BY DEF NoFalseAlarm
<1>1. attempt[r].over  BY DEF AttemptsInv
<1>2. PICK s \in {attempt[r].ip, attempt[r].user}, t \in Nat : t = TimeOf(r, s) /\ Alarm(s, t)
  BY <1>1 DEF AlarmsInv
<1> QED  BY <1>2 DEF Alarm

-----------------------------------------------------------------------------
(* The counters a subject has had follow each other, a window apart, and   *)
(* each lets at most the limit through, its opening attempt included.      *)

Opened(s, x) == {r \in Reached(s) : x =< TimeOf(r, s) /\ TimeOf(r, s) < x + Window /\ IsOpen(r)}
Later(s, x)  == {r \in Reached(s) : x < TimeOf(r, s) /\ TimeOf(r, s) < x + Window /\ IsOpen(r)}

PeriodsOf(s, P) ==
    /\ \A r \in Reached(s) : \E x \in P : x =< TimeOf(r, s) /\ TimeOf(r, s) < x + Window
    /\ \A x, y \in P : x < y => x + Window =< y
    /\ counter[s].expires = Never => P = {}
    /\ counter[s].expires # Never => Start(s) \in P /\ \A x \in P : x =< Start(s)
    /\ \A x \in P : Cardinality(Opened(s, x)) =< Limit /\ Cardinality(Later(s, x)) < Limit

PeriodsInv == \A s \in Actors : \E P \in SUBSET Nat : PeriodsOf(s, P)

LEMMA OpenedFinite ==
    ASSUME TypeOK, AttemptsInv, NEW s \in Actors, NEW x
    PROVE  /\ IsFiniteSet(Opened(s, x)) /\ IsFiniteSet(Later(s, x))
           /\ Cardinality(Opened(s, x)) \in Nat /\ Cardinality(Later(s, x)) \in Nat
<1>1. IsFiniteSet(Reached(s))  BY ReachedFacts
<1>2. IsFiniteSet(Opened(s, x)) /\ IsFiniteSet(Later(s, x))
  BY <1>1, FS_Subset DEF Opened, Later
<1> QED  BY <1>2, FS_CardinalityType

(* An attempt that is closed is never opened again.                        *)
LEMMA OpenShrinks ==
    ASSUME TypeOK, NEW r \in 1..Len(attempt), NEW g \in Attempts, NEW hit \in BOOLEAN, Detected(r, g, hit)
    PROVE  \A q \in 1..Len(attempt) : IsOpen(q)' => IsOpen(q)
<1>1. /\ attempt'[r] = g /\ \A q \in 1..Len(attempt) : q # r => attempt'[q] = attempt[q]
  BY DetectionRecords DEF Detected
<1>2. /\ g.verdict \in {"open", "passed"} => attempt[r].verdict = "open"
      /\ attempt[r].over => g.over
  BY DEF Detected
<1> QED  BY <1>1, <1>2 DEF IsOpen

LEMMA OpenedShrinks ==
    ASSUME TypeOK, AttemptsInv, NEW s \in Actors, NEW x \in Nat,
           Opened(s, x)' \subseteq Opened(s, x), Later(s, x)' \subseteq Later(s, x),
           Cardinality(Opened(s, x)) =< Limit, Cardinality(Later(s, x)) < Limit
    PROVE  Cardinality(Opened(s, x)') =< Limit /\ Cardinality(Later(s, x)') < Limit
<1>1. /\ IsFiniteSet(Opened(s, x)) /\ IsFiniteSet(Later(s, x))
      /\ Cardinality(Opened(s, x)) \in Nat /\ Cardinality(Later(s, x)) \in Nat
  BY OpenedFinite
<1>2. /\ Cardinality(Opened(s, x)') =< Cardinality(Opened(s, x)) /\ IsFiniteSet(Opened(s, x)')
      /\ Cardinality(Later(s, x)') =< Cardinality(Later(s, x)) /\ IsFiniteSet(Later(s, x)')
  BY <1>1, FS_Subset
<1>3. Cardinality(Opened(s, x)') \in Nat /\ Cardinality(Later(s, x)') \in Nat
  BY <1>2, FS_CardinalityType
<1> QED  BY <1>1, <1>2, <1>3, Bounds

LEMMA PeriodsStay ==
    ASSUME TypeOK, AttemptsInv, NEW s \in Actors, NEW P \in SUBSET Nat, PeriodsOf(s, P),
           counter'[s] = counter[s], Start(s)' = Start(s), Reached(s)' = Reached(s),
           \A q \in Reached(s) : TimeOf(q, s)' = TimeOf(q, s),
           \A q \in Reached(s) : IsOpen(q)' => IsOpen(q)
    PROVE  PeriodsOf(s, P)'
<1>1. ASSUME NEW x \in P
      PROVE  Cardinality(Opened(s, x)') =< Limit /\ Cardinality(Later(s, x)') < Limit
  <2>1. Opened(s, x)' \subseteq Opened(s, x) /\ Later(s, x)' \subseteq Later(s, x)
    BY DEF Opened, Later
  <2>2. Cardinality(Opened(s, x)) =< Limit /\ Cardinality(Later(s, x)) < Limit /\ x \in Nat
    BY DEF PeriodsOf
  <2> QED  BY <2>1, <2>2, OpenedShrinks
<1>2. \A r \in Reached(s)' : \E x \in P : x =< TimeOf(r, s)' /\ TimeOf(r, s)' < x + Window
  BY DEF PeriodsOf
<1>3. /\ counter'[s].expires = Never => P = {}
      /\ counter'[s].expires # Never => Start(s)' \in P /\ \A x \in P : x =< Start(s)'
      /\ \A x, y \in P : x < y => x + Window =< y
  BY DEF PeriodsOf
<1> QED  BY <1>1, <1>2, <1>3 DEF PeriodsOf

LEMMA PeriodsGrow ==
    ASSUME TypeOK, AttemptsInv, NEW s \in Actors, CounterOf(s), Increment(s), UNCHANGED <<now, old>>,
           NEW r, r \notin Reached(s), Reached(s)' = Reached(s) \cup {r}, TimeOf(r, s)' = now,
           \A q \in Reached(s) : TimeOf(q, s)' = TimeOf(q, s),
           \A q \in Reached(s) : IsOpen(q)' => IsOpen(q),
           IsOpen(r)' => Count(s) =< Limit,
           NEW P \in SUBSET Nat, PeriodsOf(s, P)
    PROVE  \E Q \in SUBSET Nat : PeriodsOf(s, Q)'
<1>r. /\ now \in Nat /\ IsFiniteSet(Reached(s)) /\ s \in Subjects
      /\ \A q \in Reached(s) : TimeOf(q, s) \in Nat /\ TimeOf(q, s) =< now
  BY ReachedFacts
<1>w. Window \in Nat /\ Window > 0 /\ Limit \in Nat /\ Limit > 0  BY Bounds
<1>c. /\ CounterOf(s)' /\ now - Window < Start(s)' /\ Start(s)' =< now /\ Start(s)' \in Nat
      /\ counter'[s].count = Count(s)
      /\ Start(s)' = Start(s) \/ (Start(s)' = now /\ \A q \in Reached(s) : TimeOf(q, s) < now)
      /\ counter[s].expires # Never => Start(s) + Window =< now \/ Start(s)' = Start(s)
  BY IncrementCounts
<1>i. counter'[s].expires # Never /\ Count(s) \in Nat  BY <1>r, IncrementTyped
<1>1. PICK b \in Nat : b = Start(s)'  BY <1>c
<1>2. b =< now /\ now < b + Window
  BY <1>1, <1>c, <1>r, <1>w
<1>3. ASSUME NEW x \in P PROVE x = b \/ x + Window =< b
  <2>1. counter[s].expires # Never  BY DEF PeriodsOf
  <2>2. Start(s) \in P /\ x =< Start(s) /\ x \in Nat /\ Start(s) \in Nat
    BY <2>1 DEF PeriodsOf
  <2>3. CASE b = Start(s)
    BY <2>2, <2>3 DEF PeriodsOf
  <2>4. CASE b # Start(s)
    <3>1. b = now /\ Start(s) + Window =< now  BY <1>1, <1>c, <2>1, <2>4
    <3> QED  BY <1>r, <1>w, <2>2, <3>1
  <2> QED  BY <2>3, <2>4
<1>4. b \notin P => \A q \in Reached(s) : TimeOf(q, s) < b
  <2> SUFFICES ASSUME b \notin P PROVE \A q \in Reached(s) : TimeOf(q, s) < b
    OBVIOUS
  <2>1. CASE counter[s].expires = Never
    BY <2>1 DEF CounterOf
  <2>2. CASE counter[s].expires # Never
    <3>1. b # Start(s)  BY <2>2 DEF PeriodsOf
    <3> QED  BY <1>1, <1>c, <3>1
  <2> QED  BY <2>1, <2>2
<1> DEFINE Q == P \cup {b}
<1>5. \A q \in Reached(s)' : \E x \in Q : x =< TimeOf(q, s)' /\ TimeOf(q, s)' < x + Window
  BY <1>2 DEF PeriodsOf
<1>6. ASSUME NEW x \in Q, NEW y \in Q, x < y PROVE x + Window =< y
  <2>1. x \in Nat /\ y \in Nat  OBVIOUS
  <2>2. CASE x \in P /\ y \in P
    BY <1>6, <2>2 DEF PeriodsOf
  <2>3. CASE y = b
    <3>1. x # b  BY <1>6, <2>1, <2>3
    <3> QED  BY <1>3, <2>3, <3>1
  <2>4. CASE x = b /\ y \in P
    <3>1. y = b \/ y + Window =< b  BY <1>3, <2>4
    <3> QED  BY <1>6, <1>w, <2>1, <2>4, <3>1
  <2> QED  BY <2>2, <2>3, <2>4
<1>7. Start(s)' \in Q /\ \A x \in Q : x =< Start(s)'
  <2>1. \A x \in P : x =< b
    <3> SUFFICES ASSUME NEW x \in P PROVE x =< b
      OBVIOUS
    <3>1. x \in Nat /\ (x = b \/ x + Window =< b)  BY <1>3
    <3> QED  BY <1>w, <3>1
  <2> QED  BY <1>1, <2>1
<1>8. ASSUME NEW x \in P, x # b
      PROVE  Cardinality(Opened(s, x)') =< Limit /\ Cardinality(Later(s, x)') < Limit
  <2>1. x \in Nat /\ ~(TimeOf(r, s)' < x + Window)
    BY <1>2, <1>3, <1>8, <1>r, <1>w
  <2>2. Opened(s, x)' \subseteq Opened(s, x) /\ Later(s, x)' \subseteq Later(s, x)
    BY <2>1 DEF Opened, Later
  <2> QED  BY <2>1, <2>2, OpenedShrinks DEF PeriodsOf
<1>9. ASSUME ~IsOpen(r)'
      PROVE  Cardinality(Opened(s, b)') =< Limit /\ Cardinality(Later(s, b)') < Limit
  <2>1. Opened(s, b)' \subseteq Opened(s, b) /\ Later(s, b)' \subseteq Later(s, b)
    BY <1>9 DEF Opened, Later
  <2>2. CASE b \in P
    BY <2>1, <2>2, OpenedShrinks DEF PeriodsOf
  <2>3. CASE b \notin P
    <3>1. \A q \in Reached(s) : ~(b =< TimeOf(q, s)) /\ ~(b < TimeOf(q, s))
      BY <1>4, <1>r, <2>3
    <3>2. Opened(s, b) = {} /\ Later(s, b) = {}
      BY <3>1 DEF Opened, Later
    <3>3. Opened(s, b)' = {} /\ Later(s, b)' = {}
      BY <2>1, <3>2
    <3> QED  BY <3>3, <1>w, FS_EmptySet
  <2> QED  BY <2>2, <2>3
<1>10. ASSUME IsOpen(r)'
       PROVE  Cardinality(Opened(s, b)') =< Limit /\ Cardinality(Later(s, b)') < Limit
  <2>1. Since(s)' = {q \in Reached(s)' : TimeOf(q, s)' >= b}
    BY <1>1 DEF Since
  <2>2. \A q \in Reached(s)' : TimeOf(q, s)' \in Nat
    BY <1>r
  <2>3. PICK q0 \in Reached(s)' : TimeOf(q0, s)' = b
    BY <1>1, <1>c, <1>i DEF CounterOf
  <2>4. q0 \in Since(s)'  BY <2>1, <2>3
  <2>5. Opened(s, b)' \subseteq Since(s)'
    BY <2>1, <2>2 DEF Opened
  <2>6. Later(s, b)' \subseteq Since(s)' \ {q0}
    <3>1. \A q \in Reached(s)' : b < TimeOf(q, s)' => TimeOf(q, s)' >= b /\ q # q0
      BY <2>2, <2>3
    <3>2. \A q \in Later(s, b)' : q \in Reached(s)' /\ b < TimeOf(q, s)'
      BY DEF Later
    <3> QED  BY <2>1, <3>1, <3>2
  <2>7. IsFiniteSet(Since(s)')
    <3>1. IsFiniteSet(Reached(s)')  BY <1>r, FS_AddElement
    <3> QED  BY <2>1, <3>1, FS_Subset
  <2>8. Cardinality(Since(s)') \in Nat /\ Cardinality(Since(s)') =< Limit
    <3>1. Weight(s)' \in Nat
      <4>1. Weight(s)' \in {OldCount, 0}  BY DEF Weight
      <4> QED  BY <4>1, Bounds
    <3>2. Cardinality(Since(s)') \in Nat  BY <2>7, FS_CardinalityType
    <3>3. Count(s) = Cardinality(Since(s)') + Weight(s)'
      BY <1>c, <1>i DEF CounterOf
    <3> QED  BY <1>10, <1>i, <1>w, <3>1, <3>2, <3>3
  <2>9. Cardinality(Since(s)' \ {q0}) = Cardinality(Since(s)') - 1 /\ IsFiniteSet(Since(s)' \ {q0})
    BY <2>4, <2>7, FS_RemoveElement
  <2>10. /\ Cardinality(Opened(s, b)') =< Cardinality(Since(s)') /\ IsFiniteSet(Opened(s, b)')
         /\ Cardinality(Later(s, b)') =< Cardinality(Since(s)' \ {q0}) /\ IsFiniteSet(Later(s, b)')
    BY <2>5, <2>6, <2>7, <2>9, FS_Subset
  <2>11. Cardinality(Opened(s, b)') \in Nat /\ Cardinality(Later(s, b)') \in Nat
    BY <2>10, FS_CardinalityType
  <2> QED  BY <1>w, <2>8, <2>9, <2>10, <2>11
<1>11. \A x \in Q : Cardinality(Opened(s, x)') =< Limit /\ Cardinality(Later(s, x)') < Limit
  BY <1>8, <1>9, <1>10
<1>12. PeriodsOf(s, Q)'
  <2> HIDE DEF Q
  <2> QED  BY <1>i, <1>5, <1>6, <1>7, <1>11 DEF PeriodsOf
<1> QED  BY <1>12

LEMMA PeriodsKept == TypeOK /\ AttemptsInv /\ CountersInv /\ PeriodsInv /\ [Next]_vars => PeriodsInv'
<1> SUFFICES ASSUME TypeOK, AttemptsInv, CountersInv, PeriodsInv, [Next]_vars, NEW s \in Actors
             PROVE  \E P \in SUBSET Nat : PeriodsOf(s, P)'
  BY DEF PeriodsInv
<1>0. PICK P \in SUBSET Nat : PeriodsOf(s, P)
  BY DEF PeriodsInv
<1>s. s \in Subjects /\ CounterOf(s) /\ Reached(s) \subseteq 1..Len(attempt)
  BY ReachedFacts DEF CountersInv
<1>1. ASSUME (\E ip \in Ips, user \in Users : Arrive(ip, user)) \/ Tick \/ UNCHANGED vars
      PROVE  PeriodsOf(s, P)'
  <2>1. /\ (\E ip \in Ips, user \in Users : Arrive(ip, user)) \/ UNCHANGED attempt
        /\ UNCHANGED <<counter, old>>
    BY <1>1 DEF Arrive, Tick, vars
  <2>2. \A q \in 1..Len(attempt) : attempt'[q] = attempt[q]
    BY <2>1, ArrivalStep
  <2>3. \A q \in Reached(s) : IsOpen(q)' => IsOpen(q)
    BY <1>s, <2>2 DEF IsOpen
  <2>4. Start(s)' = Start(s)  BY <2>1 DEF Start
  <2> QED  BY <1>0, <2>1, <2>3, <2>4, ReachedStays, PeriodsStay
<1>2. ASSUME NEW r \in 1..Len(attempt), DetectFraud(r) PROVE \E Q \in SUBSET Nat : PeriodsOf(s, Q)'
  <2>1. PICK g \in Attempts, hit \in BOOLEAN : Detected(r, g, hit)
    BY <1>2, DetectionStep
  <2>2. \A q \in 1..Len(attempt) : IsOpen(q)' => IsOpen(q)
    BY <2>1, OpenShrinks
  <2>3. \A q \in Reached(s) : IsOpen(q)' => IsOpen(q)
    BY <1>s, <2>2
  <2>4. CASE hit /\ s = Subject(r)
    <3>1. Increment(s) /\ UNCHANGED <<now, old>>  BY <2>1, <2>4 DEF Detected
    <3>2. /\ r \notin Reached(s) /\ Reached(s)' = Reached(s) \cup {r} /\ TimeOf(r, s)' = now
          /\ \A q \in Reached(s) : TimeOf(q, s)' = TimeOf(q, s)
      BY <2>1, <2>4, ReachedMoves
    <3>3. IsOpen(r)' => Count(s) =< Limit
      <4>1. attempt'[r] = g  BY <2>1, DetectionRecords DEF Detected
      <4>2. attempt[r].next \in {1, 2}
        <5>1. s # Event /\ attempt[r].next \in 1..3  BY <2>1, ReachedFacts DEF Detected
        <5> QED  BY <2>4, <5>1, SubjectIs
      <4>3. Count(s) > Limit => g.over \/ g.verdict = "failed"
        BY <2>1, <2>4, <4>2 DEF Detected
      <4>4. Count(s) \in Nat /\ Limit \in Nat  BY <1>s, <3>1, IncrementTyped, Bounds
      <4> QED  BY <4>1, <4>3, <4>4 DEF IsOpen
    <3> QED  BY <1>0, <1>s, <2>3, <3>1, <3>2, <3>3, PeriodsGrow
  <2>5. CASE ~(hit /\ s = Subject(r))
    <3>1. /\ counter'[s] = counter[s] /\ Reached(s)' = Reached(s) /\ Start(s)' = Start(s)
          /\ \A q \in Reached(s) : TimeOf(q, s)' = TimeOf(q, s)
      BY <2>1, <2>5, OthersStay
    <3>2. PeriodsOf(s, P)'
      BY <1>0, <2>3, <3>1, PeriodsStay
    <3> QED  BY <3>2
  <2> QED  BY <2>4, <2>5
<1>3. ASSUME NEW r \in 1..Len(attempt), EvalResent(r) PROVE \E Q \in SUBSET Nat : PeriodsOf(s, Q)'
  <2>1. Increment(Subject(r)) /\ UNCHANGED <<now, old>> /\ Len(attempt) \in Nat
    BY <1>3, RepeatStep
  <2>2. PICK p \in Nat : p = Len(attempt) + 1  BY <2>1
  <2>3. CASE s = Subject(r)
    BY <1>0, <1>3, <1>s, <2>1, <2>2, <2>3, ReachedRepeats, PeriodsGrow
  <2>4. CASE s # Subject(r)
    <3>1. /\ counter'[s] = counter[s] /\ Reached(s)' = Reached(s)
          /\ \A q \in Reached(s) : TimeOf(q, s)' = TimeOf(q, s) /\ (IsOpen(q)' => IsOpen(q))
      BY <1>3, <2>2, <2>4, ReachedRepeats
    <3>2. Start(s)' = Start(s)  BY <3>1 DEF Start
    <3>3. PeriodsOf(s, P)'  BY <1>0, <3>1, <3>2, PeriodsStay
    <3> QED  BY <3>3
  <2> QED  BY <2>3, <2>4
<1> QED  BY <1>1, <1>2, <1>3 DEF Next

(* A window meets at most two periods, and the first without its opening.  *)
LEMMA WindowOfPeriods ==
    ASSUME TypeOK, AttemptsInv, NEW s \in Actors, NEW t \in Nat, NEW P \in SUBSET Nat, PeriodsOf(s, P)
    PROVE  Cardinality(Passed(s, t)) < 2 * Limit
<1>r. \A r \in Reached(s) : TimeOf(r, s) \in Nat  BY ReachedFacts
<1>w. Window \in Nat /\ Window > 0 /\ Limit \in Nat /\ Limit > 0  BY Bounds
<1>1. \A r \in Passed(s, t) : /\ r \in Reached(s) /\ IsOpen(r)
                              /\ t - Window < TimeOf(r, s) /\ TimeOf(r, s) =< t
  BY WithinReached DEF Passed, IsOpen, AttemptsInv, Reached
<1>2. \A r \in Passed(s, t) : \E x \in P : r \in Opened(s, x)
  BY <1>1 DEF PeriodsOf, Opened
<1>3. CASE Passed(s, t) = {}
  BY <1>3, <1>w, FS_EmptySet
<1>4. CASE \E x \in P : Passed(s, t) \subseteq Opened(s, x)
  <2>1. PICK x \in P : Passed(s, t) \subseteq Opened(s, x)  BY <1>4
  <2>2. /\ IsFiniteSet(Opened(s, x)) /\ Cardinality(Opened(s, x)) \in Nat
        /\ Cardinality(Opened(s, x)) =< Limit
    BY OpenedFinite DEF PeriodsOf
  <2>3. IsFiniteSet(Passed(s, t)) /\ Cardinality(Passed(s, t)) =< Cardinality(Opened(s, x))
    BY <2>1, <2>2, FS_Subset
  <2>4. Cardinality(Passed(s, t)) \in Nat  BY <2>3, FS_CardinalityType
  <2> QED  BY <1>w, <2>2, <2>3, <2>4
<1>5. ASSUME Passed(s, t) # {}, \A x \in P : ~(Passed(s, t) \subseteq Opened(s, x))
      PROVE  Cardinality(Passed(s, t)) < 2 * Limit
  <2>1. PICK x \in P, y \in P, r1 \in Passed(s, t), r2 \in Passed(s, t) :
           x < y /\ r1 \in Opened(s, x) /\ r2 \in Opened(s, y)
    <3>1. PICK r \in Passed(s, t) : TRUE  BY <1>5
    <3>2. PICK z \in P : r \in Opened(s, z)  BY <1>2
    <3>3. PICK q \in Passed(s, t) : q \notin Opened(s, z)  BY <1>5
    <3>4. PICK u \in P : q \in Opened(s, u)  BY <1>2
    <3>5. z < u \/ u < z
      <4>1. z \in Nat /\ u \in Nat /\ z # u  BY <3>3, <3>4
      <4> QED  BY <4>1
    <3> QED  BY <3>2, <3>4, <3>5
  <2>2. x \in Nat /\ y \in Nat /\ x + Window =< y
    BY <2>1 DEF PeriodsOf
  <2>3. /\ TimeOf(r1, s) \in Nat /\ t - Window < TimeOf(r1, s) /\ TimeOf(r1, s) < x + Window
        /\ TimeOf(r2, s) \in Nat /\ y =< TimeOf(r2, s) /\ TimeOf(r2, s) =< t
    BY <1>1, <1>r, <2>1 DEF Opened
  <2>4. x =< t - Window /\ y =< t
    BY <1>w, <2>2, <2>3
  <2>5. ASSUME NEW r \in Passed(s, t) PROVE r \in Later(s, x) \/ r \in Opened(s, y)
    <3>1. PICK z \in P : r \in Opened(s, z)  BY <1>2
    <3>2. /\ TimeOf(r, s) \in Nat /\ t - Window < TimeOf(r, s) /\ TimeOf(r, s) =< t
          /\ z =< TimeOf(r, s) /\ TimeOf(r, s) < z + Window /\ z \in Nat
      BY <1>1, <1>r, <3>1 DEF Opened
    <3>3. CASE z = x
      BY <1>w, <2>2, <2>4, <3>1, <3>2, <3>3 DEF Opened, Later
    <3>4. CASE z = y
      BY <3>1, <3>4
    <3>5. CASE z < x
      <4>1. z + Window =< x  BY <3>5 DEF PeriodsOf
      <4> QED  BY <1>w, <2>2, <2>4, <3>2, <4>1
    <3>6. CASE x < z /\ z < y
      <4>1. x + Window =< z /\ z + Window =< y  BY <3>6 DEF PeriodsOf
      <4> QED  BY <1>w, <2>2, <2>3, <2>4, <3>2, <4>1
    <3>7. CASE y < z
      <4>1. y + Window =< z  BY <3>7 DEF PeriodsOf
      <4> QED  BY <1>w, <2>2, <2>3, <2>4, <3>2, <4>1
    <3> QED  BY <2>2, <3>2, <3>3, <3>4, <3>5, <3>6, <3>7
  <2>6. /\ IsFiniteSet(Later(s, x)) /\ IsFiniteSet(Opened(s, y))
        /\ Cardinality(Later(s, x)) \in Nat /\ Cardinality(Opened(s, y)) \in Nat
        /\ Cardinality(Later(s, x)) < Limit /\ Cardinality(Opened(s, y)) =< Limit
    BY OpenedFinite DEF PeriodsOf
  <2> DEFINE both == Later(s, x) \cup Opened(s, y)
             meet == Later(s, x) \cap Opened(s, y)
  <2>7. IsFiniteSet(meet) /\ Cardinality(meet) \in Nat
    BY <2>6, FS_Subset, FS_CardinalityType
  <2>8. IsFiniteSet(both) /\ Cardinality(both) = Cardinality(Later(s, x)) + Cardinality(Opened(s, y)) - Cardinality(meet)
    BY <2>6, FS_Union
  <2>9. Passed(s, t) \subseteq both  BY <2>5
  <2> HIDE DEF both, meet
  <2>10. IsFiniteSet(Passed(s, t)) /\ Cardinality(Passed(s, t)) =< Cardinality(both)
    BY <2>8, <2>9, FS_Subset
  <2>11. Cardinality(Passed(s, t)) \in Nat  BY <2>10, FS_CardinalityType
  <2> QED  BY <1>w, <2>6, <2>7, <2>8, <2>10, <2>11
<1> QED  BY <1>3, <1>4, <1>5

-----------------------------------------------------------------------------
(* The theorems.                                                           *)

VelocityInv == TypeOK /\ AttemptsInv /\ CountersInv /\ AlarmsInv /\ PeriodsInv

LEMMA VelocityStart == Init => VelocityInv
<1> SUFFICES ASSUME Init PROVE VelocityInv
  OBVIOUS
<1>1. TypeOK  BY TypesStart
<1>2. 1..Len(attempt) = {}  BY DEF Init
<1>3. AttemptsInv /\ AlarmsInv  BY <1>2 DEF AttemptsInv, AlarmsInv
<1>4. \A s \in Actors : Reached(s) = {} /\ s \in Subjects /\ counter[s].expires = Never
  BY <1>2 DEF Init, Reached, Actors, Subjects, NoCounter
<1>5. CountersInv  BY <1>4 DEF CountersInv, CounterOf
<1>6. PeriodsInv
  <2>1. \A s \in Actors : PeriodsOf(s, {})  BY <1>4 DEF PeriodsOf
  <2>2. {} \in SUBSET Nat  OBVIOUS
  <2> QED  BY <2>1, <2>2 DEF PeriodsInv
<1> QED  BY <1>1, <1>3, <1>5, <1>6 DEF VelocityInv

LEMMA VelocityInductive == Spec => []VelocityInv
<1>1. VelocityInv /\ [Next]_vars => VelocityInv'
  BY TypesKept, AttemptsKept, CountersKept, AlarmsKept, PeriodsKept DEF VelocityInv
<1> QED  BY <1>1, VelocityStart, PTL DEF Spec

(* Counters and attempts keep their types, and a counter without an expiry *)
(* is one nobody has met (fraud.service 37-41).                            *)
THEOREM VelocityTypes == Spec => []TypeOK
<1>1. VelocityInv => TypeOK  BY DEF VelocityInv
<1> QED  BY <1>1, VelocityInductive, PTL

(* Whatever the limit and the window, nobody is denied for what others do  *)
(* or for attempts long past (fraud.service 37-44).                        *)
THEOREM OnlyOwnAttemptsDeny == Spec => []NoFalseAlarm
<1>1. VelocityInv => NoFalseAlarm  BY AlarmsTell DEF VelocityInv
<1> QED  BY <1>1, VelocityInductive, PTL

(* Whatever interleaves and fails, a window lets less than twice the limit *)
(* of an address or a user through (fraud.service 38-44).                  *)
THEOREM WindowBounds == Spec => []BoundedPass
<1>1. VelocityInv => BoundedPass
  <2> SUFFICES ASSUME VelocityInv, NEW s \in Actors, NEW t \in 0..now
               PROVE  Cardinality(Passed(s, t)) < 2 * Limit
    BY DEF BoundedPass, Actors
  <2>1. t \in Nat  BY Bounds DEF VelocityInv, TypeOK
  <2>2. PICK P \in SUBSET Nat : PeriodsOf(s, P)  BY DEF VelocityInv, PeriodsInv
  <2> QED  BY <2>1, <2>2, WindowOfPeriods DEF VelocityInv
<1> QED  BY <1>1, VelocityInductive, PTL
=============================================================================
