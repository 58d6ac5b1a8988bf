--------------------------- MODULE LifecycleProofs ---------------------------
(***************************************************************************)
(* Proofs about ProcessLifecycle for any requests, probes and tasks: the   *)
(* connections outlive every client that waits and every task that stop()  *)
(* waits for, and a process that takes requests has all its tasks alive.   *)
(***************************************************************************)
EXTENDS ProcessLifecycle, TLAPS

(* A client waits only while the server is open, or drains, and only for   *)
(* a handler that is at work.                                              *)
ServedBeforeStop ==
    /\ clients # {} => closing \in {"no", "drain"}
    /\ \A r \in Requests : r \in clients => request[r] = "open"
    /\ \A p \in Probes : p \in clients => Open(p)

(* The tasks that stop() waits for were launched by a start() that had     *)
(* succeeded, so no other launch touches them; they have ended before the  *)
(* connections are let go.                                                 *)
AwaitedEnd ==
    /\ awaited # {} => start = "done"
    /\ closing \in {"no", "drain"} => awaited = {}
    /\ closing \in {"disconnect", "redis"} => \A t \in awaited : task[t] = "ended"

(* What is disconnected, and when.                                         *)
LetGo ==
    /\ ~dbOpen => closing = "redis"
    /\ link["redis"] = "end" => closing = "redis"

(* Until stop() has run, a start() that has succeeded is in force; one     *)
(* that has not has launched nothing.                                      *)
TasksAlive ==
    /\ start # "done" => \A t \in Tasks : task[t] = "none"
    /\ listening => start = "done"
    /\ start = "done" /\ closing \in {"no", "drain"} =>
          running /\ \A t \in Tasks : task[t] \in {"work", "pause"}

IInv == TypeOK /\ ServedBeforeStop /\ AwaitedEnd /\ LetGo /\ TasksAlive

LEMMA InitHolds == Init => IInv
<1> SUFFICES ASSUME Init
             PROVE  IInv
  OBVIOUS
<1>1. check \in [Probes -> Checks]
  BY DEF Init, Asked, Checks
<1>2. TypeOK
  BY <1>1 DEF Init, TypeOK
<1>3. ServedBeforeStop /\ AwaitedEnd /\ LetGo /\ TasksAlive
  BY DEF Init, ServedBeforeStop, AwaitedEnd, LetGo, TasksAlive, Links, Open
<1> QED
  BY <1>2, <1>3 DEF IInv

LEMMA NextKeeps == IInv /\ [Next]_vars => IInv'
<1> SUFFICES ASSUME IInv, [Next]_vars
             PROVE  IInv'
  OBVIOUS
<1> USE DEF IInv, TypeOK, ServedBeforeStop, AwaitedEnd, LetGo, TasksAlive, Open,
            Alive, conns, service, serving, shutdown
<1>1. ASSUME NEW l \in Links, LinkChanges(l)
      PROVE  IInv'
  BY <1>1 DEF LinkChanges
<1>2. CASE DbChanges
  BY <1>2 DEF DbChanges
<1>3. ASSUME NEW w \in Links \cup {"db"}, Connects(w)
      PROVE  IInv'
  BY <1>3 DEF Connects
<1>4. CASE StartFails
  BY <1>4 DEF StartFails
<1>5. CASE Launch
  BY <1>5 DEF Launch
<1>6. CASE Listen
  BY <1>6 DEF Listen
<1>7. CASE ListenFails \/ CloseFails \/ ForceExit
  BY <1>7 DEF ListenFails, CloseFails, ForceExit, Exit
<1>8. ASSUME NEW t \in Tasks, WorkDone(t) \/ WorkFails(t) \/ Loop(t)
      PROVE  IInv'
  BY <1>8 DEF WorkDone, WorkFails, CaughtInside, Loop
<1>9. ASSUME NEW r \in Requests, Accept(r) \/ Answer(r)
      PROVE  IInv'
  BY <1>9, CallersAssumption DEF Accept, Answer, Accepting
<1>10. ASSUME NEW p \in Probes, Ask(p)
       PROVE  IInv'
  <2>1. Asked \in Checks
    BY DEF Asked, Checks
  <2> QED
    BY <1>10, <2>1, CallersAssumption DEF Ask, Accepting
<1>11. ASSUME NEW p \in Probes, Verdict(p)
       PROVE  IInv'
  <2>1. PICK v \in {"ok", "unavailable"} : probe' = [probe EXCEPT ![p] = v]
    BY <1>11 DEF Verdict
  <2>2. clients' = clients \ {p} /\ UNCHANGED <<conns, service, listening, request, check, shutdown>>
    BY <1>11 DEF Verdict
  <2> QED
    BY <2>1, <2>2
<1>12. ASSUME NEW p \in Probes, NEW d \in Deps, DepAnswers(p, d) \/ DepFails(p, d)
       PROVE  IInv'
  <2>1. check[p] \in Checks
    OBVIOUS
  <2>2. PICK s \in {"answered", "failed"} : check' = [check EXCEPT ![p] = [check[p] EXCEPT ![d] = s]]
    BY <1>12 DEF DepAnswers, DepFails
  <2>3. [check[p] EXCEPT ![d] = s] \in Checks
    BY <2>1, <2>2 DEF Checks
  <2>4. check' \in [Probes -> Checks]
    BY <2>2, <2>3
  <2>5. UNCHANGED <<conns, service, listening, request, probe, clients, shutdown>>
    BY <1>12 DEF DepAnswers, DepFails
  <2> QED
    BY <2>4, <2>5
<1>13. CASE Signal
  BY <1>13 DEF Signal
<1>14. CASE Stop
  BY <1>14 DEF Stop, Drained, Links
<1>15. CASE Closed
  BY <1>15 DEF Closed, Settled
<1>16. CASE DisconnectDb
  BY <1>16 DEF DisconnectDb
<1>17. CASE DisconnectRedis
  BY <1>17 DEF DisconnectRedis, Links
<1>18. CASE UNCHANGED vars
  BY <1>18 DEF vars
<1>19. ASSUME NEW c \in Requests \cup Probes, HangUp(c)
       PROVE  IInv'
  BY <1>19 DEF HangUp
<1> QED
  BY <1>1, <1>2, <1>3, <1>4, <1>5, <1>6, <1>7, <1>8, <1>9, <1>10, <1>11, <1>12,
     <1>13, <1>14, <1>15, <1>16, <1>17, <1>18, <1>19 DEF Next

LEMMA LifecycleInvariance == Spec => []IInv
  BY InitHolds, NextKeeps, PTL DEF Spec

(* Every variable stays within its type.                                   *)
THEOREM LifecycleTypes == Spec => []TypeOK
<1>1. IInv => TypeOK
  BY DEF IInv
<1> QED
  BY <1>1, LifecycleInvariance, PTL

(* Whoever waits for an answer has it, and the tasks that stop() waits for *)
(* have ended their rounds, before PostgreSQL and Redis are let go, for    *)
(* any number of clients that stay and of clients that hang up.            *)
THEOREM ShutdownDrains == Spec => []DrainsFirst
<1>1. IInv => DrainsFirst
  BY DEF IInv, ServedBeforeStop, AwaitedEnd, LetGo, DrainsFirst
<1> QED
  BY <1>1, LifecycleInvariance, PTL

(* A process that takes requests has all its tasks alive.                  *)
THEOREM TasksStayAlive == Spec => []TasksServe
<1>1. IInv => TasksServe
  BY DEF IInv, TasksAlive, TasksServe, Accepting
<1> QED
  BY <1>1, LifecycleInvariance, PTL
=============================================================================
