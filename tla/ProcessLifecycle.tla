--------------------------- MODULE ProcessLifecycle ---------------------------
(***************************************************************************)
(* One API process from its start to its exit: PubSubService.start and     *)
(* stop with the three background tasks, the server, the health probes,    *)
(* and setupGracefulShutdown with its 30 second limit.                     *)
(*                                                                         *)
(* The connections come and go on their own; ioredis reconnects for ever   *)
(* and ends a connection only when it is told to disconnect.  Fastify is   *)
(* modelled from how index.ts uses it: listen() first awaits the onReady   *)
(* hook, close() first refuses new requests and waits until no client has  *)
(* a connection open for one, then runs the onClose hook, whether or not   *)
(* the server is listening yet.  It does not wait for handlers: one whose  *)
(* client has hung up runs on behind it.                                   *)
(***************************************************************************)
EXTENDS FiniteSets

CONSTANTS
    Requests,   \* requests that one run of the process may get
    Probes,     \* GET /health/ready and GET /health among them
    Tasks       \* consumeLoop and the two periodic tasks

ASSUME CallersAssumption == Requests \cap Probes = {}

Links == {"redis", "reader"}
Deps  == {"db", "redis"}

VARIABLES
    link,       \* status of the two Redis connections
    dbOpen,     \* the Prisma client is not disconnected
    dbUp,       \* PostgreSQL answers
    start,      \* how far PubSubService.start is
    waiting,    \* what its Promise.all still waits for
    running,    \* PubSubService.running
    task,       \* where each background task is
    listening,
    request,    \* what the handler of each request is doing
    probe,      \* the path of each probe at work, or its last verdict
    check,      \* its two checks
    clients,    \* requests and probes whose client still waits for the answer
    closing,    \* how far the shutdown is
    awaited,    \* the tasks that stop() waits for
    exit        \* whether and how the process has ended

conns    == <<link, dbOpen, dbUp>>
service  == <<start, waiting, running, task>>
serving  == <<listening, request, probe, check, clients>>
shutdown == <<closing, awaited, exit>>
vars     == <<conns, service, serving, shutdown>>

Checks == [Deps -> {"asked", "answered", "failed"}]
Asked  == [d \in Deps |-> "asked"]

TypeOK ==
    /\ link \in [Links -> {"connecting", "ready", "end"}]
    /\ dbOpen \in BOOLEAN /\ dbUp \in BOOLEAN
    /\ start \in {"waiting", "group", "done", "failed"}
    /\ waiting \subseteq Links \cup {"db"}
    /\ running \in BOOLEAN
    /\ task \in [Tasks -> {"none", "work", "pause", "ended"}]
    /\ listening \in BOOLEAN
    /\ request \in [Requests -> {"none", "open", "over"}]
    /\ probe \in [Probes -> {"none", "ready", "health", "ok", "unavailable"}]
    /\ check \in [Probes -> Checks]
    /\ clients \subseteq Requests \cup Probes
    /\ closing \in {"no", "drain", "stop", "disconnect", "redis"}
    /\ awaited \in SUBSET Tasks
    /\ exit \in {"no", "clean", "failure"}

Init ==
    /\ link = [l \in Links |-> "connecting"]
    /\ dbOpen = TRUE /\ dbUp \in BOOLEAN
    /\ start = "waiting"
    /\ waiting = Links \cup {"db"}
    /\ running = FALSE
    /\ task = [t \in Tasks |-> "none"]
    /\ listening = FALSE
    /\ request = [r \in Requests |-> "none"]
    /\ probe = [p \in Probes |-> "none"]
    /\ check = [p \in Probes |-> Asked]
    /\ clients = {}
    /\ closing = "no"
    /\ awaited = {}
    /\ exit = "no"

(* process.exit: nothing of the process runs after it.                     *)
Alive == exit = "no"
Exit  == /\ exit' = "failure"
         /\ UNCHANGED <<conns, service, serving, closing, awaited>>

-----------------------------------------------------------------------------
(* The outside world.                                                      *)

LinkChanges(l) ==
    /\ Alive
    /\ link[l] # "end"
    /\ link' = [link EXCEPT ![l] = IF @ = "ready" THEN "connecting" ELSE "ready"]
    /\ UNCHANGED <<dbOpen, dbUp, service, serving, shutdown>>

DbChanges ==
    /\ Alive
    /\ dbUp' = ~dbUp
    /\ UNCHANGED <<link, dbOpen, service, serving, shutdown>>

Up(d) == IF d = "db" THEN dbUp ELSE link[d] = "ready"

-----------------------------------------------------------------------------
(* PubSubService.start, the onReady hook.                                  *)

(* waitForRedisReady and $connect; each settles once, in any order.        *)
Connects(w) ==
    /\ Alive
    /\ start = "waiting" /\ w \in waiting
    /\ Up(w)
    /\ waiting' = waiting \ {w}
    /\ start' = IF waiting' = {} THEN "group" ELSE "waiting"
    /\ UNCHANGED <<conns, running, task, serving, shutdown>>

(* The connection ended or did not come in time, or XGROUP CREATE failed   *)
(* otherwise than with BUSYGROUP.                                          *)
StartFails ==
    /\ Alive
    /\ \/ start = "waiting" /\ \E w \in waiting : ~Up(w)
       \/ start = "group"
    /\ start' = "failed"
    /\ UNCHANGED <<conns, waiting, running, task, serving, shutdown>>

(* start() does not look whether stop() has been called meanwhile.         *)
Launch ==
    /\ Alive
    /\ start = "group"
    /\ Up("redis")
    /\ start' = "done"
    /\ running' = TRUE
    /\ task' = [t \in Tasks |-> "work"]
    /\ UNCHANGED <<conns, waiting, serving, shutdown>>

Listen ==
    /\ Alive
    /\ start = "done" /\ ~listening
    /\ closing = "no"
    /\ listening' = TRUE
    /\ UNCHANGED <<conns, service, request, probe, check, clients, shutdown>>

(* The port is taken, the server is closed already, or start() failed.     *)
ListenFails ==
    /\ Alive
    /\ start \in {"done", "failed"} /\ ~listening
    /\ Exit

-----------------------------------------------------------------------------
(* The background tasks: consumeLoop and periodic.                         *)

Escapes      == "ended"        \* slip: an error of the work leaves the loop
CaughtInside == "pause"

WorkDone(t) ==
    /\ Alive
    /\ task[t] = "work"
    /\ task' = [task EXCEPT ![t] = "pause"]
    /\ UNCHANGED <<conns, start, waiting, running, serving, shutdown>>

WorkFails(t) ==
    /\ Alive
    /\ task[t] = "work"
    /\ ~Up("db") \/ ~Up("redis") \/ ~Up("reader")
    /\ task' = [task EXCEPT ![t] = CaughtInside]
    /\ UNCHANGED <<conns, start, waiting, running, serving, shutdown>>

(* The pause ends in time or by the abort; then the loop looks at running. *)
Loop(t) ==
    /\ Alive
    /\ task[t] = "pause"
    /\ task' = [task EXCEPT ![t] = IF running THEN "work" ELSE "ended"]
    /\ UNCHANGED <<conns, start, waiting, running, serving, shutdown>>

-----------------------------------------------------------------------------
(* Requests and probes.                                                    *)

Accepting == Alive /\ listening /\ closing = "no"

Accept(r) ==
    /\ Accepting
    /\ request[r] = "none"
    /\ request' = [request EXCEPT ![r] = "open"]
    /\ clients' = clients \cup {r}
    /\ UNCHANGED <<conns, service, listening, probe, check, shutdown>>

(* The handler ends; its answer reaches a client that still waits for it.  *)
Answer(r) ==
    /\ Alive
    /\ request[r] = "open"
    /\ request' = [request EXCEPT ![r] = "over"]
    /\ clients' = clients \ {r}
    /\ UNCHANGED <<conns, service, listening, probe, check, shutdown>>

(* A client, a proxy or the kubelet closes the connection before it has    *)
(* its answer.  No code of the API looks for that: the handler goes on.    *)
HangUp(c) ==
    /\ Alive
    /\ c \in clients
    /\ clients' = clients \ {c}
    /\ UNCHANGED <<conns, service, listening, request, probe, check, shutdown>>

Open(p) == probe[p] \in {"ready", "health"}

(* Of a check that is still under way from p's last probe nothing is kept: *)
(* nothing waits for it.                                                   *)
Ask(p) ==
    /\ Accepting
    /\ ~Open(p)
    /\ \E path \in {"ready", "health"} : probe' = [probe EXCEPT ![p] = path]
    /\ check' = [check EXCEPT ![p] = Asked]
    /\ clients' = clients \cup {p}
    /\ UNCHANGED <<conns, service, listening, request, shutdown>>

(* A check may be under way when the verdict has been given.               *)
UnderWay(p, d) == probe[p] # "none" /\ check[p][d] = "asked"

DepAnswers(p, d) ==
    /\ Alive
    /\ UnderWay(p, d)
    /\ Up(d)
    /\ check' = [check EXCEPT ![p][d] = "answered"]
    /\ UNCHANGED <<conns, service, listening, request, probe, clients, shutdown>>

Unbounded(d) == d = "redis"     \* slip: only ioredis gives up by itself
Bounded(d)   == TRUE

(* It fails, or bounded()'s two seconds are over and nothing waits for it. *)
DepFails(p, d) ==
    /\ Alive
    /\ UnderWay(p, d)
    /\ Bounded(d)
    /\ check' = [check EXCEPT ![p][d] = "failed"]
    /\ UNCHANGED <<conns, service, listening, request, probe, clients, shutdown>>

(* Promise.all: /health/ready is refused at the first failure, while the   *)
(* other check goes on; /health waits for both and may find the heap       *)
(* nearly full.                                                            *)
Verdict(p) ==
    /\ Alive
    /\ Open(p)
    /\ LET all(s)  == \A d \in Deps : check[p][d] = s
           some(s) == \E d \in Deps : check[p][d] = s
       IN  \/ /\ all("answered")
              /\ probe' = [probe EXCEPT ![p] = "ok"]
           \/ /\ probe[p] = "ready" /\ some("failed")
              /\ probe' = [probe EXCEPT ![p] = "unavailable"]
           \/ /\ probe[p] = "health" /\ ~some("asked")
              /\ probe' = [probe EXCEPT ![p] = "unavailable"]
    /\ clients' = clients \ {p}
    /\ UNCHANGED <<conns, service, listening, request, check, shutdown>>

-----------------------------------------------------------------------------
(* setupGracefulShutdown.                                                  *)

(* The first signal starts the shutdown and its timer; others are ignored. *)
Signal ==
    /\ Alive
    /\ closing = "no"
    /\ closing' = "drain"
    /\ UNCHANGED <<conns, service, serving, awaited, exit>>

(* close() waits for connections, whatever the handlers still do.          *)
Drained == clients = {}

(* app.close reaches the onClose hook: PubSubService.stop.                 *)
Stop ==
    /\ Alive
    /\ closing = "drain"
    /\ Drained
    /\ running' = FALSE
    /\ link' = [link EXCEPT !["reader"] = "end"]
    /\ awaited' = {t \in Tasks : task[t] # "none"}
    /\ closing' = "stop"
    /\ UNCHANGED <<dbOpen, dbUp, start, waiting, task, serving, exit>>

NotAwaited == TRUE                      \* slip: stop() does not wait
Settled    == \A t \in awaited : task[t] = "ended"

Closed ==
    /\ Alive
    /\ closing = "stop"
    /\ Settled
    /\ closing' = "disconnect"
    /\ UNCHANGED <<conns, service, serving, awaited, exit>>

DisconnectDb ==
    /\ Alive
    /\ closing = "disconnect"
    /\ dbOpen' = FALSE
    /\ closing' = "redis"
    /\ UNCHANGED <<link, dbUp, service, serving, awaited, exit>>

DisconnectRedis ==
    /\ Alive
    /\ closing = "redis"
    /\ link' = [link EXCEPT !["redis"] = "end"]
    /\ exit' = "clean"
    /\ UNCHANGED <<dbOpen, dbUp, service, serving, closing, awaited>>

(* app.close (its tracing.shutdown) or db.$disconnect rejects.             *)
CloseFails ==
    /\ Alive
    /\ closing = "disconnect" \/ (closing = "stop" /\ Settled)
    /\ Exit

DrainOnly == closing = "drain"          \* slip: the timer is cleared too early
TimerRuns == closing # "no"

(* SHUTDOWN_TIMEOUT.                                                       *)
ForceExit ==
    /\ Alive
    /\ TimerRuns
    /\ Exit

Next ==
    \/ \E l \in Links : LinkChanges(l)
    \/ DbChanges
    \/ \E w \in Links \cup {"db"} : Connects(w)
    \/ StartFails \/ Launch \/ Listen \/ ListenFails
    \/ \E t \in Tasks : WorkDone(t) \/ WorkFails(t) \/ Loop(t)
    \/ \E r \in Requests : Accept(r) \/ Answer(r)
    \/ \E c \in Requests \cup Probes : HangUp(c)
    \/ \E p \in Probes : \/ Ask(p) \/ Verdict(p)
                         \/ \E d \in Deps : DepAnswers(p, d) \/ DepFails(p, d)
    \/ Signal \/ Stop \/ Closed \/ DisconnectDb \/ DisconnectRedis
    \/ CloseFails \/ ForceExit

Spec == Init /\ [][Next]_vars

(* Only timers are sure to fire: a handler, a task's work and $disconnect  *)
(* may hang for as long as PostgreSQL does.                                *)
FairSpec ==
    /\ Spec
    /\ WF_vars(ForceExit)
    /\ \A p \in Probes : /\ WF_vars(Verdict(p))
                         /\ \A d \in Deps : WF_vars(DepFails(p, d))

-----------------------------------------------------------------------------
(* Properties.                                                             *)

(* PostgreSQL and Redis are let go only when nobody waits for an answer    *)
(* any more and every task that stop() waits for has ended its round:      *)
(* whoever stays for his answer gets one that the shutdown has not cut     *)
(* short (graceful-shutdown 29-37, PubSubService.stop).  A handler whose   *)
(* client has hung up, a check behind its verdict and a task that start()  *)
(* launches after stop() are not covered: nothing waits for them, and      *)
(* what they have begun stops as in a crash.                               *)
DrainsFirst ==
    \/ clients # {}
    \/ \E t \in awaited : task[t] = "work"
    => dbOpen /\ link["redis"] # "end"

(* While the process takes requests its three tasks are alive, whatever    *)
(* failed and however often: none ends on an error, and the server listens *)
(* only once they run (consumeLoop 158-162, publishOutboxBatch 123-125,    *)
(* recoverPending 179-181, index 101).                                     *)
TasksServe ==
    Accepting => running /\ \A t \in Tasks : task[t] \in {"work", "pause"}

(* A signal ends the process, even if a handler, a batch or PostgreSQL     *)
(* hangs (graceful-shutdown 23-26).                                        *)
SignalExits == closing # "no" ~> ~Alive

(* Every probe is answered while the process lives, even if a dependency   *)
(* hangs, so it never keeps the server from draining (health-check 100).   *)
ProbeAnswered == \A p \in Probes : Open(p) ~> ~Open(p) \/ ~Alive
=============================================================================
