--------------------------- MODULE BookingRequests ---------------------------
(***************************************************************************)
(* Reservation requests for one seat, from the click to the answer: the    *)
(* client's idempotency key (CyberArena.reserve), the hooks of             *)
(* idempotency.ts, handleReservation and reserveSeat with its Redis lease. *)
(*                                                                         *)
(* The seat's rows are SeatInventory's; here they are the request whose    *)
(* hold is in force.  A client that gives up leaves its request running.   *)
(* Failing calls, deaths, and locks or holds that run out under a running  *)
(* request are troubles, and MaxTroubles bounds them.                      *)
(***************************************************************************)
EXTENDS Integers, Sequences

CONSTANTS
    Clients,         \* users, each with one page open
    Tokens,          \* bearers that a client may connect with
    MaxRequests,     \* bound: requests ever sent
    MaxTroubles

Requests  == 1..MaxRequests
NoRequest == 0
Keys      == Requests       \* a fresh key is named by the request it is made for
NoKey     == 0

ASSUME BookingAssumption == MaxRequests \in Nat /\ MaxTroubles \in Nat

VARIABLES
    key, call, token,         \* each client's key, open fetch, bearer
    req,                      \* the requests, in the order they were sent
    cache, keyLock,           \* Redis: each key's answer, its lock's owner
    lease,                    \* Redis: the seat lease's owner
    hold,                     \* the request whose reservation is in force
    reservations,             \* requests whose reservation was committed
    troubles

client == <<key, call, token>>
redis  == <<cache, keyLock, lease>>
db     == <<hold, reservations>>
vars   == <<client, req, redis, db, troubles>>

(* 201; the handler's 409; its other 4xx; 5xx; the two 409 of the key.     *)
Final    == {"reserved", "conflict", "refused"}
Statuses == Final \cup {"none", "failed", "busy", "mismatch"}
Running  == {"arrive", "check", "tx", "unlock", "error", "send"}
Request  == [client : Clients, key : Keys, token : Tokens,
             step : Running \cup {"answered", "gone"}, status : Statuses,
             twice : SUBSET {"claim", "lock"}]     \* what Redis executed twice
Answer   == [status : Final, token : Tokens]
NoAnswer == [status |-> "none"]

TypeOK ==
    /\ key \in [Clients -> Keys \cup {NoKey}]
    /\ call \in [Clients -> Requests \cup {NoRequest}]
    /\ token \in [Clients -> Tokens]
    /\ req \in Seq(Request) /\ Len(req) =< MaxRequests
    /\ cache \in [Keys -> Answer \cup {NoAnswer}]
    /\ keyLock \in [Keys -> Requests \cup {NoRequest}]
    /\ lease \in Requests \cup {NoRequest}
    /\ hold \in reservations \cup {NoRequest}
    /\ reservations \subseteq 1..Len(req)
    /\ troubles \in 0..MaxTroubles

Init ==
    /\ key = [c \in Clients |-> NoKey]
    /\ call = [c \in Clients |-> NoRequest]
    /\ token \in [Clients -> Tokens]
    /\ req = <<>>
    /\ cache = [k \in Keys |-> NoAnswer]
    /\ keyLock = [k \in Keys |-> NoRequest]
    /\ lease = NoRequest
    /\ hold = NoRequest
    /\ reservations = {}
    /\ troubles = 0

Trouble   == troubles < MaxTroubles /\ troubles' = troubles + 1
NoTrouble == UNCHANGED troubles

At(r, step) == req[r].step = step
KeyOf(r)    == req[r].key
To(r, step, status) == req' = [req EXCEPT ![r].step = step, ![r].status = status]
Twice(r, command)   == req' = [req EXCEPT ![r].twice = @ \cup {command}]

-----------------------------------------------------------------------------
(* The client: one fetch at a time, for a seat that its map shows free.    *)
(* The map is read every 5 s, so it may show that whatever the rows say.   *)

Send(c) ==
    /\ call[c] = NoRequest
    /\ Len(req) < MaxRequests
    /\ LET r == Len(req) + 1
           k == IF key[c] = NoKey THEN r ELSE key[c]
       IN  /\ key' = [key EXCEPT ![c] = k]
           /\ call' = [call EXCEPT ![c] = r]
           /\ req' = Append(req, [client |-> c, key |-> k, token |-> token[c],
                                  step |-> "arrive", status |-> "none", twice |-> {}])
    /\ UNCHANGED <<token, redis, db, troubles>>

Receive(c) ==
    /\ call[c] # NoRequest
    /\ At(call[c], "answered")
    /\ call' = [call EXCEPT ![c] = NoRequest]
    /\ key' = IF req[call[c]].status = "failed" THEN key ELSE [key EXCEPT ![c] = NoKey]
    /\ UNCHANGED <<token, req, redis, db, troubles>>

(* fetch throws, or a proxy answers 5xx: the key is kept.                  *)
AnswerLost(c) ==
    /\ call[c] # NoRequest
    /\ call' = [call EXCEPT ![c] = NoRequest]
    /\ UNCHANGED <<key, token, req, redis, db, troubles>>

(* Disconnecting forgets the keys; the 401 of another seat's request ends  *)
(* the session and keeps this seat's.                                      *)
Connect(c, t) ==
    /\ call[c] = NoRequest
    /\ token' = [token EXCEPT ![c] = t]
    /\ UNCHANGED key \/ key' = [key EXCEPT ![c] = NoKey]
    /\ UNCHANGED <<call, req, redis, db, troubles>>

-----------------------------------------------------------------------------
(* preValidation: one script looks the answer up and takes the lock.       *)

AnyAccess(r)  == TRUE           \* slip: no fingerprint
SameAccess(r) == cache[KeyOf(r)].token = req[r].token

Cached(r) == cache[KeyOf(r)] # NoAnswer
Unlocked(r) == keyLock[KeyOf(r)] = NoRequest
TakeLock(r) == keyLock' = [keyLock EXCEPT ![KeyOf(r)] = r]

Replay(r) ==
    /\ At(r, "arrive")
    /\ Cached(r)
    /\ To(r, "answered", IF SameAccess(r) THEN cache[KeyOf(r)].status ELSE "mismatch")
    /\ NoTrouble
    /\ UNCHANGED <<client, redis, db>>

Claim(r) ==
    /\ At(r, "arrive")
    /\ ~Cached(r)
    /\ IF Unlocked(r) THEN TakeLock(r) /\ To(r, "check", "none")
       ELSE UNCHANGED keyLock /\ To(r, "answered", "busy")
    /\ NoTrouble
    /\ UNCHANGED <<client, cache, lease, db>>

(* The request does not know of a lock taken with the answer lost.         *)
ClaimFails(r) ==
    /\ At(r, "arrive")
    /\ UNCHANGED keyLock \/ (~Cached(r) /\ Unlocked(r) /\ TakeLock(r))
    /\ To(r, "answered", "failed")
    /\ Trouble
    /\ UNCHANGED <<client, cache, lease, db>>

(* ioredis sends an unanswered script again, which then meets the lock of  *)
(* its first execution.                                                    *)
ClaimResent(r) ==
    /\ At(r, "arrive")
    /\ ~Cached(r) /\ Unlocked(r)
    /\ TakeLock(r)
    /\ Twice(r, "claim")
    /\ Trouble
    /\ UNCHANGED <<client, cache, lease, db>>

-----------------------------------------------------------------------------
(* handleReservation and reserveSeat.                                      *)

(* 400, 401, or 403 of the fraud check, before the lease is asked for.     *)
Refuse(r) ==
    /\ At(r, "check") /\ "lock" \notin req[r].twice
    /\ To(r, "send", "refused")
    /\ NoTrouble
    /\ UNCHANGED <<client, redis, db>>

(* lockSeat: SET NX.                                                       *)
Lock(r) ==
    /\ At(r, "check")
    /\ IF lease = NoRequest THEN lease' = r /\ To(r, "tx", "none")
       ELSE UNCHANGED lease /\ To(r, "send", "conflict")
    /\ NoTrouble
    /\ UNCHANGED <<client, cache, keyLock, db>>

(* The SET NX is sent again, and refused for the lease that it took.       *)
LockResent(r) ==
    /\ At(r, "check")
    /\ lease = NoRequest
    /\ lease' = r
    /\ Twice(r, "lock")
    /\ Trouble
    /\ UNCHANGED <<client, cache, keyLock, db>>

CheckFails(r) ==
    /\ At(r, "check")
    /\ UNCHANGED lease \/ (lease = NoRequest /\ lease' = r)
    /\ To(r, "error", "failed")
    /\ Trouble
    /\ UNCHANGED <<client, cache, keyLock, db>>

Commit(r) ==
    /\ hold = NoRequest
    /\ hold' = r
    /\ reservations' = reservations \cup {r}

AnswerAtOnce  == "send"         \* slip: the lease is not given back
AfterConflict == "unlock"

(* The conflict is a hold in force, a ticket paid, an unknown seat or user. *)
Reserve(r) ==
    /\ At(r, "tx")
    /\ \/ Commit(r) /\ To(r, "send", "reserved")
       \/ To(r, AfterConflict, "conflict") /\ UNCHANGED db
    /\ NoTrouble
    /\ UNCHANGED <<client, redis>>

ReserveFails(r) ==
    /\ At(r, "tx")
    /\ Commit(r) \/ UNCHANGED db
    /\ To(r, "unlock", "failed")
    /\ Trouble
    /\ UNCHANGED <<client, redis>>

(* releaseSeat, in the catch: compare and delete.                          *)
AnyLease(r)  == TRUE            \* slip: a plain DEL
OwnsLease(r) == lease = r
Release(r)   == lease' = IF OwnsLease(r) THEN NoRequest ELSE lease

Unlock(r) ==
    /\ At(r, "unlock")
    /\ Release(r)
    /\ To(r, IF req[r].status = "conflict" THEN "send" ELSE "error", req[r].status)
    /\ NoTrouble
    /\ UNCHANGED <<client, cache, keyLock, db>>

UnlockFails(r) ==
    /\ At(r, "unlock")
    /\ Release(r) \/ UNCHANGED lease
    /\ To(r, "error", "failed")
    /\ Trouble
    /\ UNCHANGED <<client, cache, keyLock, db>>

-----------------------------------------------------------------------------
(* onError, then onSend: one script stores the answer and drops the lock.  *)

AnyKeyLock(r) == TRUE           \* slip: whoever has the lock by now
OwnsKey(r)    == keyLock[KeyOf(r)] = r
DropLock(r)   == keyLock' = IF OwnsKey(r) THEN [keyLock EXCEPT ![KeyOf(r)] = NoRequest] ELSE keyLock

OnError(r) ==
    /\ At(r, "error")
    /\ \/ DropLock(r) /\ NoTrouble
       \/ UNCHANGED keyLock /\ Trouble
    /\ To(r, "send", "failed")
    /\ UNCHANGED <<client, cache, lease, db>>

Stored(r)    == req[r].status # "failed"

OnSend(r) ==
    /\ At(r, "send")
    /\ DropLock(r)
    /\ cache' = IF OwnsKey(r) /\ Stored(r)
                THEN [cache EXCEPT ![KeyOf(r)] = [status |-> req[r].status, token |-> req[r].token]]
                ELSE cache
    /\ To(r, "answered", req[r].status)
    /\ NoTrouble
    /\ UNCHANGED <<client, lease, db>>

OnSendFails(r) ==
    /\ At(r, "send")
    /\ To(r, "answered", req[r].status)
    /\ Trouble
    /\ UNCHANGED <<client, redis, db>>

Die(r) ==
    /\ req[r].step \in Running
    /\ To(r, "gone", req[r].status)
    /\ Trouble
    /\ UNCHANGED <<client, redis, db>>

-----------------------------------------------------------------------------
(* Time runs out: under a running owner it takes a slow one.               *)

Busy(r) == r \in 1..Len(req) /\ req[r].step \in Running
Costs(r) == IF Busy(r) THEN Trouble ELSE NoTrouble

KeyLockExpires(k) ==            \* 120 s
    /\ keyLock[k] # NoRequest
    /\ keyLock' = [keyLock EXCEPT ![k] = NoRequest]
    /\ Costs(keyLock[k])
    /\ UNCHANGED <<client, req, cache, lease, db>>

AnswerExpires(k) ==             \* 24 h
    /\ cache[k] # NoAnswer
    /\ cache' = [cache EXCEPT ![k] = NoAnswer]
    /\ UNCHANGED <<client, req, keyLock, lease, db, troubles>>

LeaseExpires ==                 \* SEAT_LOCK_TTL_MS
    /\ lease # NoRequest
    /\ lease' = NoRequest
    /\ Costs(lease)
    /\ UNCHANGED <<client, req, cache, keyLock, db>>

HoldExpires ==                  \* SEAT_LOCK_TTL_MS
    /\ hold # NoRequest
    /\ hold' = NoRequest
    /\ Costs(hold)
    /\ UNCHANGED <<client, req, redis, reservations>>

Serve(r) ==
    \/ Replay(r) \/ Claim(r) \/ ClaimResent(r) \/ ClaimFails(r)
    \/ Refuse(r) \/ Lock(r) \/ LockResent(r) \/ CheckFails(r)
    \/ Reserve(r) \/ ReserveFails(r) \/ Unlock(r) \/ UnlockFails(r)
    \/ OnError(r) \/ OnSend(r) \/ OnSendFails(r) \/ Die(r)

Next ==
    \/ \E c \in Clients : Send(c) \/ Receive(c) \/ AnswerLost(c)
    \/ \E c \in Clients, t \in Tokens : Connect(c, t)
    \/ \E r \in 1..Len(req) : Serve(r)
    \/ \E k \in Keys : KeyLockExpires(k) \/ AnswerExpires(k)
    \/ LeaseExpires
    \/ HoldExpires

Spec == Init /\ [][Next]_vars

-----------------------------------------------------------------------------
(* Properties.                                                             *)

(* A 201, first or replayed, tells of a reservation that was committed for *)
(* this very key by the same user under the same access, whatever was      *)
(* retried, lost or repeated (idempotency 70-77, reservation.service 38).  *)
AcceptedReserved ==
    \A r \in 1..Len(req) :
        At(r, "answered") /\ req[r].status = "reserved" =>
            \E q \in reservations : /\ req[q].key = req[r].key
                                    /\ req[q].client = req[r].client
                                    /\ req[q].token = req[r].token

(* An answer once stored is every later retry's answer until it expires: a *)
(* request whose lock ran out never replaces it (idempotency 93-103).      *)
AnswerStable == [][\A k \in Keys : cache[k] # NoAnswer => cache'[k] \in {cache[k], NoAnswer}]_vars

(* The lease and the key's lock are taken from their owner by the owner or *)
(* by time, never by a request that has lost them (redis 22, idempotency   *)
(* 96 and 112).                                                            *)
LocksFenced ==
    [][\A r \in 1..Len(req) : req'[r] = req[r] /\ req' # req =>
          /\ lease = r => lease' = r
          /\ \A k \in Keys : keyLock[k] = r => keyLock'[k] = r]_vars

(* Who is told that the seat is not available, or is refused, leaves no    *)
(* lease behind that would keep the others out (reservation.service 63),   *)
(* unless the lease is what turned its own owner away.                     *)
NoOrphanLease ==
    \A r \in 1..Len(req) :
        At(r, "answered") /\ req[r].status \in {"conflict", "refused"} =>
            lease # r \/ "lock" \in req[r].twice

(* USO.md: after a lost answer the retry keeps its key, so that the server *)
(* recognises the request.  So a key is given up for an answer of its      *)
(* request, not for one that only says that it is still running.           *)
RetryKeepsKey ==
    [][\A c \in Clients :
          call[c] # NoRequest /\ call'[c] = NoRequest /\ key'[c] # key[c] =>
              req[call[c]].status # "busy"]_vars
=============================================================================
