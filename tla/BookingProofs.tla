---------------------------- MODULE BookingProofs ----------------------------
(***************************************************************************)
(* Proofs about BookingRequests for any clients, bearers and number of     *)
(* requests: a 201 tells of a committed reservation of the same user, a    *)
(* stored answer is not replaced, locks fall only to their owner or to     *)
(* time, who is turned away leaves no lease, and only a key sent before is *)
(* answered 'still running', unless a command was executed twice.          *)
(***************************************************************************)
EXTENDS BookingRequests, TLAPS

-----------------------------------------------------------------------------
(* The inductive invariant, part by part.                                  *)

(* A key is its client's: it bears the number of a request of that client. *)
KeysOwned ==
    /\ \A c \in Clients : key[c] # NoKey => key[c] \in 1..Len(req) /\ req[key[c]].client = c
    /\ \A r \in 1..Len(req) : KeyOf(r) \in 1..Len(req) /\ req[KeyOf(r)].client = req[r].client

(* The lock of a key is only held while its answer is not stored yet.      *)
LockOrAnswer == \A k \in Keys : keyLock[k] # NoRequest => cache[k] = NoAnswer

Booked(k, t) == \E q \in reservations : KeyOf(q) = k /\ req[q].token = t

(* A 201 in a request or in the cache has its reservation.                 *)
Backed ==
    /\ \A r \in 1..Len(req) : req[r].status = "reserved" => Booked(KeyOf(r), req[r].token)
    /\ \A k \in Keys : cache[k].status = "reserved" => Booked(k, cache[k].token)

(* The lease is of a request that got as far as asking for it and was not  *)
(* turned away since, unless it asked twice.                               *)
AskedTwice(r) == "lock" \in req[r].twice

LeaseEarned ==
    lease # NoRequest =>
        /\ lease \in 1..Len(req)
        /\ \/ AskedTwice(lease)
           \/ /\ req[lease].step \notin {"arrive", "check"}
              /\ req[lease].step \in {"send", "answered"} =>
                     req[lease].status \notin {"conflict", "refused"}

(* What a request answers is settled by the step that it has reached.      *)
Settled(step, status) ==
    /\ step = "send" => status \in Final \cup {"failed"}
    /\ step = "unlock" => status \in {"conflict", "failed"}

AnswersSettled == \A r \in 1..Len(req) : Settled(req[r].step, req[r].status)

BInv == TypeOK /\ KeysOwned /\ LockOrAnswer /\ Backed /\ LeaseEarned /\ AnswersSettled

-----------------------------------------------------------------------------
(* What a step of one request does to the sequence of requests.            *)

Moved(r, st, res) ==
    /\ req' \in Seq(Request)
    /\ Len(req') = Len(req)
    /\ \A q \in 1..Len(req) : q # r => req'[q] = req[q]
    /\ req'[r].step = st
    /\ req'[r].status = res
    /\ \A q \in 1..Len(req) : /\ req'[q].client = req[q].client
                              /\ req'[q].key = req[q].key
                              /\ req'[q].token = req[q].token
                              /\ req[q].twice \subseteq req'[q].twice

(* A request that moves keeps its client, key and bearer, and no other     *)
(* request changes (every handler step of idempotency and reservation).    *)
LEMMA MoveKeeps ==
    ASSUME req \in Seq(Request), NEW r \in 1..Len(req),
           NEW st \in Running \cup {"answered", "gone"}, NEW res \in Statuses, To(r, st, res)
    PROVE  Moved(r, st, res)
<1> DEFINE e == [req[r] EXCEPT !.step = st, !.status = res]
<1>1. req[r] \in Request
  OBVIOUS
<1>2. e \in Request /\ req' = [req EXCEPT ![r] = e]
  BY <1>1 DEF Request, To
<1>3. /\ e.client = req[r].client /\ e.key = req[r].key /\ e.token = req[r].token
      /\ e.step = st /\ e.status = res
      /\ e.twice = req[r].twice
  BY <1>1 DEF Request
<1> HIDE DEF e
<1>4. req' \in Seq(Request) /\ Len(req') = Len(req)
  BY <1>2
<1>5. \A q \in 1..Len(req) : req'[q] = IF q = r THEN e ELSE req[q]
  BY <1>2
<1> QED
  BY <1>3, <1>4, <1>5 DEF Moved

(* A command sent again leaves its request where it is.                    *)
LEMMA TwiceKeeps ==
    ASSUME req \in Seq(Request), NEW r \in 1..Len(req),
           NEW command \in {"claim", "lock"}, Twice(r, command)
    PROVE  Moved(r, req[r].step, req[r].status) /\ command \in req'[r].twice
<1> DEFINE e == [req[r] EXCEPT !.twice = @ \cup {command}]
<1>1. req[r] \in Request
  OBVIOUS
<1>2. e \in Request /\ req' = [req EXCEPT ![r] = e]
  BY <1>1 DEF Request, Twice
<1>3. /\ e.client = req[r].client /\ e.key = req[r].key /\ e.token = req[r].token
      /\ e.step = req[r].step /\ e.status = req[r].status
      /\ e.twice = req[r].twice \cup {command}
  BY <1>1 DEF Request
<1> HIDE DEF e
<1>4. req' \in Seq(Request) /\ Len(req') = Len(req)
  BY <1>2
<1>5. \A q \in 1..Len(req) : req'[q] = IF q = r THEN e ELSE req[q]
  BY <1>2
<1> QED
  BY <1>3, <1>4, <1>5 DEF Moved

(* A new request leaves the ones before it as they are (CyberArena 119).   *)
LEMMA SendAppends ==
    ASSUME req \in Seq(Request), NEW e \in Request, req' = Append(req, e)
    PROVE  /\ req' \in Seq(Request)
           /\ Len(req') = Len(req) + 1
           /\ \A q \in 1..Len(req) : req'[q] = req[q]
           /\ req'[Len(req) + 1] = e
  OBVIOUS

-----------------------------------------------------------------------------
(* A step of one request keeps the invariant as soon as it does these few  *)
(* things right: it commits at most its own reservation, takes at most a   *)
(* free lease, and answers and stores a 201 only with a reservation.       *)
Proper(r, st, res) ==
    /\ Moved(r, st, res)
    /\ UNCHANGED <<key, call, token>>
    /\ troubles' \in 0..MaxTroubles
    /\ Settled(st, res)
    /\ cache' \in [Keys -> Answer \cup {NoAnswer}]
    /\ keyLock' \in [Keys -> Requests \cup {NoRequest}]
    /\ LockOrAnswer'
    /\ Commit(r) \/ UNCHANGED <<hold, reservations>>
    /\ lease' \in {lease, NoRequest, r}
    /\ lease' = r => \/ AskedTwice(r)'
                     \/ /\ st \notin {"arrive", "check"}
                        /\ st \in {"send", "answered"} => res \notin {"conflict", "refused"}
    /\ res = "reserved" => r \in reservations' \/ Booked(KeyOf(r), req[r].token)
    /\ \A k \in Keys : cache'[k].status = "reserved" => Booked(k, cache'[k].token)

LEMMA ProperKeeps ==
    ASSUME BInv, NEW r \in 1..Len(req),
           NEW st \in Running \cup {"answered", "gone"}, NEW res \in Statuses, Proper(r, st, res)
    PROVE  BInv'
<1> USE DEF BInv
<1>1. Len(req) \in Nat /\ Len(req) =< MaxRequests /\ Len(req') = Len(req) /\ r \in Requests
  BY BookingAssumption DEF TypeOK, Proper, Moved, Requests
<1>2. reservations \subseteq reservations' /\ reservations' \subseteq 1..Len(req')
  BY <1>1 DEF TypeOK, Proper, Commit
<1>3. TypeOK'
  <2>1. /\ key' \in [Clients -> Keys \cup {NoKey}]
        /\ call' \in [Clients -> Requests \cup {NoRequest}]
        /\ token' \in [Clients -> Tokens]
    BY DEF TypeOK, Proper
  <2>2. req' \in Seq(Request) /\ Len(req') =< MaxRequests
    BY <1>1 DEF Proper, Moved
  <2>3. lease' \in Requests \cup {NoRequest}
    BY <1>1 DEF TypeOK, Proper
  <2>4. hold' \in reservations' \cup {NoRequest}
    BY DEF TypeOK, Proper, Commit
  <2> QED
    BY <2>1, <2>2, <2>3, <2>4, <1>2 DEF TypeOK, Proper
<1>4. KeysOwned'
  BY <1>1 DEF KeysOwned, KeyOf, Proper, Moved
<1>5. \A k, t : Booked(k, t) => Booked(k, t)'
  BY <1>1, <1>2 DEF Booked, KeyOf, Proper, Moved, TypeOK
<1>6. Backed'
  <2>1. ASSUME NEW q \in 1..Len(req'), req'[q].status = "reserved"
        PROVE  Booked(KeyOf(q), req[q].token)'
    <3>1. CASE q # r
      BY <3>1, <2>1, <1>1, <1>5 DEF Backed, KeyOf, Proper, Moved
    <3>2. CASE q = r
      <4>1. CASE r \in reservations'
        BY <4>1, <3>2 DEF Booked
      <4>2. CASE Booked(KeyOf(r), req[r].token)
        BY <4>2, <3>2, <1>1, <1>5 DEF KeyOf, Proper, Moved
      <4> QED
        BY <4>1, <4>2, <3>2, <2>1 DEF Proper, Moved
    <3> QED
      BY <3>1, <3>2
  <2> QED
    BY <2>1, <1>5 DEF Backed, Proper
<1>7. LeaseEarned'
  BY <1>1 DEF LeaseEarned, AskedTwice, Proper, Moved, NoRequest
<1>8. AnswersSettled'
  BY <1>1 DEF AnswersSettled, Proper, Moved
<1> QED
  BY <1>3, <1>4, <1>6, <1>7, <1>8 DEF Proper

-----------------------------------------------------------------------------
(* Every step keeps the invariant.                                         *)

(* What the invariant says of a request that is about to take a step.      *)
LEMMA Bearings ==
    ASSUME BInv, NEW r \in 1..Len(req)
    PROVE  /\ r \in Requests /\ r # NoRequest /\ KeyOf(r) \in Keys
           /\ req \in Seq(Request) /\ req[r].token \in Tokens
           /\ troubles \in 0..MaxTroubles
           /\ cache \in [Keys -> Answer \cup {NoAnswer}]
           /\ keyLock \in [Keys -> Requests \cup {NoRequest}]
           /\ LockOrAnswer
           /\ \A k \in Keys : cache[k].status = "reserved" => Booked(k, cache[k].token)
           /\ req[r].status = "reserved" => Booked(KeyOf(r), req[r].token)
           /\ Settled(req[r].step, req[r].status)
           /\ req[r].step \in {"arrive", "check"} => lease # r \/ AskedTwice(r)
<1>1. req \in Seq(Request) /\ Len(req) =< MaxRequests /\ Len(req) \in Nat
  BY BookingAssumption DEF BInv, TypeOK
<1>2. req[r] \in Request
  BY <1>1
<1>3. r \in Requests /\ r # NoRequest
  BY <1>1, BookingAssumption DEF Requests, NoRequest
<1>4. req[r].step \in {"arrive", "check"} => lease # r \/ AskedTwice(r)
  BY <1>3 DEF BInv, LeaseEarned
<1> QED
  BY <1>1, <1>2, <1>3, <1>4 DEF BInv, TypeOK, Request, KeyOf, Backed, AnswersSettled

(* A step counts at most one trouble.                                      *)
LEMMA TroublesBounded ==
    ASSUME troubles \in 0..MaxTroubles, Trouble \/ NoTrouble
    PROVE  troubles' \in 0..MaxTroubles
  BY BookingAssumption DEF Trouble, NoTrouble

(* A cached answer is never a lock's: a lock taken on an open key keeps    *)
(* LockOrAnswer, and one dropped does too.                                 *)
LEMMA LocksKeep ==
    ASSUME BInv, NEW r \in 1..Len(req), UNCHANGED cache,
           UNCHANGED keyLock \/ DropLock(r) \/ (~Cached(r) /\ TakeLock(r))
    PROVE  keyLock' \in [Keys -> Requests \cup {NoRequest}] /\ LockOrAnswer'
  BY Bearings DEF DropLock, Cached, TakeLock, LockOrAnswer

(* The hooks of idempotency.ts before the handler: a replay is backed by   *)
(* what is stored, under the same bearer.                                  *)
LEMMA ReplayKeeps == ASSUME BInv, NEW r \in 1..Len(req), Replay(r) PROVE BInv'
<1> DEFINE res == IF SameAccess(r) THEN cache[KeyOf(r)].status ELSE "mismatch"
<1>1. res \in Statuses
  BY Bearings DEF Replay, Cached, Answer, Statuses, Final
<1>2. Moved(r, "answered", res)
  BY <1>1, Bearings, MoveKeeps DEF Replay
<1>3. res = "reserved" => Booked(KeyOf(r), req[r].token)
  BY Bearings DEF SameAccess
<1>4. Proper(r, "answered", res)
  BY <1>2, <1>3, Bearings, TroublesBounded, LocksKeep
  DEF Replay, Proper, client, redis, db, Settled, At, AskedTwice, Moved
<1> QED
  BY <1>1, <1>4, ProperKeeps

LEMMA ClaimKeeps == ASSUME BInv, NEW r \in 1..Len(req), Claim(r) PROVE BInv'
<1>1. CASE Unlocked(r)
  <2>1. Moved(r, "check", "none")
    BY <1>1, Bearings, MoveKeeps DEF Claim, Running, Statuses
  <2>2. Proper(r, "check", "none")
    BY <1>1, <2>1, Bearings, TroublesBounded, LocksKeep
    DEF Claim, Proper, client, db, Settled, At, AskedTwice, Moved
  <2> QED
    BY <2>2, ProperKeeps DEF Running, Statuses
<1>2. CASE ~Unlocked(r)
  <2>1. Moved(r, "answered", "busy")
    BY <1>2, Bearings, MoveKeeps DEF Claim, Statuses
  <2>2. Proper(r, "answered", "busy")
    BY <1>2, <2>1, Bearings, TroublesBounded, LocksKeep
    DEF Claim, Proper, client, db, Settled
  <2> QED
    BY <2>2, ProperKeeps DEF Statuses
<1> QED
  BY <1>1, <1>2

LEMMA ClaimFailsKeeps == ASSUME BInv, NEW r \in 1..Len(req), ClaimFails(r) PROVE BInv'
<1>1. Moved(r, "answered", "failed")
  BY Bearings, MoveKeeps DEF ClaimFails, Statuses
<1>2. Proper(r, "answered", "failed")
  BY <1>1, Bearings, TroublesBounded, LocksKeep DEF ClaimFails, Proper, client, db, Settled
<1> QED
  BY <1>2, ProperKeeps DEF Statuses

(* A lock taken by a command that is sent again is its request's.          *)
LEMMA ResentKeeps == ASSUME BInv, NEW r \in 1..Len(req), ClaimResent(r) \/ LockResent(r) PROVE BInv'
<1> DEFINE st == req[r].step
           res == req[r].status
<1>1. st \in Running \cup {"answered", "gone"} /\ res \in Statuses
  <2>1. req[r] \in Request
    BY Bearings
  <2> QED
    BY <2>1 DEF Request
<1>2. Moved(r, st, res) /\ (LockResent(r) => AskedTwice(r)')
  BY Bearings, TwiceKeeps DEF ClaimResent, LockResent, AskedTwice
<1>3. st \in {"arrive", "check"}
  BY DEF ClaimResent, LockResent, At
<1>4. lease' = r => AskedTwice(r)'
  BY <1>2, <1>3, Bearings DEF ClaimResent, LockResent, Moved, AskedTwice
<1>5. /\ UNCHANGED <<key, call, token, cache, hold, reservations>>
      /\ lease' \in {lease, NoRequest, r}
      /\ Trouble
      /\ UNCHANGED keyLock \/ (~Cached(r) /\ TakeLock(r))
  BY DEF ClaimResent, LockResent, client, db
<1>6. Proper(r, st, res)
  BY <1>2, <1>4, <1>5, Bearings, TroublesBounded, LocksKeep DEF Proper
<1> QED
  BY <1>1, <1>6, ProperKeeps

(* handleReservation and reserveSeat: a conflict of the lease, or any      *)
(* refusal, comes before the lease is taken or after it is given back.     *)
LEMMA RefuseKeeps == ASSUME BInv, NEW r \in 1..Len(req), Refuse(r) PROVE BInv'
<1>1. Moved(r, "send", "refused")
  BY Bearings, MoveKeeps DEF Refuse, Running, Statuses, Final
<1>2. Proper(r, "send", "refused")
  BY <1>1, Bearings, TroublesBounded, LocksKeep
  DEF Refuse, Proper, client, redis, db, Settled, Final, At, AskedTwice, Moved
<1> QED
  BY <1>2, ProperKeeps DEF Running, Statuses, Final

LEMMA LockKeeps == ASSUME BInv, NEW r \in 1..Len(req), Lock(r) PROVE BInv'
<1>1. CASE lease = NoRequest
  <2>1. Moved(r, "tx", "none")
    BY <1>1, Bearings, MoveKeeps DEF Lock, Running, Statuses
  <2>2. Proper(r, "tx", "none")
    BY <1>1, <2>1, Bearings, TroublesBounded, LocksKeep DEF Lock, Proper, client, db, Settled
  <2> QED
    BY <2>2, ProperKeeps DEF Running, Statuses
<1>2. CASE lease # NoRequest
  <2>1. Moved(r, "send", "conflict")
    BY <1>2, Bearings, MoveKeeps DEF Lock, Running, Statuses, Final
  <2>2. Proper(r, "send", "conflict")
    BY <1>2, <2>1, Bearings, TroublesBounded, LocksKeep
    DEF Lock, Proper, client, db, Settled, Final, At, AskedTwice, Moved
  <2> QED
    BY <2>2, ProperKeeps DEF Running, Statuses, Final
<1> QED
  BY <1>1, <1>2

LEMMA CheckFailsKeeps == ASSUME BInv, NEW r \in 1..Len(req), CheckFails(r) PROVE BInv'
<1>1. Moved(r, "error", "failed")
  BY Bearings, MoveKeeps DEF CheckFails, Running, Statuses
<1>2. Proper(r, "error", "failed")
  BY <1>1, Bearings, TroublesBounded, LocksKeep DEF CheckFails, Proper, client, db, Settled
<1> QED
  BY <1>2, ProperKeeps DEF Running, Statuses

LEMMA ReserveKeeps == ASSUME BInv, NEW r \in 1..Len(req), Reserve(r) PROVE BInv'
<1>1. CASE Commit(r) /\ To(r, "send", "reserved")
  <2>1. Moved(r, "send", "reserved")
    BY <1>1, Bearings, MoveKeeps DEF Running, Statuses, Final
  <2>2. Proper(r, "send", "reserved")
    BY <1>1, <2>1, Bearings, TroublesBounded, LocksKeep
    DEF Reserve, Proper, Commit, client, redis, Settled, Final
  <2> QED
    BY <2>2, ProperKeeps DEF Running, Statuses, Final
<1>2. CASE To(r, AfterConflict, "conflict") /\ UNCHANGED db
  <2>1. Moved(r, "unlock", "conflict")
    BY <1>2, Bearings, MoveKeeps DEF AfterConflict, Running, Statuses, Final
  <2>2. Proper(r, "unlock", "conflict")
    BY <1>2, <2>1, Bearings, TroublesBounded, LocksKeep
    DEF Reserve, Proper, client, redis, db, Settled
  <2> QED
    BY <2>2, ProperKeeps DEF Running, Statuses, Final
<1> QED
  BY <1>1, <1>2 DEF Reserve

LEMMA ReserveFailsKeeps == ASSUME BInv, NEW r \in 1..Len(req), ReserveFails(r) PROVE BInv'
<1>1. Moved(r, "unlock", "failed")
  BY Bearings, MoveKeeps DEF ReserveFails, Running, Statuses
<1>2. Proper(r, "unlock", "failed")
  BY <1>1, Bearings, TroublesBounded, LocksKeep
  DEF ReserveFails, Proper, client, redis, db, Settled
<1> QED
  BY <1>2, ProperKeeps DEF Running, Statuses

LEMMA UnlockKeeps == ASSUME BInv, NEW r \in 1..Len(req), Unlock(r) \/ UnlockFails(r) PROVE BInv'
<1>1. CASE Unlock(r) /\ req[r].status = "conflict"
  <2>1. Moved(r, "send", "conflict")
    BY <1>1, Bearings, MoveKeeps DEF Unlock, Running, Statuses, Final
  <2>2. lease' # r /\ lease' \in {lease, NoRequest}
    BY <1>1, Bearings DEF Unlock, Release, OwnsLease
  <2>3. Proper(r, "send", "conflict")
    BY <1>1, <2>1, <2>2, Bearings, TroublesBounded, LocksKeep
    DEF Unlock, Proper, client, db, Settled, Final
  <2> QED
    BY <2>3, ProperKeeps DEF Running, Statuses, Final
<1>2. CASE UnlockFails(r) \/ (Unlock(r) /\ req[r].status # "conflict")
  <2>1. Moved(r, "error", "failed")
    BY <1>2, Bearings, MoveKeeps DEF Unlock, UnlockFails, Running, Statuses, Settled, At
  <2>2. lease' \in {lease, NoRequest}
    BY <1>2 DEF Unlock, UnlockFails, Release
  <2>3. Proper(r, "error", "failed")
    BY <1>2, <2>1, <2>2, Bearings, TroublesBounded, LocksKeep
    DEF Unlock, UnlockFails, Proper, client, db, Settled
  <2> QED
    BY <2>3, ProperKeeps DEF Running, Statuses
<1> QED
  BY <1>1, <1>2

(* onError and onSend: what is stored has its reservation already, and its *)
(* lock is dropped with it.                                                *)
LEMMA OnErrorKeeps == ASSUME BInv, NEW r \in 1..Len(req), OnError(r) PROVE BInv'
<1>1. Moved(r, "send", "failed")
  BY Bearings, MoveKeeps DEF OnError, Running, Statuses
<1>2. Proper(r, "send", "failed")
  BY <1>1, Bearings, TroublesBounded, LocksKeep DEF OnError, Proper, client, db, Settled
<1> QED
  BY <1>2, ProperKeeps DEF Running, Statuses

LEMMA LeaseAtSend ==
    ASSUME BInv, NEW r \in 1..Len(req), At(r, "send"), lease = r
    PROVE  req[r].status \notin {"conflict", "refused"} \/ AskedTwice(r)
  BY Bearings DEF BInv, LeaseEarned, At

LEMMA OnSendKeeps == ASSUME BInv, NEW r \in 1..Len(req), OnSend(r) \/ OnSendFails(r) PROVE BInv'
<1> DEFINE res == req[r].status
<1>1. res \in Final \cup {"failed"}
  BY Bearings DEF OnSend, OnSendFails, At, Settled
<1>2. Moved(r, "answered", res)
  BY <1>1, Bearings, MoveKeeps DEF OnSend, OnSendFails, Statuses
<1>3. /\ cache' \in [Keys -> Answer \cup {NoAnswer}]
      /\ keyLock' \in [Keys -> Requests \cup {NoRequest}]
      /\ LockOrAnswer'
      /\ \A k \in Keys : cache'[k].status = "reserved" => Booked(k, cache'[k].token)
  <2>1. CASE UNCHANGED cache
    BY <2>1, Bearings, LocksKeep DEF OnSend, OnSendFails, redis
  <2>2. CASE OnSend(r) /\ OwnsKey(r) /\ Stored(r)
    <3>1. res \in Final
      BY <1>1, <2>2 DEF Stored
    <3>2. [status |-> res, token |-> req[r].token] \in Answer
      BY <3>1, Bearings DEF Answer
    <3>3. /\ cache' = [cache EXCEPT ![KeyOf(r)] = [status |-> res, token |-> req[r].token]]
          /\ keyLock' = [keyLock EXCEPT ![KeyOf(r)] = NoRequest]
      BY <2>2 DEF OnSend, DropLock
    <3> HIDE DEF res
    <3> QED
      BY <3>2, <3>3, Bearings DEF LockOrAnswer, res
  <2> QED
    BY <2>1, <2>2 DEF OnSend, OnSendFails, redis
<1>4. Proper(r, "answered", res)
  BY <1>2, <1>3, Bearings, TroublesBounded, LeaseAtSend
  DEF OnSend, OnSendFails, Proper, client, redis, db, Settled, AskedTwice, Moved
<1> QED
  BY <1>1, <1>4, ProperKeeps DEF Statuses

(* A death keeps what the request left in Redis and in the rows.           *)
LEMMA DieKeeps == ASSUME BInv, NEW r \in 1..Len(req), Die(r) PROVE BInv'
<1> DEFINE res == req[r].status
<1>1. res \in Statuses
  <2>1. req[r] \in Request
    BY Bearings
  <2> QED
    BY <2>1 DEF Request
<1>2. Moved(r, "gone", res)
  BY <1>1, Bearings, MoveKeeps DEF Die
<1>3. Proper(r, "gone", res)
  BY <1>2, Bearings, TroublesBounded, LocksKeep DEF Die, Proper, client, redis, db, Settled
<1> QED
  BY <1>1, <1>3, ProperKeeps

(* The client: a new key is named by the request that it is made for.      *)
LEMMA SendKeeps == ASSUME BInv, NEW c \in Clients, Send(c) PROVE BInv'
<1> USE DEF BInv
<1> DEFINE n == Len(req) + 1
           k == IF key[c] = NoKey THEN n ELSE key[c]
           e == [client |-> c, key |-> k, token |-> token[c], step |-> "arrive", status |-> "none", twice |-> {}]
<1>1. Len(req) \in Nat /\ n \in Requests /\ req \in Seq(Request)
  BY BookingAssumption DEF TypeOK, Send, Requests
<1>2. k \in Keys /\ k \in 1..n
  BY <1>1 DEF TypeOK, Keys, KeysOwned, NoKey
<1>3. e \in Request
  BY <1>2 DEF TypeOK, Request, Running, Statuses
<1>4. req' = Append(req, e) /\ key' = [key EXCEPT ![c] = k] /\ call' = [call EXCEPT ![c] = n]
      /\ UNCHANGED <<token, redis, db, troubles>>
  BY DEF Send
<1> HIDE DEF e
<1>5. /\ req' \in Seq(Request) /\ Len(req') = n
      /\ \A q \in 1..Len(req) : req'[q] = req[q]
      /\ req'[n] = e
  BY <1>1, <1>3, <1>4, SendAppends
<1>6. e.client = c /\ e.key = k /\ e.step = "arrive" /\ e.status = "none"
  BY DEF e
<1> HIDE DEF k
<1>7. \A q \in 1..n : q \in 1..Len(req) \/ q = n
  BY <1>1
<1>8. TypeOK'
  BY <1>1, <1>2, <1>4, <1>5 DEF TypeOK, redis, db, Requests
<1>9. KeysOwned'
  <2>1. ASSUME NEW d \in Clients, key'[d] # NoKey
        PROVE  key'[d] \in 1..Len(req') /\ req'[key'[d]].client = d
    <3>1. CASE d # c \/ key[c] # NoKey
      <4>1. key'[d] = key[d]
        BY <3>1, <1>4 DEF TypeOK, k
      <4> QED
        BY <4>1, <2>1, <1>1, <1>5 DEF KeysOwned
    <3>2. CASE d = c /\ key[c] = NoKey
      BY <3>2, <1>1, <1>4, <1>5, <1>6 DEF TypeOK, k
    <3> QED
      BY <3>1, <3>2
  <2>2. ASSUME NEW q \in 1..Len(req')
        PROVE  KeyOf(q)' \in 1..Len(req') /\ req'[KeyOf(q)'].client = req'[q].client
    <3>1. CASE q \in 1..Len(req)
      BY <3>1, <1>1, <1>5 DEF KeysOwned, KeyOf
    <3>2. CASE q = n
      <4>1. key[c] # NoKey => k \in 1..Len(req) /\ req[k].client = c
        BY DEF k, KeysOwned
      <4>2. key[c] = NoKey => k = n
        BY DEF k
      <4> QED
        BY <4>1, <4>2, <3>2, <1>1, <1>5, <1>6 DEF KeyOf
    <3> QED
      BY <3>1, <3>2, <1>5, <1>7
  <2> QED
    BY <2>1, <2>2 DEF KeysOwned
<1>10. LockOrAnswer'
  BY <1>4 DEF LockOrAnswer, redis
<1>11. \A j, t : Booked(j, t) => Booked(j, t)'
  BY <1>4, <1>5 DEF Booked, KeyOf, TypeOK, db
<1>12. Backed'
  <2>1. ASSUME NEW q \in 1..Len(req'), req'[q].status = "reserved"
        PROVE  Booked(KeyOf(q), req[q].token)'
    <3>1. q \in 1..Len(req)
      BY <2>1, <1>5, <1>6, <1>7
    <3> QED
      BY <3>1, <2>1, <1>5, <1>11 DEF Backed, KeyOf
  <2> QED
    BY <2>1, <1>4, <1>11 DEF Backed, redis
<1>13. LeaseEarned'
  BY <1>1, <1>4, <1>5 DEF LeaseEarned, AskedTwice, redis
<1>14. AnswersSettled'
  BY <1>5, <1>6, <1>7 DEF AnswersSettled, Settled
<1> QED
  BY <1>8, <1>9, <1>10, <1>12, <1>13, <1>14

(* An answer taken, an answer lost and a new session leave the requests.   *)
LEMMA ClientKeeps ==
    ASSUME BInv, NEW c \in Clients, NEW t \in Tokens, Receive(c) \/ AnswerLost(c) \/ Connect(c, t)
    PROVE  BInv'
<1>1. UNCHANGED <<req, redis, db, troubles>>
  BY DEF Receive, AnswerLost, Connect
<1>2. /\ key' \in [Clients -> Keys \cup {NoKey}]
      /\ \A d \in Clients : key'[d] \in {key[d], NoKey}
      /\ call' \in [Clients -> Requests \cup {NoRequest}]
      /\ token' \in [Clients -> Tokens]
  BY DEF BInv, TypeOK, Receive, AnswerLost, Connect
<1>3. TypeOK'
  BY <1>1, <1>2 DEF BInv, TypeOK, redis, db
<1>4. KeysOwned'
  BY <1>1, <1>2 DEF BInv, KeysOwned, KeyOf
<1>5. (LockOrAnswer /\ Backed /\ LeaseEarned /\ AnswersSettled)'
  BY <1>1 
  DEF BInv, LockOrAnswer, Backed, Booked, LeaseEarned, AskedTwice, AnswersSettled, Settled, KeyOf, redis, db
<1> QED
  BY <1>3, <1>4, <1>5 DEF BInv

(* Time takes locks, answers and holds, never a reservation that was made. *)
LEMMA TimeKeeps ==
    ASSUME BInv, (\E k \in Keys : KeyLockExpires(k) \/ AnswerExpires(k)) \/ LeaseExpires \/ HoldExpires
    PROVE  BInv'
<1>1. UNCHANGED <<client, req, reservations>>
  BY DEF KeyLockExpires, AnswerExpires, LeaseExpires, HoldExpires, db
<1>2. /\ cache' \in [Keys -> Answer \cup {NoAnswer}]
      /\ \A k \in Keys : cache'[k] \in {cache[k], NoAnswer}
      /\ keyLock' \in [Keys -> Requests \cup {NoRequest}]
      /\ \A k \in Keys : keyLock'[k] \in {keyLock[k], NoRequest}
      /\ lease' \in {lease, NoRequest}
      /\ hold' \in {hold, NoRequest}
  <2>1. CASE \E k \in Keys : KeyLockExpires(k)
    BY <2>1 DEF BInv, TypeOK, KeyLockExpires, db
  <2>2. CASE \E k \in Keys : AnswerExpires(k)
    BY <2>2 DEF BInv, TypeOK, AnswerExpires, db
  <2>3. CASE LeaseExpires
    BY <2>3 DEF BInv, TypeOK, LeaseExpires, db
  <2>4. CASE HoldExpires
    BY <2>4 DEF BInv, TypeOK, HoldExpires, redis
  <2> QED
    BY <2>1, <2>2, <2>3, <2>4
<1>3. troubles' \in 0..MaxTroubles
  BY TroublesBounded
  DEF BInv, TypeOK, KeyLockExpires, AnswerExpires, LeaseExpires, HoldExpires, Costs
<1>4. TypeOK'
  BY <1>1, <1>2, <1>3 DEF BInv, TypeOK, client
<1>5. (LockOrAnswer /\ LeaseEarned)'
  BY <1>1, <1>2 DEF BInv, LockOrAnswer, LeaseEarned, AskedTwice
<1>6. Backed'
  <2>1. NoAnswer.status # "reserved"
    BY DEF NoAnswer
  <2> QED
    BY <2>1, <1>1, <1>2 DEF BInv, Backed, Booked, KeyOf
<1>7. (KeysOwned /\ AnswersSettled)'
  BY <1>1 DEF BInv, KeysOwned, AnswersSettled, Settled, KeyOf, client
<1> QED
  BY <1>4, <1>5, <1>6, <1>7 DEF BInv

LEMMA InitHolds == Init => BInv
<1> SUFFICES ASSUME Init PROVE BInv
  OBVIOUS
<1>1. Len(req) = 0 /\ req \in Seq(Request)
  BY DEF Init
<1>2. NoAnswer.status # "reserved"
  BY DEF NoAnswer
<1>3. TypeOK
  BY <1>1, BookingAssumption DEF Init, TypeOK
<1>4. KeysOwned /\ LeaseEarned /\ AnswersSettled /\ LockOrAnswer
  BY <1>1 DEF Init, KeysOwned, LeaseEarned, AnswersSettled, LockOrAnswer
<1>5. Backed
  BY <1>1, <1>2 DEF Init, Backed
<1> QED
  BY <1>3, <1>4, <1>5 DEF BInv

LEMMA NextKeeps == BInv /\ [Next]_vars => BInv'
<1> SUFFICES ASSUME BInv, [Next]_vars PROVE BInv'
  OBVIOUS
<1>1. ASSUME NEW c \in Clients, NEW t \in Tokens,
             Send(c) \/ Receive(c) \/ AnswerLost(c) \/ Connect(c, t)
      PROVE  BInv'
  BY <1>1, SendKeeps, ClientKeeps
<1>2. ASSUME NEW c \in Clients, Send(c) \/ Receive(c) \/ AnswerLost(c)
      PROVE  BInv'
  <2>1. token[c] \in Tokens
    BY DEF BInv, TypeOK
  <2> QED
    BY <2>1, <1>2, <1>1
<1>3. ASSUME NEW r \in 1..Len(req), Serve(r)
      PROVE  BInv'
  <2>0. CASE ClaimResent(r) \/ LockResent(r)
    BY <2>0, ResentKeeps
  <2>1. CASE Replay(r) \/ Claim(r) \/ ClaimFails(r)
    BY <2>1, ReplayKeeps, ClaimKeeps, ClaimFailsKeeps
  <2>2. CASE Refuse(r) \/ Lock(r) \/ CheckFails(r)
    BY <2>2, RefuseKeeps, LockKeeps, CheckFailsKeeps
  <2>3. CASE Reserve(r) \/ ReserveFails(r) \/ Unlock(r) \/ UnlockFails(r)
    BY <2>3, ReserveKeeps, ReserveFailsKeeps, UnlockKeeps
  <2>4. CASE OnError(r) \/ OnSend(r) \/ OnSendFails(r) \/ Die(r)
    BY <2>4, OnErrorKeeps, OnSendKeeps, DieKeeps
  <2> QED
    BY <1>3, <2>0, <2>1, <2>2, <2>3, <2>4 DEF Serve
<1>4. CASE (\E k \in Keys : KeyLockExpires(k) \/ AnswerExpires(k)) \/ LeaseExpires \/ HoldExpires
  BY <1>4, TimeKeeps
<1>5. CASE UNCHANGED vars
  BY <1>5 DEF vars, client, redis, db, BInv, TypeOK, KeysOwned, LockOrAnswer, Backed, Booked,
              LeaseEarned, AskedTwice, AnswersSettled, Settled, KeyOf
<1> QED
  BY <1>1, <1>2, <1>3, <1>4, <1>5 DEF Next

LEMMA BookingInvariant == Spec => []BInv
  BY InitHolds, NextKeeps, PTL DEF Spec

-----------------------------------------------------------------------------
(* Theorems.                                                               *)

(* Every state that the code reaches is of the declared type: what is      *)
(* cached is a final answer (idempotency 100), and the hold in force is of *)
(* a committed reservation.                                                *)
THEOREM BookingTypeCorrect == Spec => []TypeOK
<1>1. BInv => TypeOK
  BY DEF BInv
<1> QED
  BY <1>1, BookingInvariant, PTL

(* Every 201, first or replayed, has a reservation committed for its key,  *)
(* user and bearer (idempotency 70-77, reservation.service 38).            *)
THEOREM AcceptedWasReserved == Spec => []AcceptedReserved
<1>1. BInv => AcceptedReserved
  <2> SUFFICES ASSUME BInv, NEW r \in 1..Len(req), req[r].status = "reserved"
               PROVE  \E q \in reservations : /\ req[q].key = req[r].key
                                              /\ req[q].client = req[r].client
                                              /\ req[q].token = req[r].token
    BY DEF AcceptedReserved
  <2>1. PICK q \in reservations : KeyOf(q) = KeyOf(r) /\ req[q].token = req[r].token
    BY DEF BInv, Backed, Booked
  <2>2. q \in 1..Len(req)
    BY DEF BInv, TypeOK
  <2>3. req[q].client = req[r].client
    BY <2>1, <2>2 DEF BInv, KeysOwned, KeyOf
  <2> QED
    BY <2>1, <2>3 DEF KeyOf
<1> QED
  BY <1>1, BookingInvariant, PTL

(* Who is turned away leaves no lease behind (reservation.service 63).     *)
THEOREM TurnedAwayLeavesNoLease == Spec => []NoOrphanLease
<1>1. BInv => NoOrphanLease
  BY Bearings DEF BInv, NoOrphanLease, LeaseEarned, AskedTwice, At
<1> QED
  BY <1>1, BookingInvariant, PTL

(* A stored answer stays until it expires: who stores holds the key's      *)
(* lock, and a key with an answer has none (idempotency 64-69, 96-99).     *)
THEOREM AnswersStay == Spec => AnswerStable
<1> DEFINE Stays == \A k \in Keys : cache[k] # NoAnswer => cache'[k] \in {cache[k], NoAnswer}
<1>1. BInv /\ [Next]_vars => [Stays]_vars
  <2> SUFFICES ASSUME BInv, Next PROVE Stays
    OBVIOUS
  <2>1. CASE \E c \in Clients : Send(c) \/ Receive(c) \/ AnswerLost(c)
    BY <2>1 DEF Send, Receive, AnswerLost, redis
  <2>2. CASE \E c \in Clients, t \in Tokens : Connect(c, t)
    BY <2>2 DEF Connect, redis
  <2>3. ASSUME NEW r \in 1..Len(req), OnSend(r) PROVE Stays
    <3>1. OwnsKey(r) => cache[KeyOf(r)] = NoAnswer
      BY Bearings DEF OwnsKey, LockOrAnswer
    <3> QED
      BY <3>1, <2>3, Bearings DEF OnSend
  <2>4. ASSUME NEW r \in 1..Len(req), Serve(r), ~OnSend(r) PROVE Stays
    BY <2>4 DEF Serve, Replay, Claim, ClaimResent, ClaimFails, Refuse, Lock, LockResent, CheckFails,
                Reserve, ReserveFails, Unlock, UnlockFails, OnError, OnSendFails, Die, redis
  <2>5. CASE \E k \in Keys : KeyLockExpires(k) \/ AnswerExpires(k)
    BY <2>5 DEF KeyLockExpires, AnswerExpires, BInv, TypeOK
  <2>6. CASE LeaseExpires \/ HoldExpires
    BY <2>6 DEF LeaseExpires, HoldExpires, redis
  <2> QED
    BY <2>1, <2>2, <2>3, <2>4, <2>5, <2>6 DEF Next
<1> QED
  BY <1>1, BookingInvariant, PTL DEF Spec, AnswerStable

(* The seat's lease and a key's lock fall to their owner or to time, never *)
(* to a request that has lost them (redis 22, idempotency 97 and 112).     *)
THEOREM LocksStayFenced == Spec => LocksFenced
<1> DEFINE Fenced == \A r \in 1..Len(req) : req'[r] = req[r] /\ req' # req =>
                        /\ lease = r => lease' = r
                        /\ \A k \in Keys : keyLock[k] = r => keyLock'[k] = r
<1>1. BInv /\ [Next]_vars => [Fenced]_vars
  <2> SUFFICES ASSUME BInv, Next, NEW r \in 1..Len(req), req'[r] = req[r], req' # req
               PROVE  /\ lease = r => lease' = r
                      /\ \A k \in Keys : keyLock[k] = r => keyLock'[k] = r
    OBVIOUS
  <2>1. CASE \E c \in Clients : Send(c) \/ Receive(c) \/ AnswerLost(c)
    BY <2>1 DEF Send, Receive, AnswerLost, redis
  <2>2. CASE \E c \in Clients, t \in Tokens : Connect(c, t)
    BY <2>2 DEF Connect
  <2>3. ASSUME NEW q \in 1..Len(req), Serve(q)
        PROVE  /\ lease = r => lease' = r
               /\ \A k \in Keys : keyLock[k] = r => keyLock'[k] = r
    <3>1. r # NoRequest
      BY Bearings
    <3>2. ASSUME Unlock(q) \/ UnlockFails(q) \/ OnError(q) \/ OnSend(q) \/ OnSendFails(q)
          PROVE  q # r
      <4>1. req[q] \in Request /\ req \in Seq(Request)
        BY Bearings
      <4>2. PICK st, res : To(q, st, res) /\ st # req[q].step
        BY <3>2 DEF Unlock, UnlockFails, OnError, OnSend, OnSendFails, At
      <4>3. req'[q].step = st
        BY <4>1, <4>2 DEF To, Request
      <4> QED
        BY <4>2, <4>3
    <3>3. CASE Unlock(q) \/ UnlockFails(q) \/ OnError(q) \/ OnSend(q) \/ OnSendFails(q)
      BY <3>2, <3>3, Bearings
      DEF Unlock, UnlockFails, Release, OwnsLease, OnError, OnSend, OnSendFails, DropLock, OwnsKey, redis
    <3>4. CASE Claim(q) \/ ClaimResent(q) \/ ClaimFails(q)
      BY <3>1, <3>4, Bearings DEF Claim, ClaimResent, ClaimFails, TakeLock, Unlocked
    <3>5. CASE \/ Replay(q) \/ Refuse(q) \/ Lock(q) \/ LockResent(q) \/ CheckFails(q)
               \/ Reserve(q) \/ ReserveFails(q) \/ Die(q)
      BY <3>1, <3>5
      DEF Replay, Refuse, Lock, LockResent, CheckFails, Reserve, ReserveFails, Die, redis
    <3> QED
      BY <2>3, <3>3, <3>4, <3>5 DEF Serve
  <2>4. CASE (\E k \in Keys : KeyLockExpires(k) \/ AnswerExpires(k)) \/ LeaseExpires \/ HoldExpires
    BY <2>4 DEF KeyLockExpires, AnswerExpires, LeaseExpires, HoldExpires
  <2> QED
    BY <2>1, <2>2, <2>3, <2>4 DEF Next
<1> QED
  BY <1>1, BookingInvariant, PTL DEF Spec, LocksFenced

-----------------------------------------------------------------------------
(* When a client is told that its request is still running.  The run       *)
(* key_forgotten shows a key given up for that answer; the theorem below   *)
(* says that it takes a key that was sent before.                          *)

(* A look-up of the request was sent again after it had taken the lock.    *)
ClaimedTwice(r) == "claim" \in req[r].twice

(* The owner of a key's lock has that key, and knows of the lock or not    *)
(* depending on which answer it got.                                       *)
LockTaken ==
    \A k \in Keys : keyLock[k] # NoRequest =>
        /\ keyLock[k] \in 1..Len(req)
        /\ KeyOf(keyLock[k]) = k
        /\ At(keyLock[k], "arrive") => ClaimedTwice(keyLock[k])

(* Only a key that another request has too is answered 'still running', or *)
(* one whose own look-up ioredis sent twice.                               *)
BusyRepeated ==
    \A r \in 1..Len(req) :
        req[r].status = "busy" =>
            ClaimedTwice(r) \/ \E q \in 1..Len(req) : q # r /\ KeyOf(q) = KeyOf(r)

(* A request moves on from the look-up at most, takes no lock but its own  *)
(* key's, and says 'still running' only of another's.                      *)
LEMMA RequestMoves ==
    ASSUME BInv, LockTaken, BusyRepeated, NEW r \in 1..Len(req), NEW st, NEW res,
           Moved(r, st, res), st # "arrive" \/ ClaimedTwice(r)',
           \A k \in Keys : \/ keyLock'[k] \in {keyLock[k], NoRequest}
                           \/ keyLock'[k] = r /\ k = KeyOf(r),
           res = "busy" => \/ req[r].status = "busy" \/ ClaimedTwice(r)
                           \/ keyLock[KeyOf(r)] \notin {r, NoRequest}
    PROVE  LockTaken' /\ BusyRepeated'
<1>1. Len(req') = Len(req) /\ \A q \in 1..Len(req) : KeyOf(q)' = KeyOf(q)
  BY DEF Moved, KeyOf
<1>2. KeyOf(r) \in Keys
  BY Bearings
<1>3. LockTaken'
  <2> SUFFICES ASSUME NEW k \in Keys, keyLock'[k] # NoRequest
               PROVE  /\ keyLock'[k] \in 1..Len(req)
                      /\ KeyOf(keyLock'[k]) = k
                      /\ \/ req'[keyLock'[k]].step # "arrive"
                         \/ "claim" \in req'[keyLock'[k]].twice
    BY <1>1 DEF LockTaken, ClaimedTwice, At
  <2>1. CASE keyLock'[k] = r /\ k = KeyOf(r)
    BY <2>1 DEF Moved, ClaimedTwice
  <2>2. CASE keyLock'[k] = keyLock[k]
    <3>1. /\ keyLock[k] \in 1..Len(req) /\ KeyOf(keyLock[k]) = k
          /\ req[keyLock[k]].step # "arrive" \/ "claim" \in req[keyLock[k]].twice
      BY <2>2 DEF LockTaken, ClaimedTwice, At
    <3> QED
      BY <2>2, <3>1 DEF Moved, ClaimedTwice
  <2> QED
    BY <2>1, <2>2
<1>4. BusyRepeated'
  <2>1. ASSUME NEW q \in 1..Len(req), req'[q].status = "busy"
        PROVE  ClaimedTwice(q) \/ \E p \in 1..Len(req) : p # q /\ KeyOf(p) = KeyOf(q)
    <3>1. CASE req[q].status = "busy"
      BY <3>1 DEF BusyRepeated
    <3>2. CASE req[q].status # "busy"
      <4>1. q = r /\ (ClaimedTwice(r) \/ keyLock[KeyOf(r)] \notin {r, NoRequest})
        BY <2>1, <3>2 DEF Moved
      <4> QED
        BY <4>1, <1>2 DEF LockTaken
    <3> QED
      BY <3>1, <3>2
  <2>2. \A q \in 1..Len(req) : ClaimedTwice(q) => ClaimedTwice(q)'
    BY DEF ClaimedTwice, Moved
  <2> QED
    BY <1>1, <2>1, <2>2 DEF BusyRepeated
<1> QED
  BY <1>3, <1>4

LEMMA ServedMoves ==
    ASSUME BInv, LockTaken, BusyRepeated, NEW r \in 1..Len(req), Serve(r)
    PROVE  LockTaken' /\ BusyRepeated'
<1> DEFINE LocksOf == \A k \in Keys : \/ keyLock'[k] \in {keyLock[k], NoRequest}
                                      \/ keyLock'[k] = r /\ k = KeyOf(r)
<1>1. req \in Seq(Request) /\ req[r].status \in Statuses /\ req[r].step \in Running \cup {"answered", "gone"}
  <2>1. req[r] \in Request
    BY Bearings
  <2> QED
    BY <2>1, Bearings DEF Request
<1>2. ASSUME NEW st \in Running \cup {"answered", "gone"}, NEW res \in Statuses, To(r, st, res),
             st # "arrive", LocksOf, res # "busy" \/ req[r].status = "busy"
      PROVE  LockTaken' /\ BusyRepeated'
  BY <1>1, <1>2, MoveKeeps, RequestMoves
<1>3. CASE Claim(r) /\ ~Unlocked(r)
  <2>1. To(r, "answered", "busy") /\ UNCHANGED keyLock
    BY <1>3 DEF Claim
  <2>2. keyLock[KeyOf(r)] \notin {r, NoRequest} \/ ClaimedTwice(r)
    <3>1. KeyOf(r) \in Keys /\ req[r].step = "arrive" /\ keyLock[KeyOf(r)] # NoRequest
      BY <1>3, Bearings DEF Claim, At, Unlocked
    <3> QED
      BY <3>1 DEF LockTaken, At
  <2>3. Moved(r, "answered", "busy")
    BY <1>1, <2>1, MoveKeeps DEF Statuses
  <2> QED
    BY <2>1, <2>2, <2>3, RequestMoves
<1>4. LocksOf
  BY Bearings DEF Serve, Replay, Claim, ClaimResent, ClaimFails, Refuse, Lock, LockResent, CheckFails,
                  Reserve, ReserveFails, Unlock, UnlockFails, OnError, OnSend, OnSendFails, Die,
                  DropLock, TakeLock, redis
<1> HIDE DEF LocksOf
<1>5. CASE Replay(r)
  <2> DEFINE res == IF SameAccess(r) THEN cache[KeyOf(r)].status ELSE "mismatch"
  <2>1. res \in Statuses /\ res # "busy"
    BY <1>5, Bearings DEF Replay, Cached, Answer, Statuses, Final
  <2>2. To(r, "answered", res)
    BY <1>5 DEF Replay
  <2> HIDE DEF res
  <2> QED
    BY <1>2, <1>4, <2>1, <2>2
<1>6. CASE (Claim(r) /\ Unlocked(r)) \/ ClaimFails(r) \/ Refuse(r) \/ Lock(r) \/ CheckFails(r)
  <2>1. PICK st \in Running \cup {"answered"}, res \in Statuses :
            To(r, st, res) /\ st # "arrive" /\ res # "busy"
    BY <1>6 DEF Claim, ClaimFails, Refuse, Lock, CheckFails, Running, Statuses, Final
  <2> QED
    BY <1>2, <1>4, <2>1
<1>7. CASE Reserve(r) \/ ReserveFails(r) \/ UnlockFails(r) \/ OnError(r)
  <2>1. PICK st \in Running, res \in Statuses : To(r, st, res) /\ st # "arrive" /\ res # "busy"
    BY <1>7 DEF Reserve, ReserveFails, UnlockFails, OnError, AfterConflict, Running, Statuses, Final
  <2> QED
    BY <1>2, <1>4, <2>1
<1>8. CASE Unlock(r) \/ OnSend(r) \/ OnSendFails(r) \/ Die(r)
  <2>1. PICK st \in Running \cup {"answered", "gone"} : To(r, st, req[r].status) /\ st # "arrive"
    BY <1>8 DEF Unlock, OnSend, OnSendFails, Die, Running
  <2> QED
    BY <1>1, <1>2, <1>4, <2>1
<1>9. CASE ClaimResent(r) \/ LockResent(r)
  <2> DEFINE st == req[r].step
             res == req[r].status
  <2>1. Moved(r, st, res) /\ (st # "arrive" \/ ClaimedTwice(r)')
    BY <1>1, <1>9, TwiceKeeps DEF ClaimResent, LockResent, ClaimedTwice, At
  <2>2. /\ \A k \in Keys : \/ keyLock'[k] \in {keyLock[k], NoRequest}
                           \/ keyLock'[k] = r /\ k = KeyOf(r)
        /\ res = "busy" => req[r].status = "busy"
    BY <1>4 DEF LocksOf
  <2> HIDE DEF st, res
  <2> QED
    BY <2>1, <2>2, RequestMoves
<1> QED
  BY <1>3, <1>5, <1>6, <1>7, <1>8, <1>9 DEF Serve

LEMMA SentMoves ==
    ASSUME BInv, LockTaken, BusyRepeated, NEW c \in Clients, Send(c)
    PROVE  LockTaken' /\ BusyRepeated'
<1> DEFINE k == IF key[c] = NoKey THEN Len(req) + 1 ELSE key[c]
           e == [client |-> c, key |-> k, token |-> token[c], step |-> "arrive", status |-> "none", twice |-> {}]
<1>1. req \in Seq(Request) /\ Len(req) \in Nat /\ Len(req) < MaxRequests
  BY BookingAssumption DEF BInv, TypeOK, Send
<1>2. k \in Keys
  BY <1>1, BookingAssumption DEF BInv, TypeOK, Keys, Requests, NoKey
<1>3. e \in Request
  BY <1>2 DEF BInv, TypeOK, Request, Running, Statuses
<1>4. req' = Append(req, e) /\ keyLock' = keyLock
  BY DEF Send, redis
<1> HIDE DEF e
<1>5. /\ Len(req') = Len(req) + 1
      /\ \A q \in 1..Len(req) : req'[q] = req[q]
      /\ req'[Len(req) + 1] = e
  BY <1>1, <1>3, <1>4, SendAppends
<1>6. 1..Len(req) \subseteq 1..Len(req')
  BY <1>1, <1>5
<1>7. LockTaken'
  BY <1>4, <1>5, <1>6 DEF LockTaken, ClaimedTwice, KeyOf, At
<1>8. BusyRepeated'
  <2> SUFFICES ASSUME NEW q \in 1..Len(req'), req'[q].status = "busy"
               PROVE  \/ "claim" \in req'[q].twice
                      \/ \E p \in 1..Len(req') : p # q /\ req'[p].key = req'[q].key
    BY DEF BusyRepeated, ClaimedTwice, KeyOf
  <2>1. q \in 1..Len(req)
    <3>1. e.status # "busy"
      BY DEF e
    <3> QED
      BY <1>1, <1>5, <3>1
  <2>2. \/ "claim" \in req[q].twice
        \/ \E p \in 1..Len(req) : p # q /\ req[p].key = req[q].key
    BY <1>5, <2>1 DEF BusyRepeated, ClaimedTwice, KeyOf
  <2> QED
    BY <1>5, <1>6, <2>1, <2>2
<1> QED
  BY <1>7, <1>8

(* A client is told 'still running' only for a key it has sent before: the *)
(* first try of a key is turned away by its own lock only if its look-up   *)
(* was executed twice (idempotency 64-92).                                 *)
THEOREM OnlyRetriesAreBusy == Spec => []BusyRepeated
<1>1. Init => LockTaken /\ BusyRepeated
  BY DEF Init, LockTaken, BusyRepeated
<1>2. BInv /\ LockTaken /\ BusyRepeated /\ [Next]_vars => LockTaken' /\ BusyRepeated'
  <2> SUFFICES ASSUME BInv, LockTaken, BusyRepeated, [Next]_vars
               PROVE  LockTaken' /\ BusyRepeated'
    OBVIOUS
  <2>1. CASE UNCHANGED req /\ \A k \in Keys : keyLock'[k] \in {keyLock[k], NoRequest}
    BY <2>1 DEF LockTaken, BusyRepeated, ClaimedTwice, KeyOf, At
  <2>2. CASE UNCHANGED <<req, keyLock>>
    BY <2>1, <2>2
  <2>3. CASE \E k \in Keys : KeyLockExpires(k)
    BY <2>1, <2>3 DEF KeyLockExpires, BInv, TypeOK
  <2> QED
    BY <2>2, <2>3, ServedMoves, SentMoves
       DEF Next, vars, client, redis, Receive, AnswerLost, Connect, AnswerExpires, LeaseExpires, HoldExpires
<1> QED
  BY <1>1, <1>2, BookingInvariant, PTL DEF Spec
=============================================================================
