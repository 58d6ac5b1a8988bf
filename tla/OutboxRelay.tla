----------------------------- MODULE OutboxRelay -----------------------------
(***************************************************************************)
(* PubSubService: the way of a committed OutboxEvent row through the Redis *)
(* stream into ProcessedOrderEvent.                                        *)
(*                                                                         *)
(* Every replica runs three tasks: a publisher (publishOutboxBatch), a     *)
(* consumer of the group (consumeLoop) and a recoverer (recoverPending).   *)
(* Every call to PostgreSQL or Redis is a step; it may fail, or take       *)
(* effect and lose its answer, and a task may die between any two.  Such   *)
(* troubles are counted, and MaxTroubles bounds them.                      *)
(***************************************************************************)
EXTENDS Integers, Sequences, FiniteSets

CONSTANTS
    MaxRows,         \* bound: outbox rows ever committed
    Publishers, Consumers, Recoverers,
    ClaimLimit,      \* LIMIT of the claim
    ReadCount,       \* COUNT of XREADGROUP
    PendingCount,    \* count of XPENDING
    MaxTroubles,     \* bound: failures, lost answers, deaths, slow owners
    NoOne

Rows    == 1..MaxRows     \* in the order of createdAt
NoRow   == 0              \* a stream message without an outboxId
Workers == Consumers \cup Recoverers

ASSUME RelayAssumption ==
    /\ MaxRows \in Nat
    /\ ClaimLimit \in Nat \ {0}
    /\ ReadCount \in Nat \ {0}
    /\ PendingCount \in Nat \ {0}
    /\ MaxTroubles \in Nat
    /\ NoOne \notin Publishers

VARIABLES
    committed,   \* how many rows have been committed
    published,   \* rows with publishedAt
    claim,       \* publishingToken: the publisher whose batch it is, or NoOne
    lapsed,      \* claimed rows whose publishingAt is over 60 s ago
    pub,         \* each publisher's batch
    stream,      \* the stream's messages, by their outboxId
    delivered,   \* the group's last-delivered message
    pending,     \* delivered messages without XACK
    idle,        \* pending messages idle for over 60 s
    work,        \* each worker's messages
    recorded,    \* ProcessedOrderEvent ids
    troubles

outbox == <<committed, published, claim, lapsed>>
group  == <<stream, delivered, pending, idle>>
vars   == <<outbox, pub, group, work, recorded, troubles>>

Batches == [step : {"idle", "add", "mark", "unclaim"}, row : Rows \cup {NoRow}, rest : SUBSET Rows]
NoBatch == [step |-> "idle", row |-> NoRow, rest |-> {}]
Tasks   == [step : {"idle", "record", "ack"}, msg : Nat, last : Nat]
NoTask  == [step |-> "idle", msg |-> 0, last |-> 0]

TypeOK ==
    /\ committed \in 0..MaxRows
    /\ published \subseteq 1..committed
    /\ claim \in [Rows -> Publishers \cup {NoOne}]
    /\ lapsed \subseteq Rows
    /\ pub \in [Publishers -> Batches]
    /\ stream \in Seq(Rows \cup {NoRow})
    /\ delivered \in 0..Len(stream)
    /\ pending \subseteq 1..delivered
    /\ idle \subseteq pending
    /\ work \in [Workers -> Tasks]
    /\ recorded \subseteq Rows
    /\ troubles \in 0..MaxTroubles

(* The n least elements of a set of numbers.                               *)
Oldest(n, S) == {i \in S : Cardinality({j \in S : j < i}) < n}

Trouble == troubles < MaxTroubles /\ troubles' = troubles + 1
NoTrouble == UNCHANGED troubles

(* A stream from before the outbox may hold messages without outboxId.     *)
Init ==
    /\ committed = 0
    /\ published = {}
    /\ claim = [r \in Rows |-> NoOne]
    /\ lapsed = {}
    /\ pub = [p \in Publishers |-> NoBatch]
    /\ stream \in {<<>>, <<NoRow>>}
    /\ delivered = 0
    /\ pending = {}
    /\ idle = {}
    /\ work = [w \in Workers |-> NoTask]
    /\ recorded = {}
    /\ troubles = 0

-----------------------------------------------------------------------------
(* The outbox table.                                                       *)

(* A reservation's or a sale's transaction commits with its event.         *)
Commit ==
    /\ committed < MaxRows
    /\ committed' = committed + 1
    /\ UNCHANGED <<published, claim, lapsed, pub, group, work, recorded, troubles>>

(* slip: rows of transactions still open                                   *)
Uncommitted == {r \in Rows \ published : claim[r] = NoOne \/ r \in lapsed}
(* slip: only rows that nobody has claimed yet                             *)
Unclaimed == {r \in (1..committed) \ published : claim[r] = NoOne}
Claimable == {r \in (1..committed) \ published : claim[r] = NoOne \/ r \in lapsed}

(* The row a publisher turns to when it is done with one.  The claim's     *)
(* RETURNING promises no order inside the batch.                           *)
Turn(p, rows) ==
    IF rows = {} THEN pub' = [pub EXCEPT ![p] = NoBatch]
    ELSE \E r \in rows :
            pub' = [pub EXCEPT ![p] = [step |-> "add", row |-> r, rest |-> rows \ {r}]]

(* The claim: one UPDATE of the oldest claimable rows, SKIP LOCKED.        *)
ClaimRows(p, rows) ==
    /\ pub[p].step = "idle"
    /\ rows # {}
    /\ claim' = [r \in Rows |-> IF r \in rows THEN p ELSE claim[r]]
    /\ lapsed' = lapsed \ rows
    /\ UNCHANGED <<committed, published, group, work, recorded>>

Scan(p) ==
    /\ ClaimRows(p, Oldest(ClaimLimit, Claimable))
    /\ Turn(p, Oldest(ClaimLimit, Claimable))
    /\ NoTrouble

ScanAnswerLost(p) ==
    /\ ClaimRows(p, Oldest(ClaimLimit, Claimable))
    /\ UNCHANGED pub
    /\ Trouble

(* A claim is 60 s old.  With its publisher still at work on the row that  *)
(* takes a slow one: a batch of rows, each with its own timeouts.          *)
AtWork(r) == \E p \in Publishers : /\ claim[r] = p
                                   /\ pub[p].step # "idle"
                                   /\ r \in {pub[p].row} \cup pub[p].rest

Lapse(r) ==
    /\ claim[r] # NoOne
    /\ r \notin lapsed
    /\ lapsed' = lapsed \cup {r}
    /\ IF AtWork(r) THEN Trouble ELSE NoTrouble
    /\ UNCHANGED <<committed, published, claim, pub, group, work, recorded>>

-----------------------------------------------------------------------------
(* publishOutboxBatch, row by row.                                         *)

At(p, step) == pub[p].step = step
RowOf(p)    == pub[p].row
Goto(p, step) == pub' = [pub EXCEPT ![p].step = step]
XAdd(p)     == stream' = Append(stream, RowOf(p)) /\ UNCHANGED <<delivered, pending, idle>>

Unfenced(p) == RowOf(p) \notin published      \* slip: updateMany without the token
Owns(p)     == RowOf(p) \notin published /\ claim[RowOf(p)] = p

(* The two updateMany: publishedAt, or only the claim taken off.           *)
SetPublished(p) ==
    IF Owns(p)
    THEN /\ published' = published \cup {RowOf(p)}
         /\ claim' = [claim EXCEPT ![RowOf(p)] = NoOne]
         /\ lapsed' = lapsed \ {RowOf(p)}
    ELSE UNCHANGED <<published, claim, lapsed>>

SetUnclaimed(p) ==
    IF Owns(p)
    THEN /\ claim' = [claim EXCEPT ![RowOf(p)] = NoOne]
         /\ lapsed' = lapsed \ {RowOf(p)}
    ELSE UNCHANGED <<claim, lapsed>>

Add(p) ==
    /\ At(p, "add")
    /\ XAdd(p)
    /\ Goto(p, "mark")
    /\ NoTrouble
    /\ UNCHANGED <<outbox, work, recorded>>

(* ioredis sends an unanswered command again (maxRetriesPerRequest = 1).   *)
AddResent(p) ==
    /\ At(p, "add")
    /\ XAdd(p)
    /\ Trouble
    /\ UNCHANGED <<outbox, pub, work, recorded>>

MarkAnyway  == "mark"           \* slip: marked in a finally
AfterAddFails == "unclaim"

AddFails(p) ==
    /\ At(p, "add")
    /\ XAdd(p) \/ UNCHANGED group
    /\ Goto(p, AfterAddFails)
    /\ Trouble
    /\ UNCHANGED <<outbox, work, recorded>>

Mark(p) ==
    /\ At(p, "mark")
    /\ SetPublished(p)
    /\ Turn(p, pub[p].rest)
    /\ NoTrouble
    /\ UNCHANGED <<committed, group, work, recorded>>

MarkFails(p) ==
    /\ At(p, "mark")
    /\ SetPublished(p) \/ UNCHANGED <<published, claim, lapsed>>
    /\ Goto(p, "unclaim")
    /\ Trouble
    /\ UNCHANGED <<committed, group, work, recorded>>

Unclaim(p) ==
    /\ At(p, "unclaim")
    /\ SetUnclaimed(p)
    /\ Turn(p, pub[p].rest)
    /\ NoTrouble
    /\ UNCHANGED <<committed, published, group, work, recorded>>

(* .catch(() => undefined): the claim is left to lapse.                    *)
UnclaimFails(p) ==
    /\ At(p, "unclaim")
    /\ Turn(p, pub[p].rest)
    /\ Trouble
    /\ UNCHANGED <<outbox, group, work, recorded>>

PublisherDies(p) ==
    /\ ~At(p, "idle")
    /\ pub' = [pub EXCEPT ![p] = NoBatch]
    /\ Trouble
    /\ UNCHANGED <<outbox, group, work, recorded>>

-----------------------------------------------------------------------------
(* The consumer group.                                                     *)

Begin(w, first, last) ==
    work' = [work EXCEPT ![w] = [step |-> "record", msg |-> first, last |-> last]]

(* XREADGROUP '>': new messages become pending, and this consumer's.       *)
Deliver(n) ==
    /\ n > 0
    /\ delivered' = delivered + n
    /\ pending' = pending \cup (delivered + 1)..(delivered + n)
    /\ UNCHANGED <<outbox, pub, stream, idle, recorded>>

NewMessages == LET n == Len(stream) - delivered IN IF n < ReadCount THEN n ELSE ReadCount

Read(c) ==
    /\ work[c].step = "idle"
    /\ Deliver(NewMessages)
    /\ Begin(c, delivered + 1, delivered + NewMessages)
    /\ NoTrouble

ReadAnswerLost(c) ==
    /\ work[c].step = "idle"
    /\ Deliver(NewMessages)
    /\ Trouble
    /\ UNCHANGED work

(* processMessage: a known outboxId is a duplicate, none is ignored.       *)
Recorded(w) ==
    LET row == stream[work[w].msg] IN IF row = NoRow THEN recorded ELSE recorded \cup {row}

Record(w) ==
    /\ work[w].step = "record"
    /\ recorded' = Recorded(w)
    /\ work' = [work EXCEPT ![w].step = "ack"]
    /\ NoTrouble
    /\ UNCHANGED <<outbox, pub, group>>

XAck(w) ==
    /\ pending' = pending \ {work[w].msg}
    /\ idle' = idle \ {work[w].msg}
    /\ UNCHANGED <<stream, delivered>>

Ack(w) ==
    /\ work[w].step = "ack"
    /\ XAck(w)
    /\ IF work[w].msg < work[w].last
       THEN Begin(w, work[w].msg + 1, work[w].last)
       ELSE work' = [work EXCEPT ![w] = NoTask]
    /\ NoTrouble
    /\ UNCHANGED <<outbox, pub, recorded>>

(* A call throws or the task dies: the rest of its messages stay pending.  *)
WorkerStops(w) ==
    /\ work[w].step # "idle"
    /\ \/ UNCHANGED <<group, recorded>>
       \/ work[w].step = "record" /\ recorded' = Recorded(w) /\ UNCHANGED group
       \/ work[w].step = "ack" /\ XAck(w) /\ UNCHANGED recorded
    /\ work' = [work EXCEPT ![w] = NoTask]
    /\ Trouble
    /\ UNCHANGED <<outbox, pub>>

(* A message has been pending for 60 s without XCLAIM; while a worker has  *)
(* it, that takes a slow one.                                              *)
InHand(m) == \E w \in Workers : work[w].step # "idle" /\ m \in work[w].msg..work[w].last

Idles(m) ==
    /\ m \in pending \ idle
    /\ idle' = idle \cup {m}
    /\ IF InHand(m) THEN Trouble ELSE NoTrouble
    /\ UNCHANGED <<outbox, pub, stream, delivered, pending, work, recorded>>

(* recoverPending: XPENDING and, for a message idle then and still, XCLAIM.*)
ClaimMessage(m) ==
    /\ m \in Oldest(PendingCount, pending) \cap idle
    /\ idle' = idle \ {m}
    /\ UNCHANGED <<outbox, pub, stream, delivered, pending, recorded>>

Recover(v, m) ==
    /\ work[v].step = "idle"
    /\ ClaimMessage(m)
    /\ Begin(v, m, m)
    /\ NoTrouble

RecoverAnswerLost(v, m) ==
    /\ work[v].step = "idle"
    /\ ClaimMessage(m)
    /\ Trouble
    /\ UNCHANGED work

Publishing(p) ==
    \/ Scan(p) \/ ScanAnswerLost(p) \/ Add(p) \/ AddResent(p) \/ AddFails(p) \/ Mark(p) \/ MarkFails(p)
    \/ Unclaim(p) \/ UnclaimFails(p) \/ PublisherDies(p)

Next ==
    \/ Commit
    \/ \E r \in Rows : Lapse(r)
    \/ \E p \in Publishers : Publishing(p)
    \/ \E c \in Consumers : Read(c) \/ ReadAnswerLost(c)
    \/ \E w \in Workers : Record(w) \/ Ack(w) \/ WorkerStops(w)
    \/ \E m \in pending : Idles(m)
    \/ \E v \in Recoverers, m \in pending : Recover(v, m) \/ RecoverAnswerLost(v, m)

Spec == Init /\ [][Next]_vars

(* Fairness: running tasks go on, and time passes.  Troubles need not end  *)
(* by fairness: they are bounded.                                          *)
Fairness ==
    /\ \A p \in Publishers : WF_vars(Scan(p) \/ Add(p) \/ Mark(p) \/ Unclaim(p))
    /\ \A c \in Consumers : WF_vars(Read(c))
    /\ \A w \in Workers : WF_vars(Record(w) \/ Ack(w))
    /\ \A v \in Recoverers : WF_vars(\E m \in pending : Recover(v, m))
    /\ \A r \in Rows : WF_vars(~AtWork(r) /\ Lapse(r))
    /\ WF_vars(\E m \in pending : ~InHand(m) /\ Idles(m))

FairSpec == Spec /\ Fairness

-----------------------------------------------------------------------------
(* Properties.                                                             *)

(* No event gets lost between the table, the stream, the group and the     *)
(* record: an unrecorded one is unpublished, or has a message that is yet  *)
(* to be delivered or still pending, whatever failed (78-164).             *)
NothingForgotten ==
    \A r \in 1..committed :
        \/ r \in recorded
        \/ r \notin published
        \/ \E m \in 1..Len(stream) : stream[m] = r /\ (m > delivered \/ m \in pending)

(* The token fences a slow publisher off: a claim ends by its own batch's  *)
(* update or, once lapsed, by another claim, never because the publisher   *)
(* that had the row before comes to mark or to release it (111-119).       *)
ClaimFenced ==
    [][\A r \in Rows :
          claim[r] # NoOne /\ claim'[r] # claim[r] =>
             \/ r \in lapsed /\ claim'[r] # NoOne
             \/ RowOf(claim[r]) = r /\ pub[claim[r]].step \in {"mark", "unclaim"}
                /\ pub'[claim[r]] # pub[claim[r]]]_vars

(* Every committed event is recorded in the end, once the troubles end.    *)
EveryEventRecorded == \A r \in Rows : r =< committed ~> r \in recorded

InStream(S) == {r \in Rows : \E m \in 1..Len(S) : S[m] = r}

Delivery == INSTANCE EventDelivery WITH
    committed <- 1..committed, streamed <- InStream(stream)

(* Events reach the stream only after their commit and the record only     *)
(* after the stream, and no step takes either back.                        *)
ImplementsDelivery == Delivery!Spec
=============================================================================
