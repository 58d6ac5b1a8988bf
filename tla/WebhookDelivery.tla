--------------------------- MODULE WebhookDelivery ---------------------------
(***************************************************************************)
(* Stripe's payment_intent.succeeded deliveries and the API's webhook      *)
(* handlers, in front of the rows of SeatInventory.                        *)
(*                                                                         *)
(* A handler is one run of handleStripeWebhook in some replica.  It takes  *)
(* a Redis lease on the event id, asks whether the event was processed,    *)
(* confirms the reservation, and refunds a payment that came too late.     *)
(* Every await is a step boundary: another handler, an expiry, a failure   *)
(* of the call or the death of the replica may come in between.            *)
(***************************************************************************)
EXTENDS SeatInventory

CONSTANTS Handlers, NoHandler

ASSUME HandlerAssumption == NoHandler \notin Handlers

VARIABLES
    hook,      \* each handler's control state
    lease,     \* Redis webhook:processed:<event>, and who set it
    refunded,  \* PaymentIntents Stripe has refunded (idempotency key refund:<id>)
    acked      \* events Stripe has had a 200 for

hookVars == <<hook, lease, refunded, acked>>
allVars  == <<vars, hookVars>>

(* replay: the event was found processed, so the 200 goes out before the   *)
(* lease is released; result: what the handler answers after the release.  *)
Steps == {"idle", "check", "confirm", "commit", "find", "refund", "mark", "release"}
Hooks == [step : Steps, event : Events \cup {NoEvent}, replay : BOOLEAN,
          result : {"ok", "error"}]
Idle  == [step |-> "idle", event |-> NoEvent, replay |-> FALSE, result |-> "error"]

HookTypeOK ==
    /\ hook \in [Handlers -> Hooks]
    /\ lease \in [Events -> Handlers \cup {NoHandler}]
    /\ refunded \subseteq Intents
    /\ acked \subseteq Events

At(h, step)   == hook[h].step = step
EventOf(h)    == hook[h].event
PaymentOf(h)  == charge[EventOf(h)].paymentIntentId
RefundTarget(h)  == PaymentOf(h)

Goto(h, step) == hook' = [hook EXCEPT ![h].step = step]

(* The handler leaves its try block and owes Redis the release.            *)
Leave(h, result) == hook' = [hook EXCEPT ![h].step = "release", ![h].result = result]

HookInit ==
    /\ Init
    /\ hook = [h \in Handlers |-> Idle]
    /\ lease = [e \in Events |-> NoHandler]
    /\ refunded = {}
    /\ acked = {}

-----------------------------------------------------------------------------
(* Stripe delivers an event, at first, again, or twice at a time.  While   *)
(* the lease is taken the answer is 409, which changes nothing.            *)
Deliver(h, e) ==
    /\ At(h, "idle")
    /\ charge[e] # NoCharge
    /\ lease[e] = NoHandler
    /\ lease' = [lease EXCEPT ![e] = h]
    /\ hook' = [hook EXCEPT ![h] = [Idle EXCEPT !.step = "check", !.event = e]]
    /\ UNCHANGED <<vars, refunded, acked>>

(* Where a handler goes when the event was processed already, and when the *)
(* payment turns out to be owed.                                           *)
NothingLeft == "release"           \* slip: a known event needs no refund
AfterMarker == "find"
RecordFirst == "mark"              \* slip: the refund is recorded before it is made
AfterFind   == "refund"

(* isEventProcessed                                                        *)
Check(h) ==
    /\ At(h, "check")
    /\ hook' = IF EventOf(h) \in processed
               THEN [hook EXCEPT ![h].step = AfterMarker, ![h].replay = TRUE]
               ELSE [hook EXCEPT ![h].step = "confirm"]
    /\ UNCHANGED <<vars, lease, refunded, acked>>

HookOpen(h, t) ==
    /\ At(h, "confirm")
    /\ ConfirmOpen(EventOf(h), t)
    /\ Goto(h, "commit")
    /\ UNCHANGED <<lease, refunded, acked>>

HookPaid(h) ==
    /\ At(h, "commit")
    /\ ConfirmPaid
    /\ Leave(h, "ok")
    /\ UNCHANGED <<lease, refunded, acked>>

HookLate(h) ==
    /\ At(h, "commit")
    /\ ConfirmExpired \/ ConfirmDuplicate
    /\ Goto(h, "find")
    /\ UNCHANGED <<lease, refunded, acked>>

(* PostgreSQL commits, but the answer to COMMIT is lost: the handler       *)
(* throws although the decision stands.                                    *)
CommitAnswerLost(h) ==
    /\ At(h, "commit")
    /\ ConfirmPaid \/ ConfirmExpired \/ ConfirmDuplicate
    /\ Leave(h, "error")
    /\ UNCHANGED <<lease, refunded, acked>>

(* confirmReservation throws: no binding, or another amount.               *)
HookRejected(h) ==
    /\ At(h, "commit")
    /\ tx.outcome = "rejected"
    /\ ConfirmAbort
    /\ Leave(h, "error")
    /\ UNCHANGED <<lease, refunded, acked>>

HookRollback(h) ==
    /\ At(h, "commit")
    /\ tx.outcome # "rejected"
    /\ ConfirmAbort
    /\ Leave(h, "error")
    /\ UNCHANGED <<lease, refunded, acked>>

(* refundIfPending returns: on the replay path 200 is sent here, inside    *)
(* the try block, otherwise after the finally.                             *)
RefundSettled(h) ==
    /\ Leave(h, "ok")
    /\ acked' = IF hook[h].replay THEN acked \cup {EventOf(h)} ELSE acked

Find(h) ==
    /\ At(h, "find")
    /\ IF PendingRefund(PaymentOf(h))
       THEN Goto(h, AfterFind) /\ UNCHANGED acked
       ELSE RefundSettled(h)
    /\ UNCHANGED <<vars, lease, refunded>>

(* stripe.refunds.create: Stripe refunds the intent at most once, and its  *)
(* answer may be lost.                                                     *)
Refund(h) ==
    /\ At(h, "refund")
    /\ refunded' = refunded \cup {RefundTarget(h)}
    /\ Goto(h, "mark")
    /\ UNCHANGED <<vars, lease, acked>>

RefundAnswerLost(h) ==
    /\ At(h, "refund")
    /\ refunded' = refunded \cup {RefundTarget(h)}
    /\ Leave(h, "error")
    /\ UNCHANGED <<vars, lease, acked>>

Mark(h) ==
    /\ At(h, "mark")
    /\ MarkRefund(PaymentOf(h))
    /\ RefundSettled(h)
    /\ UNCHANGED <<lease, refunded>>

MarkAnswerLost(h) ==
    /\ At(h, "mark")
    /\ MarkRefund(PaymentOf(h))
    /\ Leave(h, "error")
    /\ UNCHANGED <<lease, refunded, acked>>

(* A call to PostgreSQL or Stripe fails without effect.                    *)
CallFails(h) ==
    /\ hook[h].step \in {"check", "confirm", "find", "refund", "mark"}
    /\ Leave(h, "error")
    /\ UNCHANGED <<vars, lease, refunded, acked>>

AnyLease(h) == TRUE                \* slip: del without the comparison
OwnLease(h) == lease[EventOf(h)] = h

AlwaysOk(h)  == TRUE               \* slip: the answer ignores the failure
AnswersOk(h) == hook[h].result = "ok"

(* finally: compare-and-delete of the lease, then the answer.              *)
Release(h) ==
    /\ At(h, "release")
    /\ lease' = IF OwnLease(h) THEN [lease EXCEPT ![EventOf(h)] = NoHandler] ELSE lease
    /\ acked' = IF AnswersOk(h) THEN acked \cup {EventOf(h)} ELSE acked
    /\ hook' = [hook EXCEPT ![h] = Idle]
    /\ UNCHANGED <<vars, refunded>>

(* The eval of the finally fails: the handler throws, the lease stays.     *)
ReleaseFails(h) ==
    /\ At(h, "release")
    /\ hook' = [hook EXCEPT ![h] = Idle]
    /\ UNCHANGED <<vars, lease, refunded, acked>>

(* The replica dies; PostgreSQL rolls its open transaction back.           *)
Crash(h) ==
    /\ ~At(h, "idle")
    /\ IF At(h, "commit") THEN ConfirmAbort ELSE UNCHANGED vars
    /\ hook' = [hook EXCEPT ![h] = Idle]
    /\ UNCHANGED <<lease, refunded, acked>>

(* PX 30000: no handler renews its lease, so it may run out at any moment. *)
LeaseExpires(e) ==
    /\ lease[e] # NoHandler
    /\ lease' = [lease EXCEPT ![e] = NoHandler]
    /\ UNCHANGED <<vars, hook, refunded, acked>>

(* Buyers: everything of SeatInventory that no webhook handler does.       *)
Buyers ==
    /\ \/ Tick
       \/ \E u \in Users, t, c \in ReplicaClock : Reserve(u, t, c)
       \/ \E u \in Users, t \in ReplicaClock : CreateIntent(u, t)
       \/ \E pi \in intents, t \in ReplicaClock : Bind(pi, t)
       \/ \E e \in Events, pi \in intents, exact \in BOOLEAN : Charge(e, pi, exact)
    /\ UNCHANGED hookVars

Work(h) ==
    \/ Check(h) \/ \E t \in ReplicaClock : HookOpen(h, t)
    \/ HookPaid(h) \/ HookLate(h) \/ HookRejected(h)
    \/ Find(h) \/ Refund(h) \/ Mark(h) \/ Release(h)

Trouble(h) ==
    \/ CommitAnswerLost(h) \/ HookRollback(h) \/ RefundAnswerLost(h) \/ MarkAnswerLost(h)
    \/ CallFails(h) \/ ReleaseFails(h) \/ Crash(h)

HookNext ==
    \/ Buyers
    \/ \E h \in Handlers, e \in Events : Deliver(h, e)
    \/ \E h \in Handlers : Work(h) \/ Trouble(h)
    \/ \E e \in Events : LeaseExpires(e)

HookSpec == HookInit /\ [][HookNext]_allVars

(* Fairness: Stripe keeps retrying an event it has no 2xx for; Redis       *)
(* expires its keys; and the calls of a handler do not fail for ever.      *)
HookFairness ==
    \A e \in Events :
        /\ WF_allVars(LeaseExpires(e))
        /\ SF_allVars(e \notin acked /\ \E h \in Handlers : Deliver(h, e))
        /\ SF_allVars(\E h \in Handlers : EventOf(h) = e /\ Check(h))
        /\ SF_allVars(\E h \in Handlers, t \in ReplicaClock : EventOf(h) = e /\ HookOpen(h, t))
        /\ SF_allVars(\E h \in Handlers : EventOf(h) = e /\ (HookPaid(h) \/ HookLate(h)))
        /\ SF_allVars(\E h \in Handlers : EventOf(h) = e /\ Find(h))
        /\ SF_allVars(\E h \in Handlers : EventOf(h) = e /\ Refund(h))
        /\ SF_allVars(\E h \in Handlers : EventOf(h) = e /\ Mark(h))
        /\ WF_allVars(\E h \in Handlers : EventOf(h) = e /\ (HookRejected(h) \/ Release(h)))

FairHookSpec == HookSpec /\ HookFairness

-----------------------------------------------------------------------------
(* Properties.                                                             *)

(* A 200 is a promise: the charge was exact, and either it bought the seat *)
(* or Stripe has already refunded it.  A failed or half-done handler never *)
(* lets Stripe forget the event (refundIfPending before every 200, 41-95). *)
AckedSettled ==
    \A e \in acked :
        LET pi == charge[e].paymentIntentId
        IN  /\ charge[e].exact
            /\ attempt[pi].status = "PAID" \/ pi \in refunded

(* Money returned is never money kept: no payment that Stripe refunded, or *)
(* that a handler is about to have refunded, stands behind a sale, however *)
(* late the handler acts on what findPendingRefund told it (14-24).        *)
RefundOnlyUnsold ==
    \A pi \in Intents :
        \/ pi \in refunded
        \/ \E h \in Handlers : hook[h].step \in {"refund", "mark"} /\ PaymentOf(h) = pi
        => attempt[pi].status # "PAID"

(* The processed marker commits with the decision it stands for: a handler *)
(* that finds it may skip confirmReservation because the payment already   *)
(* is kept, owed or returned (61-65).                                      *)
MarkerMeansDecision ==
    \A e \in processed :
        attempt[charge[e].paymentIntentId].status \in {"PAID", "REFUND_PENDING", "REFUNDED"}

(* The rows never claim a refund that Stripe did not make (22).            *)
RefundRecordTrue == \A pi \in Intents : attempt[pi].refundId => pi \in refunded

(* A handler whose lease ran out never releases its successor's: only the  *)
(* step that ends a handler takes away a lease of its own (90-93).         *)
LeaseOfSuccessorKept ==
    [][\A e \in Events, h \in Handlers :
          lease[e] = h /\ lease'[e] # h => hook' = [hook EXCEPT ![h] = Idle] \/ hook' = hook]_allVars

(* Every exact charge ends as a sale or as a refund on record, whatever    *)
(* crashes, lost answers, expired leases and repeated deliveries come in   *)
(* between, as long as Stripe retries and calls do not fail for ever.      *)
ChargeSettled ==
    \A e \in Events, pi \in Intents :
        charge[e] = [paymentIntentId |-> pi, exact |-> TRUE]
            ~> attempt[pi].status = "PAID" \/ attempt[pi].refundId
=============================================================================
