---------------------------- MODULE SeatInventory ----------------------------
(***************************************************************************)
(* The PostgreSQL rows of one seat (Seat, Ticket, PaymentAttempt,          *)
(* ProcessedWebhookEvent, OutboxEvent) and the transactions of             *)
(* ReservationService that change them.                                    *)
(*                                                                         *)
(* reserveSeat, bindPaymentIntent and confirmReservation take the Seat     *)
(* row FOR UPDATE, so they exclude one another; markRefundCompleted does   *)
(* not take it and may commit between the read and the writes of an open   *)
(* confirmReservation.  That is why confirmReservation is two steps here   *)
(* (ConfirmOpen, which reads and decides, and a commit), the others one.   *)
(*                                                                         *)
(* The callers are left open: every caller that the controllers allow may  *)
(* call at any moment, from any replica, with that replica's clock.        *)
(***************************************************************************)
EXTENDS Integers, Sequences

CONSTANTS
    Users,        \* ids of the users that exist
    Events,       \* ids of the Stripe events that report a charge
    TTL,          \* SEAT_LOCK_TTL_MS
    MaxSkew,      \* a replica's clock is off by at most this much
    MaxTime,      \* bound: the clock stops there
    EarlyCharge,  \* may Stripe report a charge before the intent is bound?
    NoUser, NoIntent, NoEvent, NoCharge

Time     == 0..MaxTime
Unlocked == -1            \* Seat.isLocked = false, lockedAt = null

(* A reservation generation is a user and the ticket's createdAt.  The     *)
(* Stripe idempotency key is made of them, so each generation has exactly  *)
(* one PaymentIntent, which the generation names.                          *)
Intents == Users \X Time

ASSUME ClockAssumption ==
    /\ TTL \in Nat \ {0}
    /\ MaxSkew \in Nat
    /\ MaxTime \in Nat
    /\ 4 * MaxSkew < TTL

ASSUME EarlyChargeAssumption ==
    /\ EarlyCharge \in BOOLEAN
    /\ EarlyCharge => MaxSkew = 0

ASSUME NullAssumption ==
    /\ NoUser \notin Users
    /\ NoIntent \notin Intents
    /\ NoEvent \notin Events
    /\ NoCharge \notin [paymentIntentId : Intents, exact : BOOLEAN]

VARIABLES
    now,        \* true time
    lockedAt,   \* Seat.lockedAt, or Unlocked
    ticket,     \* the seat's only Ticket row
    attempt,    \* PaymentAttempt rows by id
    processed,  \* ProcessedWebhookEvent ids
    outbox,     \* OutboxEvent rows in commit order
    tx,         \* the open confirmReservation transaction, holder of the row
    intents,    \* PaymentIntents that exist at Stripe
    payable,    \* those whose client secret the API has returned
    charge      \* what each Stripe event reports

rows   == <<lockedAt, ticket, attempt, processed, outbox>>
stripe == <<intents, payable, charge>>
vars   == <<now, rows, tx, stripe>>

TicketStatus  == {"NONE", "LOCKED", "PAID", "CANCELLED"}
AttemptStatus == {"NONE", "PENDING", "PAID", "REFUND_PENDING", "REFUNDED"}
Outcomes      == {"rejected", "duplicate", "expired", "paid"}

Tickets  == [status : TicketStatus, userId : Users \cup {NoUser}, createdAt : Time,
             paymentIntentId : Intents \cup {NoIntent}, refundId : BOOLEAN]
Attempts == [status : AttemptStatus, userId : Users \cup {NoUser},
             reservationCreatedAt : Time, refundId : BOOLEAN]
Charges  == [paymentIntentId : Intents, exact : BOOLEAN]
OpenTx   == [event : Events, outcome : Outcomes]

NoTicket  == [status |-> "NONE", userId |-> NoUser, createdAt |-> 0,
              paymentIntentId |-> NoIntent, refundId |-> FALSE]
NoAttempt == [status |-> "NONE", userId |-> NoUser, reservationCreatedAt |-> 0,
              refundId |-> FALSE]
NoTx      == [event |-> NoEvent, outcome |-> "rejected"]

TypeOK ==
    /\ now \in Time
    /\ lockedAt \in Time \cup {Unlocked}
    /\ ticket \in Tickets
    /\ attempt \in [Intents -> Attempts]
    /\ processed \subseteq Events
    /\ outbox \in Seq([type : {"ticket.reserved", "ticket.paid"}, userId : Users])
    /\ tx \in OpenTx \cup {NoTx}
    /\ intents \subseteq Intents
    /\ payable \subseteq intents
    /\ charge \in [Events -> Charges \cup {NoCharge}]

-----------------------------------------------------------------------------
(* Clocks and the rows as a transaction reads them.                        *)

ReplicaClock == {t \in Time : now - MaxSkew =< t /\ t =< now + MaxSkew}

Held(t) == lockedAt # Unlocked /\ lockedAt > t - TTL

(* preservePayment: the rows after it has copied a bound payment of the    *)
(* current ticket that has no PaymentAttempt row yet (update: {}).         *)
HistoryStatus ==
    CASE ticket.refundId             -> "REFUNDED"
      [] ticket.status = "PAID"      -> "PAID"
      [] ticket.status = "CANCELLED" -> "REFUND_PENDING"
      [] OTHER                       -> "PENDING"

NotPreserved == attempt                 \* slip: the recycled row's payment is lost

PreservedAttempt ==
    [pi \in Intents |->
        IF pi = ticket.paymentIntentId /\ attempt[pi].status = "NONE"
        THEN [status |-> HistoryStatus, userId |-> ticket.userId,
              reservationCreatedAt |-> ticket.createdAt, refundId |-> ticket.refundId]
        ELSE attempt[pi]]

SameUser(pi) ==                         \* slip: createdAt is not compared
    /\ ticket.status # "NONE"
    /\ ticket.userId = PreservedAttempt[pi].userId

SameReservation(pi) ==
    /\ ticket.status # "NONE"
    /\ ticket.createdAt = PreservedAttempt[pi].reservationCreatedAt
    /\ ticket.paymentIntentId = pi

Active(pi, t) == SameReservation(pi) /\ ticket.status = "LOCKED" /\ Held(t)

(* Attempts that a further event for the same payment leaves alone.        *)
OnlyRefunded == {"REFUNDED"}            \* slip: a paid seat meets a second event
Settled      == {"PAID", "REFUNDED"}

(* confirmReservation's decision, from the rows as it reads them.          *)
Outcome(e, t) ==
    LET pi   == charge[e].paymentIntentId
        read == PreservedAttempt[pi].status
    IN  CASE e \in processed                             -> "duplicate"
          [] e \notin processed /\ (read = "NONE" \/ ~charge[e].exact) -> "rejected"
          [] e \notin processed /\ read \in Settled /\ charge[e].exact -> "duplicate"
          [] OTHER -> IF Active(pi, t) THEN "paid" ELSE "expired"

RowFree == tx = NoTx          \* nobody holds the Seat row lock

(* reserveSeat's admission at the replica's clock t.                       *)
FreeIfUnsold(t) == ticket.status # "PAID"   \* slip: only the Redis lease is trusted
FreeIfLapsed(t) == ~Held(t)                 \* slip: an old lockedAt frees a sold seat
Free(t)         == ticket.status # "PAID" /\ ~Held(t)

(* The ticket row that reserveSeat's upsert leaves: payment columns null.  *)
SameGeneration(u, c) ==                     \* slip: createdAt survives the update
    [status |-> "LOCKED", userId |-> u, refundId |-> FALSE, paymentIntentId |-> NoIntent,
     createdAt |-> IF ticket.status = "NONE" THEN c ELSE ticket.createdAt]

NewTicket(u, c) ==
    [status |-> "LOCKED", userId |-> u, createdAt |-> c,
     paymentIntentId |-> NoIntent, refundId |-> FALSE]

(* The outbox event of a sale.                                             *)
PaidEvent == [type |-> "ticket.paid", userId |-> ticket.userId]

-----------------------------------------------------------------------------
NewSeat ==
    /\ lockedAt = Unlocked
    /\ ticket = NoTicket
    /\ intents = {}
    /\ payable = {}

(* A reservation bound by a replica that wrote no PaymentAttempt rows.     *)
BoundBeforeHistory ==
    \E u \in Users :
        /\ lockedAt = 0
        /\ ticket = [status |-> "LOCKED", userId |-> u, createdAt |-> 0,
                     paymentIntentId |-> <<u, 0>>, refundId |-> FALSE]
        /\ intents = {<<u, 0>>}
        /\ payable = {<<u, 0>>}

Init ==
    /\ now = 0
    /\ NewSeat \/ BoundBeforeHistory
    /\ attempt = [pi \in Intents |-> NoAttempt]
    /\ processed = {}
    /\ outbox = IF ticket = NoTicket THEN <<>>
                ELSE <<[type |-> "ticket.reserved", userId |-> ticket.userId]>>
    /\ tx = NoTx
    /\ charge = [e \in Events |-> NoCharge]

Tick ==
    /\ now < MaxTime
    /\ now' = now + 1
    /\ UNCHANGED <<rows, tx, stripe>>

(* reserveSeat, the transaction: t is the replica's clock, c the createdAt *)
(* that the insert's default gives a first ticket.                         *)
Reserve(u, t, c) ==
    /\ RowFree
    /\ t \in ReplicaClock
    /\ c \in ReplicaClock
    /\ ticket.status # "NONE" => c = t
    /\ Free(t)
    /\ attempt' = PreservedAttempt
    /\ lockedAt' = t
    /\ ticket' = NewTicket(u, c)
    /\ outbox' = Append(outbox, [type |-> "ticket.reserved", userId |-> u])
    /\ UNCHANGED <<now, processed, tx, stripe>>

(* createIntent up to Stripe's answer: it reads the ticket and then the    *)
(* seat without the row lock; the PaymentIntent is that of the generation  *)
(* it read.  A read that meets a recycling in between makes the lapsed     *)
(* generation's intent late; an intent made before the lapse and bound     *)
(* after it does the same, and Bindable turns both away.                   *)
CreateIntent(u, t) ==
    /\ t \in ReplicaClock
    /\ ticket.status = "LOCKED"
    /\ ticket.userId = u
    /\ Held(t)
    /\ intents' = intents \cup {<<u, ticket.createdAt>>}
    /\ UNCHANGED <<now, rows, tx, payable, charge>>

(* The conditional updateMany of bindPaymentIntent.                        *)
Bindable(pi, t) ==
    /\ ticket.status = "LOCKED"
    /\ ticket.userId = pi[1]
    /\ ticket.createdAt = pi[2]
    /\ ticket.paymentIntentId \in {NoIntent, pi}
    /\ Held(t)

(* bindPaymentIntent for an intent Stripe returned at any earlier moment;  *)
(* the caller answers with the client secret only when the row was bound.  *)
Bind(pi, t) ==
    /\ RowFree
    /\ t \in ReplicaClock
    /\ pi \in intents
    /\ attempt' = IF attempt[pi].status # "NONE" THEN attempt
                  ELSE [attempt EXCEPT ![pi] =
                          [status |-> "PENDING", userId |-> pi[1],
                           reservationCreatedAt |-> pi[2], refundId |-> FALSE]]
    /\ IF Bindable(pi, t)
       THEN /\ ticket' = [ticket EXCEPT !.paymentIntentId = pi]
            /\ payable' = payable \cup {pi}
       ELSE UNCHANGED <<ticket, payable>>
    /\ UNCHANGED <<now, lockedAt, processed, outbox, tx, intents, charge>>

(* Stripe charges an intent and gives the fact an event id.  One charge    *)
(* may be reported under several ids.                                      *)
Charge(e, pi, exact) ==
    /\ charge[e] = NoCharge
    /\ pi \in IF EarlyCharge THEN intents ELSE payable
    /\ charge' = [charge EXCEPT ![e] = [paymentIntentId |-> pi, exact |-> exact]]
    /\ UNCHANGED <<now, rows, tx, intents, payable>>

ConfirmOpen(e, t) ==
    /\ RowFree
    /\ t \in ReplicaClock
    /\ charge[e] # NoCharge
    /\ tx' = [event |-> e, outcome |-> Outcome(e, t)]
    /\ UNCHANGED <<now, rows, stripe>>

AbortKeepsMarker ==                         \* slip: the marker is outside the transaction
    /\ ~RowFree
    /\ tx' = NoTx
    /\ processed' = processed \cup {tx.event}
    /\ UNCHANGED <<now, lockedAt, ticket, attempt, outbox, stripe>>

(* A thrown error, a lost connection or the replica's death: rollback.     *)
ConfirmAbort ==
    /\ ~RowFree
    /\ tx' = NoTx
    /\ UNCHANGED <<now, rows, stripe>>

(* What every committing confirmReservation writes besides its outcome.    *)
Commit(outcome) ==
    /\ ~RowFree
    /\ tx.outcome = outcome
    /\ tx' = NoTx
    /\ processed' = processed \cup {tx.event}
    /\ UNCHANGED <<now, stripe>>

ConfirmDuplicate ==
    /\ Commit("duplicate")
    /\ attempt' = IF tx.event \in processed THEN attempt ELSE PreservedAttempt
    /\ UNCHANGED <<lockedAt, ticket, outbox>>

ConfirmExpired ==
    /\ Commit("expired")
    /\ LET pi == charge[tx.event].paymentIntentId
       IN  /\ attempt' = [PreservedAttempt EXCEPT ![pi].status = "REFUND_PENDING"]
           /\ IF SameReservation(pi) /\ ticket.status = "LOCKED"
              THEN /\ ticket' = [ticket EXCEPT !.status = "CANCELLED"]
                   /\ lockedAt' = Unlocked
              ELSE UNCHANGED <<ticket, lockedAt>>
    /\ UNCHANGED outbox

ConfirmPaid ==
    /\ Commit("paid")
    /\ LET pi == charge[tx.event].paymentIntentId
       IN  /\ attempt' = [PreservedAttempt EXCEPT ![pi].status = "PAID"]
           /\ ticket' = [ticket EXCEPT !.status = "PAID"]
           /\ outbox' = Append(outbox, PaidEvent)
    /\ UNCHANGED lockedAt

(* findPendingRefund's condition, under which a webhook handler asks       *)
(* Stripe for the refund.                                                  *)
NotRefunded(pi)   == attempt[pi].status # "NONE" /\ ~attempt[pi].refundId   \* slip
PendingRefund(pi) == attempt[pi].status = "REFUND_PENDING" /\ ~attempt[pi].refundId

(* The ticket that markRefundCompleted copies the refund to.               *)
AnyCancelled(pi) == ticket.status = "CANCELLED"   \* slip: of another payment
OwnCancelled(pi) == ticket.paymentIntentId = pi /\ ticket.status = "CANCELLED"

(* markRefundCompleted: two conditional updates, without the row lock.     *)
MarkRefund(pi) ==
    /\ attempt' = IF PendingRefund(pi)
                  THEN [attempt EXCEPT ![pi].status = "REFUNDED", ![pi].refundId = TRUE]
                  ELSE attempt
    /\ ticket' = IF OwnCancelled(pi) THEN [ticket EXCEPT !.refundId = TRUE] ELSE ticket
    /\ UNCHANGED <<now, lockedAt, processed, outbox, tx, stripe>>

Next ==
    \/ Tick
    \/ \E u \in Users, t, c \in ReplicaClock : Reserve(u, t, c)
    \/ \E u \in Users, t \in ReplicaClock : CreateIntent(u, t)
    \/ \E pi \in intents, t \in ReplicaClock : Bind(pi, t)
    \/ \E e \in Events, pi \in intents, exact \in BOOLEAN : Charge(e, pi, exact)
    \/ \E e \in Events, t \in ReplicaClock : ConfirmOpen(e, t)
    \/ ConfirmAbort
    \/ ConfirmDuplicate
    \/ ConfirmExpired
    \/ ConfirmPaid
    \/ \E pi \in intents : MarkRefund(pi)

Spec == Init /\ [][Next]_vars

-----------------------------------------------------------------------------
(* Properties.                                                             *)

(* The ticket belongs to the payment's generation: same user, same         *)
(* createdAt.                                                              *)
OfGeneration(pi) == ticket.status # "NONE" /\ <<ticket.userId, ticket.createdAt>> = pi

(* Single sale: a payment counts as PAID exactly when the seat's ticket is *)
(* PAID by it, for the user and generation it was created for.  So at most *)
(* one payment of a seat is ever kept, and a late payment never buys the   *)
(* seat for, or from, the next buyer (confirmReservation, 115-133).        *)
PaidAgreement ==
    \A pi \in Intents :
        attempt[pi].status = "PAID" <=>
            /\ ticket.status = "PAID"
            /\ ticket.paymentIntentId = pi
            /\ OfGeneration(pi)

(* A payment that is owed back or given back never stands behind a sale,   *)
(* nor behind a hold that any replica still takes for live.  Without it a  *)
(* refunded buyer could still confirm and keep the seat (108-127).         *)
OwedNotHeld ==
    \A pi \in Intents :
        attempt[pi].status \in {"REFUND_PENDING", "REFUNDED"} \/ attempt[pi].refundId =>
            ~(OfGeneration(pi) /\ (ticket.status = "PAID" \/ Held(now - MaxSkew)))

(* A CANCELLED ticket has freed its seat, and its payment is on record as  *)
(* owed or refunded (confirmReservation 121-125, markRefundCompleted).     *)
CancelledOwesRefund ==
    ticket.status = "CANCELLED" =>
        /\ lockedAt = Unlocked
        /\ ticket.paymentIntentId # NoIntent
        /\ attempt[ticket.paymentIntentId].status \in {"REFUND_PENDING", "REFUNDED"}
        /\ ticket.refundId => attempt[ticket.paymentIntentId].refundId

(* The outbox tells the seat's story as the rows have it: its last event   *)
(* names the ticket's user and whether the seat is sold, and nothing       *)
(* follows a sale.  An event is never committed without its row change.    *)
OutboxFaithful ==
    /\ (outbox = <<>>) <=> (ticket.status = "NONE")
    /\ outbox # <<>> =>
          outbox[Len(outbox)] =
             [type   |-> IF ticket.status = "PAID" THEN "ticket.paid" ELSE "ticket.reserved",
              userId |-> ticket.userId]
    /\ \A i \in 1..Len(outbox) : outbox[i].type = "ticket.paid" => i = Len(outbox)

(* While every replica's clock agrees that a hold lasts, no transaction of *)
(* any replica, not even a confirmation that had already decided, takes    *)
(* the seat from its holder or cancels the ticket.                         *)
HoldLasts == ticket.status = "LOCKED" /\ Held(now + MaxSkew)

HoldExclusive ==
    [][HoldLasts => /\ lockedAt' = lockedAt
                    /\ ticket'.status \in {"LOCKED", "PAID"}
                    /\ ticket'.userId = ticket.userId
                    /\ ticket'.createdAt = ticket.createdAt]_vars

(* A recycled ticket row gets a strictly later createdAt, whatever the     *)
(* clocks of the replicas that wrote it: this alone makes createdAt a      *)
(* generation, on which the Stripe idempotency key, bindPaymentIntent and  *)
(* confirmReservation rely.                                                *)
GenerationsGrow ==
    [][ticket.status # "NONE" /\ ticket'.createdAt # ticket.createdAt
         => ticket'.createdAt > ticket.createdAt]_vars

(* What a returned client secret promises: its payment has its own history *)
(* row, under its own generation, so a later charge is always accounted    *)
(* for even if the ticket row has been recycled (bindPaymentIntent 74-84,  *)
(* preservePayment).                                                       *)
HistoryKept ==
    \A pi \in payable :
        \/ attempt[pi].status # "NONE" /\ attempt[pi].userId = pi[1]
                                      /\ attempt[pi].reservationCreatedAt = pi[2]
        \/ attempt[pi].status = "NONE" /\ OfGeneration(pi) /\ ticket.paymentIntentId = pi

(* The state diagram of ARCHITECTURE.md gives ReembolsoPendiente one way   *)
(* out, Reembolsado, and Reembolsado none: a refunded payment stays so.    *)
RefundedIsFinal ==
    [][\A pi \in Intents : attempt[pi].status = "REFUNDED" =>
                            attempt'[pi].status = "REFUNDED"]_vars

-----------------------------------------------------------------------------
(* The rows implement the lifecycle that the documentation draws.  A       *)
(* payment counts as refunded from the moment its refundId is stored.      *)
Phase ==
    CASE ticket.status = "LOCKED" -> "held"
      [] ticket.status = "PAID"   -> "sold"
      [] OTHER                    -> "free"

Holder == IF ticket.status \in {"LOCKED", "PAID"}
          THEN <<ticket.userId, ticket.createdAt>> ELSE NoIntent

MoneyOf(pi) ==
    IF attempt[pi].refundId THEN "refunded"
    ELSE CASE attempt[pi].status = "PAID"           -> "kept"
           [] attempt[pi].status = "REFUND_PENDING" -> "owed"
           [] OTHER                                 -> "none"

Money == [pi \in Intents |-> MoneyOf(pi)]

Lifecycle == INSTANCE SeatLifecycle WITH
    Generations <- Intents, NoGeneration <- NoIntent,
    phase <- Phase, holder <- Holder, money <- Money

(* Every transaction of the code is a step of that lifecycle or none: a    *)
(* seat is sold once, to its holder, for that hold's own payment; money    *)
(* is kept only by the sale, and what is owed is only ever returned.       *)
ImplementsLifecycle == Lifecycle!Spec
=============================================================================
