--------------------------- MODULE InventoryProofs ---------------------------
(***************************************************************************)
(* Proofs about the rows of a seat and the webhook handlers before them.   *)
(*                                                                         *)
(* Part 1, SeatInventory, for any users, events, reservation time, clock   *)
(* skew and length of run.  The safety invariants are not inductive by     *)
(* themselves.  What is missing is what the rows know about the clock      *)
(* (Clocks), about every generation that ever got a PaymentIntent (Ages,   *)
(* Bindings) and about what an open confirmation read before it decided    *)
(* (Decision).  IInv adds these.                                           *)
(*                                                                         *)
(* Part 2, WebhookDelivery, for any number of handlers as well: a 200 is   *)
(* true, a refund on record was made, and what is refunded was never sold. *)
(* The handlers only take steps of the rows, so every theorem of part 1    *)
(* holds behind them.                                                      *)
(***************************************************************************)
EXTENDS WebhookDelivery, TLAPS

-----------------------------------------------------------------------------
(* Part 1: SeatInventory.  The inductive invariant, part by part.          *)

(* What each ticket status says of the other columns and of the seat.      *)
TicketShape ==
    /\ ticket.status = "NONE" => ticket.paymentIntentId = NoIntent
    /\ ticket.status # "NONE" => ticket.userId \in Users
    /\ ticket.status \in {"PAID", "CANCELLED"} => ticket.paymentIntentId # NoIntent
    /\ lockedAt # Unlocked <=> ticket.status \in {"LOCKED", "PAID"}
    /\ ticket.refundId => ticket.status = "CANCELLED"

(* An attempt row carries the generation its intent was made for.          *)
AttemptShape ==
    \A pi \in Intents :
        /\ attempt[pi].status # "NONE" => /\ attempt[pi].userId = pi[1]
                                          /\ attempt[pi].reservationCreatedAt = pi[2]
        /\ attempt[pi].refundId => attempt[pi].status \in {"REFUND_PENDING", "REFUNDED"}
        /\ attempt[pi].status = "REFUNDED" => attempt[pi].refundId

(* How far the stored times may lie from true time.  The last line is what *)
(* 4 * MaxSkew < TTL is for: a cancelled ticket's createdAt is older than  *)
(* any clock that may recycle it.                                          *)
Clocks ==
    /\ ticket.status # "NONE" => ticket.createdAt =< now + MaxSkew
    /\ lockedAt # Unlocked => /\ lockedAt =< now + MaxSkew
                              /\ ticket.createdAt =< lockedAt + 2 * MaxSkew
    /\ ticket.status = "CANCELLED" => ticket.createdAt =< now + 3 * MaxSkew - TTL

(* No intent is of a later generation than the ticket's, and one of the    *)
(* same createdAt is of the same user.                                     *)
Ages ==
    \A pi \in intents :
        /\ ticket.status # "NONE"
        /\ pi[2] =< ticket.createdAt
        /\ pi[2] = ticket.createdAt => pi[1] = ticket.userId

(* Who knows of an intent: every row and every charge that names it.       *)
Known ==
    /\ \A pi \in Intents : attempt[pi].status # "NONE" => pi \in intents
    /\ ticket.paymentIntentId # NoIntent => ticket.paymentIntentId \in payable
    /\ \A e \in Events : charge[e] # NoCharge =>
          /\ charge[e].paymentIntentId \in intents
          /\ ~EarlyCharge => charge[e].paymentIntentId \in payable

(* A ticket is bound only to the intent of its own generation, and once    *)
(* the client has the secret the binding stays with the generation; an     *)
(* attempt left unbound met a lapsed hold.                                 *)
Bindings ==
    /\ ticket.paymentIntentId # NoIntent =>
          ticket.paymentIntentId = <<ticket.userId, ticket.createdAt>>
    /\ \A pi \in payable : OfGeneration(pi) => ticket.paymentIntentId = pi
    /\ \A pi \in Intents :
          /\ attempt[pi].status # "NONE"
          /\ OfGeneration(pi)
          /\ ticket.paymentIntentId # pi
          /\ MaxSkew = 0
          => ~Held(now)

(* What an open confirmation knows from before stays true until it commits *)
(* or rolls back, because it holds the Seat row.                           *)
Decision ==
    tx # NoTx =>
        LET pi == charge[tx.event].paymentIntentId
        IN  /\ tx \in OpenTx
            /\ charge[tx.event] # NoCharge
            /\ tx.outcome = "paid" =>
                  /\ ticket.status = "LOCKED"
                  /\ ticket.paymentIntentId = pi
                  /\ attempt[pi].status \in {"NONE", "PENDING"}
            /\ tx.outcome = "expired" =>
                  /\ attempt[pi].status # "PAID"
                  /\ attempt[pi].status = "NONE" => ticket.paymentIntentId = pi
                  /\ ticket.status = "LOCKED" /\ ticket.paymentIntentId = pi =>
                        ~Held(now + MaxSkew)

(* A binding whose payment is owed or returned has been cancelled.         *)
OwedCancelled ==
    \A pi \in Intents :
        /\ attempt[pi].status \in {"REFUND_PENDING", "REFUNDED"} \/ attempt[pi].refundId
        /\ ticket.paymentIntentId = pi
        => ticket.status = "CANCELLED"

IInv ==
    /\ TypeOK
    /\ TicketShape
    /\ AttemptShape
    /\ Clocks
    /\ Ages
    /\ Known
    /\ Bindings
    /\ Decision
    /\ OwedCancelled
    /\ PaidAgreement
    /\ OwedNotHeld
    /\ CancelledOwesRefund
    /\ OutboxFaithful
    /\ HistoryKept

-----------------------------------------------------------------------------
(* What the definitions give, whatever the state.                          *)

(* preservePayment changes no attempt row that exists, and adds at most    *)
(* that of the ticket's own payment.                                       *)
LEMMA PreservedRows ==
    ASSUME TypeOK, TicketShape
    PROVE  /\ PreservedAttempt \in [Intents -> Attempts]
           /\ \A pi \in Intents :
                 IF pi = ticket.paymentIntentId /\ attempt[pi].status = "NONE"
                 THEN PreservedAttempt[pi] =
                        [status |-> HistoryStatus, userId |-> ticket.userId,
                         reservationCreatedAt |-> ticket.createdAt, refundId |-> ticket.refundId]
                 ELSE PreservedAttempt[pi] = attempt[pi]
<1>1. HistoryStatus \in AttemptStatus
  BY DEF HistoryStatus, AttemptStatus
<1>2. \A pi \in Intents : attempt[pi] \in Attempts
  BY DEF TypeOK
<1>3. [status |-> HistoryStatus, userId |-> ticket.userId,
       reservationCreatedAt |-> ticket.createdAt, refundId |-> ticket.refundId] \in Attempts
  BY <1>1 DEF TypeOK, Tickets, Attempts
<1> QED
  BY <1>2, <1>3 DEF PreservedAttempt

(* A hold that every replica's clock calls lapsed stays lapsed.            *)
LEMMA HeldMonotonic ==
    ASSUME TypeOK, NEW a \in Int, NEW b \in Int, a =< b, Held(b)
    PROVE  Held(a)
BY ClockAssumption DEF Held, TypeOK, Time, Unlocked

-----------------------------------------------------------------------------
(* Each action keeps the inductive invariant.                              *)

(* Both initial situations, a new seat and an old binding.                 *)
LEMMA InitHolds == ASSUME Init PROVE IInv
<1> USE ClockAssumption, EarlyChargeAssumption, NullAssumption
    DEF Init, NoAttempt, NoTicket, NoTx, Unlocked
<1>1. \A pi \in Intents : attempt[pi] = NoAttempt
  OBVIOUS
<1>2. attempt \in [Intents -> Attempts]
  BY DEF Attempts, AttemptStatus, Time
<1>3. CASE NewSeat
  <2> USE <1>3 DEF NewSeat
  <2>1. outbox = <<>>
    OBVIOUS
  <2>2. TypeOK
    <3>1. ticket \in Tickets
      BY DEF Tickets, TicketStatus, Time
    <3>2. outbox \in Seq([type : {"ticket.reserved", "ticket.paid"}, userId : Users])
      BY <2>1
    <3>3. now \in Time /\ lockedAt \in Time \cup {Unlocked}
      BY DEF Time
    <3>4. processed \subseteq Events /\ intents \subseteq Intents /\ payable \subseteq intents
      OBVIOUS
    <3>5. tx \in OpenTx \cup {NoTx} /\ charge \in [Events -> Charges \cup {NoCharge}]
      OBVIOUS
    <3> QED
      BY <1>2, <3>1, <3>2, <3>3, <3>4, <3>5 DEF TypeOK
  <2>3. TicketShape /\ AttemptShape /\ Clocks /\ Ages /\ Known
    BY <1>1 DEF TicketShape, AttemptShape, Clocks, Ages, Known
  <2>4. Bindings /\ Decision /\ OwedCancelled
    BY <1>1 DEF Bindings, Decision, OwedCancelled
  <2>5. PaidAgreement /\ OwedNotHeld
    BY <1>1 DEF PaidAgreement, OwedNotHeld
  <2>6. CancelledOwesRefund /\ HistoryKept
    BY <1>1 DEF CancelledOwesRefund, HistoryKept
  <2>7. OutboxFaithful
    BY <2>1 DEF OutboxFaithful
  <2> QED
    BY <2>2, <2>3, <2>4, <2>5, <2>6, <2>7 DEF IInv
<1>4. CASE BoundBeforeHistory
  <2>1. PICK u \in Users :
          /\ lockedAt = 0
          /\ ticket = [status |-> "LOCKED", userId |-> u, createdAt |-> 0,
                       paymentIntentId |-> <<u, 0>>, refundId |-> FALSE]
          /\ intents = {<<u, 0>>}
          /\ payable = {<<u, 0>>}
    BY <1>4 DEF BoundBeforeHistory
  <2>2. <<u, 0>> \in Intents /\ 0 \in Time
    BY DEF Intents, Time
  <2>3. outbox = <<[type |-> "ticket.reserved", userId |-> u]>>
    BY <2>1
  <2>4. TypeOK
    <3>1. ticket \in Tickets
      BY <2>1, <2>2 DEF Tickets, TicketStatus
    <3> DEFINE first == [type |-> "ticket.reserved", userId |-> u]
               Kind  == [type : {"ticket.reserved", "ticket.paid"}, userId : Users]
    <3>2. first \in Kind
      OBVIOUS
    <3>3. outbox \in Seq(Kind)
      <4> outbox = <<first>>
        BY <2>3
      <4> HIDE DEF first, Kind
      <4> QED
        BY <3>2
    <3> QED
      BY <1>2, <2>1, <2>2, <3>1, <3>3 DEF TypeOK, Time
  <2>5. TicketShape /\ AttemptShape /\ Clocks
    BY <1>1, <2>1 DEF TicketShape, AttemptShape, Clocks
  <2>6. Ages /\ Known
    BY <1>1, <2>1 DEF Ages, Known
  <2>7. Bindings /\ Decision /\ OwedCancelled
    BY <1>1, <2>1 DEF Bindings, Decision, OwedCancelled, OfGeneration
  <2>8. PaidAgreement /\ OwedNotHeld
    BY <1>1, <2>1 DEF PaidAgreement, OwedNotHeld
  <2>9. CancelledOwesRefund /\ HistoryKept
    BY <1>1, <2>1, <2>2 DEF CancelledOwesRefund, HistoryKept, OfGeneration
  <2>10. OutboxFaithful
    BY <2>1, <2>3 DEF OutboxFaithful
  <2> QED
    BY <2>4, <2>5, <2>6, <2>7, <2>8, <2>9, <2>10 DEF IInv
<1> QED
  BY <1>3, <1>4

(* Time only lets holds lapse.                                             *)
LEMMA TickKeeps == ASSUME IInv, Tick PROVE IInv'
<1> USE ClockAssumption DEF Tick, rows, stripe
<1>1. TypeOK'
  BY DEF IInv, TypeOK, Time
<1>2. TicketShape' /\ AttemptShape' /\ Ages' /\ Known'
  BY DEF IInv, TicketShape, AttemptShape, Ages, Known
<1>3. Clocks'
  BY DEF IInv, TypeOK, Clocks, Time, Tickets, Unlocked
<1>4. ASSUME NEW a \in Int, Held(a + 1) PROVE Held(a)
  BY HeldMonotonic, <1>4, a =< a + 1 DEF IInv
<1>5. Bindings'
  BY <1>4 DEF IInv, TypeOK, Bindings, OfGeneration, Held, Time, Unlocked
<1>6. Decision'
  BY <1>4 DEF IInv, TypeOK, Decision, Held, Time, Unlocked
<1>7. OwedNotHeld'
  BY <1>4 DEF IInv, TypeOK, OwedNotHeld, OfGeneration, Held, Time, Unlocked
<1>8. PaidAgreement' /\ CancelledOwesRefund' /\ OutboxFaithful' /\ HistoryKept' /\ OwedCancelled'
  BY DEF IInv, OwedCancelled, PaidAgreement, CancelledOwesRefund, OutboxFaithful, HistoryKept, OfGeneration
<1> QED
  BY <1>1, <1>2, <1>3, <1>5, <1>6, <1>7, <1>8 DEF IInv

(* A new intent is of the generation that was read.                        *)
LEMMA CreateIntentKeeps ==
    ASSUME IInv, NEW u \in Users, NEW t \in ReplicaClock, CreateIntent(u, t) PROVE IInv'
<1> USE ClockAssumption DEF CreateIntent, rows
<1>1. TypeOK'
  BY DEF IInv, TypeOK, Intents, Tickets
<1>2. TicketShape' /\ AttemptShape' /\ Clocks'
  BY DEF IInv, TicketShape, AttemptShape, Clocks
<1>3. Ages'
  BY DEF IInv, TypeOK, Ages, Tickets, Time
<1>4. Known'
  BY DEF IInv, Known
<1>5. Bindings' /\ Decision'
  BY DEF IInv, Bindings, Decision, OfGeneration, Held
<1>6. PaidAgreement' /\ OwedNotHeld' /\ OwedCancelled' /\ CancelledOwesRefund' /\ OutboxFaithful'
      /\ HistoryKept'
  BY DEF IInv, PaidAgreement, OwedNotHeld, OwedCancelled, CancelledOwesRefund, OutboxFaithful,
         HistoryKept, OfGeneration, Held
<1> QED
  BY <1>1, <1>2, <1>3, <1>4, <1>5, <1>6 DEF IInv

(* A charge touches no row.                                                *)
LEMMA ChargeKeeps ==
    ASSUME IInv, NEW e \in Events, NEW pi \in intents, NEW exact \in BOOLEAN,
           Charge(e, pi, exact)
    PROVE  IInv'
<1> USE DEF Charge, rows
<1>1. TypeOK'
  BY DEF IInv, TypeOK, Charges
<1>2. TicketShape' /\ AttemptShape' /\ Clocks' /\ Ages'
  BY DEF IInv, TicketShape, AttemptShape, Clocks, Ages
<1>3. Known'
  BY DEF IInv, TypeOK, Known
<1>4. Bindings'
  BY DEF IInv, Bindings, OfGeneration, Held
<1>5. Decision'
  BY DEF IInv, TypeOK, Decision, OpenTx, Held
<1>6. PaidAgreement' /\ OwedNotHeld' /\ OwedCancelled' /\ CancelledOwesRefund' /\ OutboxFaithful'
      /\ HistoryKept'
  BY DEF IInv, PaidAgreement, OwedNotHeld, OwedCancelled, CancelledOwesRefund, OutboxFaithful,
         HistoryKept, OfGeneration, Held
<1> QED
  BY <1>1, <1>2, <1>3, <1>4, <1>5, <1>6 DEF IInv

(* The decision is true of the rows it was read from.                      *)
LEMMA ConfirmOpenKeeps ==
    ASSUME IInv, NEW e \in Events, NEW t \in ReplicaClock, ConfirmOpen(e, t) PROVE IInv'
<1> USE DEF ConfirmOpen, rows, stripe
<1> DEFINE pi == charge[e].paymentIntentId
<1>1. Outcome(e, t) \in Outcomes
  BY DEF Outcome, Outcomes
<1>2. TypeOK'
  BY <1>1 DEF IInv, TypeOK, OpenTx
<1>3. TicketShape' /\ AttemptShape' /\ Clocks' /\ Ages' /\ Known'
  BY DEF IInv, TicketShape, AttemptShape, Clocks, Ages, Known
<1>4. Bindings'
  BY DEF IInv, Bindings, OfGeneration, Held
<1>5. pi \in Intents
  BY DEF IInv, TypeOK, Charges
<1>6. PreservedAttempt[pi].status # "NONE" /\ attempt[pi].status = "NONE"
        => ticket.paymentIntentId = pi
  BY <1>5, PreservedRows DEF IInv
<1>7. ASSUME Outcome(e, t) = "paid"
      PROVE  /\ ticket.status = "LOCKED"
             /\ ticket.paymentIntentId = pi
             /\ attempt[pi].status \in {"NONE", "PENDING"}
  <2>1. Active(pi, t)
    BY <1>7 DEF Outcome
  <2>2. ticket.status = "LOCKED" /\ ticket.paymentIntentId = pi /\ Held(t)
    BY <2>1 DEF Active, SameReservation
  <2>3. Held(now - MaxSkew)
    BY <2>2, HeldMonotonic, ClockAssumption DEF IInv, TypeOK, ReplicaClock, Time
  <2>4. OfGeneration(pi)
    BY <2>2, <1>5, NullAssumption DEF IInv, Bindings, OfGeneration
  <2>5. attempt[pi].status \notin {"REFUND_PENDING", "REFUNDED"}
    BY <2>3, <2>4, <1>5 DEF IInv, OwedNotHeld
  <2>6. attempt[pi].status # "PAID"
    BY <2>2, <1>5 DEF IInv, PaidAgreement
  <2> QED
    BY <2>2, <2>5, <2>6, <1>5 DEF IInv, TypeOK, Attempts, AttemptStatus
<1>8. ASSUME Outcome(e, t) = "expired"
      PROVE  /\ attempt[pi].status # "PAID"
             /\ attempt[pi].status = "NONE" => ticket.paymentIntentId = pi
             /\ ticket.status = "LOCKED" /\ ticket.paymentIntentId = pi => ~Held(now + MaxSkew)
  <2>1. PreservedAttempt[pi].status \notin Settled /\ PreservedAttempt[pi].status # "NONE"
    BY <1>8 DEF Outcome
  <2>2. attempt[pi].status # "PAID"
    BY <2>1, <1>5, PreservedRows DEF IInv, Settled
  <2>3. ~Active(pi, t)
    BY <1>8 DEF Outcome
  <2>4. ASSUME ticket.status = "LOCKED", ticket.paymentIntentId = pi PROVE ~Held(t)
    <3>1. ticket.createdAt = PreservedAttempt[pi].reservationCreatedAt
      BY <2>4, <1>5, PreservedRows, NullAssumption DEF IInv, AttemptShape, Bindings
    <3> QED
      BY <2>3, <2>4, <3>1 DEF Active, SameReservation
  <2>5. Held(now + MaxSkew) => Held(t)
    BY HeldMonotonic, ClockAssumption DEF IInv, TypeOK, ReplicaClock, Time
  <2> QED
    BY <1>6, <2>1, <2>2, <2>4, <2>5
<1>9. Decision'
  BY <1>1, <1>7, <1>8 DEF Decision, OpenTx, Held
<1>10. PaidAgreement' /\ OwedNotHeld' /\ OwedCancelled' /\ CancelledOwesRefund' /\ OutboxFaithful'
      /\ HistoryKept'
  BY DEF IInv, PaidAgreement, OwedNotHeld, OwedCancelled, CancelledOwesRefund, OutboxFaithful,
         HistoryKept, OfGeneration, Held
<1> QED
  BY <1>2, <1>3, <1>4, <1>9, <1>10 DEF IInv

(* A rollback leaves nothing behind.                                       *)
LEMMA ConfirmAbortKeeps == ASSUME IInv, ConfirmAbort PROVE IInv'
<1> USE DEF ConfirmAbort, rows, stripe
<1>1. TypeOK'
  BY DEF IInv, TypeOK
<1>2. TicketShape' /\ AttemptShape' /\ Clocks' /\ Ages' /\ Known'
  BY DEF IInv, TicketShape, AttemptShape, Clocks, Ages, Known
<1>3. Bindings' /\ Decision'
  BY DEF IInv, Bindings, Decision, OfGeneration, Held
<1>4. PaidAgreement' /\ OwedNotHeld' /\ OwedCancelled' /\ CancelledOwesRefund' /\ OutboxFaithful'
      /\ HistoryKept'
  BY DEF IInv, PaidAgreement, OwedNotHeld, OwedCancelled, CancelledOwesRefund, OutboxFaithful,
         HistoryKept, OfGeneration, Held
<1> QED
  BY <1>1, <1>2, <1>3, <1>4 DEF IInv

(* Recording a refund, also under an open confirmation.                    *)
LEMMA MarkRefundKeeps ==
    ASSUME IInv, NEW pi \in intents, MarkRefund(pi) PROVE IInv'
<1> USE DEF MarkRefund, stripe
<1>1. pi \in Intents
  BY DEF IInv, TypeOK
<1>2. \A q \in Intents :
         /\ attempt'[q].userId = attempt[q].userId
         /\ attempt'[q].reservationCreatedAt = attempt[q].reservationCreatedAt
         /\ IF q = pi /\ PendingRefund(pi)
            THEN attempt[q].status = "REFUND_PENDING" /\ attempt'[q].status = "REFUNDED"
                   /\ attempt'[q].refundId
            ELSE attempt'[q] = attempt[q]
  BY <1>1 DEF IInv, TypeOK, Attempts, PendingRefund
<1>3. /\ ticket'.status = ticket.status
      /\ ticket'.userId = ticket.userId
      /\ ticket'.createdAt = ticket.createdAt
      /\ ticket'.paymentIntentId = ticket.paymentIntentId
      /\ ticket'.refundId = IF OwnCancelled(pi) THEN TRUE ELSE ticket.refundId
  BY DEF IInv, TypeOK, Tickets
<1>4. TypeOK'
  BY <1>1 DEF IInv, TypeOK, Attempts, AttemptStatus, Tickets
<1>5. TicketShape' /\ Clocks' /\ Ages'
  BY <1>3 DEF IInv, TicketShape, Clocks, Ages, OwnCancelled
<1>6. AttemptShape' /\ Known'
  <2>1. AttemptShape'
    BY <1>2 DEF IInv, AttemptShape
  <2>2. \A q \in Intents : attempt'[q].status # "NONE" => attempt[q].status # "NONE"
    BY <1>2
  <2>3. intents' = intents /\ payable' = payable /\ charge' = charge
    OBVIOUS
  <2>4. Known'
    BY <1>3, <2>2, <2>3 DEF IInv, Known
  <2> QED
    BY <2>1, <2>4
<1>7. Bindings'
  BY <1>2, <1>3 DEF IInv, Bindings, OfGeneration, Held
<1>8. Decision'
  BY <1>2, <1>3 DEF IInv, TypeOK, OpenTx, Charges, Decision, Held
<1>9. PaidAgreement' /\ OwedNotHeld' /\ OwedCancelled'
  BY <1>2, <1>3 DEF IInv, PaidAgreement, OwedNotHeld, OwedCancelled, OfGeneration, Held
<1>10. CancelledOwesRefund'
  BY <1>1, <1>2, <1>3 DEF IInv, TypeOK, Tickets, CancelledOwesRefund, AttemptShape, OwnCancelled,
         PendingRefund
<1>11. OutboxFaithful' /\ HistoryKept'
  BY <1>2, <1>3 DEF IInv, TypeOK, OutboxFaithful, HistoryKept, OfGeneration, PendingRefund
<1> QED
  BY <1>4, <1>5, <1>6, <1>7, <1>8, <1>9, <1>10, <1>11 DEF IInv

(* Binding, whether the ticket is still bindable or not.                   *)
LEMMA BindKeeps ==
    ASSUME IInv, NEW pi \in intents, NEW t \in ReplicaClock, Bind(pi, t) PROVE IInv'
<1> USE DEF Bind
<1>1. pi \in Intents /\ pi = <<pi[1], pi[2]>> /\ pi[1] \in Users /\ pi[2] \in Time
  BY DEF IInv, TypeOK, Intents
<1>2. \A q \in Intents :
         IF q = pi /\ attempt[pi].status = "NONE"
         THEN attempt'[q] = [status |-> "PENDING", userId |-> pi[1],
                             reservationCreatedAt |-> pi[2], refundId |-> FALSE]
         ELSE attempt'[q] = attempt[q]
  BY <1>1 DEF IInv, TypeOK
<1>3. /\ ticket'.status = ticket.status
      /\ ticket'.userId = ticket.userId
      /\ ticket'.createdAt = ticket.createdAt
      /\ ticket'.refundId = ticket.refundId
      /\ ticket'.paymentIntentId = IF Bindable(pi, t) THEN pi ELSE ticket.paymentIntentId
      /\ payable' = IF Bindable(pi, t) THEN payable \cup {pi} ELSE payable
  BY DEF IInv, TypeOK, Tickets
<1>4. Bindable(pi, t) => /\ ticket.status = "LOCKED"
                         /\ ticket.paymentIntentId \in {NoIntent, pi}
                         /\ OfGeneration(pi)
  BY <1>1 DEF Bindable, OfGeneration
<1>5. TypeOK'
  <2>1. ticket' \in Tickets
    BY <1>1 DEF IInv, TypeOK, Tickets
  <2>2. attempt' \in [Intents -> Attempts]
    BY <1>1 DEF IInv, TypeOK, Attempts, AttemptStatus
  <2> QED
    BY <2>1, <2>2, <1>3 DEF IInv, TypeOK
<1>6. TicketShape'
  BY <1>1, <1>3, <1>4, NullAssumption DEF IInv, TicketShape
<1>7. AttemptShape'
  BY <1>1, <1>2 DEF IInv, AttemptShape
<1>8. Clocks' /\ Ages'
  BY <1>3 DEF IInv, Clocks, Ages
<1>9. Known'
  <2>1. \A q \in Intents : attempt'[q].status # "NONE" => q \in intents
    BY <1>2 DEF IInv, Known
  <2> QED
    BY <2>1, <1>3 DEF IInv, Known
<1>10. Bindings'
  <2>1. ticket'.paymentIntentId # NoIntent =>
           ticket'.paymentIntentId = <<ticket'.userId, ticket'.createdAt>>
    BY <1>3, <1>4 DEF IInv, Bindings, OfGeneration
  <2>2. \A q \in payable' : OfGeneration(q)' => ticket'.paymentIntentId = q
    BY <1>3, <1>4 DEF IInv, Bindings, OfGeneration
  <2>3. ASSUME NEW q \in Intents, attempt'[q].status # "NONE", OfGeneration(q)',
               ticket'.paymentIntentId # q, MaxSkew = 0
        PROVE  ~Held(now)
    <3>1. OfGeneration(q)
      BY <2>3, <1>3 DEF OfGeneration
    <3>2. CASE q = pi /\ attempt[pi].status = "NONE"
      <4>1. ~Bindable(pi, t)
        BY <3>2, <2>3, <1>3
      <4>2. ticket.userId = pi[1] /\ ticket.createdAt = pi[2] /\ ticket.paymentIntentId # pi
        BY <3>1, <3>2, <2>3, <1>3, <4>1, <1>1 DEF OfGeneration
      <4>3. ticket.paymentIntentId = NoIntent
        BY <4>2, <1>1 DEF IInv, Bindings
      <4>4. t = now
        BY <2>3 DEF IInv, TypeOK, ReplicaClock, Time
      <4>5. ticket.status = "LOCKED" => ~Held(now)
        BY <4>1, <4>2, <4>3, <4>4 DEF Bindable
      <4> QED
        BY <4>5, <4>3 DEF IInv, TicketShape, Held
    <3>3. CASE ~(q = pi /\ attempt[pi].status = "NONE")
      <4>1. attempt[q].status # "NONE"
        BY <3>3, <2>3, <1>2
      <4>2. ticket.paymentIntentId # q
        BY <2>3, <3>1, <1>3, <1>4 DEF OfGeneration
      <4> QED
        BY <4>1, <4>2, <3>1, <2>3 DEF IInv, Bindings
    <3> QED
      BY <3>2, <3>3
  <2> QED
    BY <2>1, <2>2, <2>3 DEF Bindings, Held
<1>11. Decision'
  BY DEF RowFree, Decision
<1>12. PaidAgreement' /\ OwedNotHeld' /\ OwedCancelled'
  <2>1. \A q \in Intents : /\ attempt'[q].status = "PAID" <=> attempt[q].status = "PAID"
                           /\ attempt'[q].status \in {"REFUND_PENDING", "REFUNDED"} <=>
                                attempt[q].status \in {"REFUND_PENDING", "REFUNDED"}
                           /\ attempt'[q].refundId => attempt[q].refundId
    BY <1>2
  <2>2. PaidAgreement'
    BY <2>1, <1>3, <1>4 DEF IInv, PaidAgreement, OfGeneration
  <2>3. OwedNotHeld'
    BY <2>1, <1>3 DEF IInv, OwedNotHeld, OfGeneration, Held
  <2>4. Bindable(pi, t) => Held(now - MaxSkew)
    BY HeldMonotonic, ClockAssumption DEF IInv, TypeOK, Bindable, ReplicaClock, Time
  <2>5. OwedCancelled'
    BY <2>1, <2>4, <1>3, <1>4 DEF IInv, OwedNotHeld, OwedCancelled
  <2> QED
    BY <2>2, <2>3, <2>5
<1>13. CancelledOwesRefund'
  BY <1>2, <1>3, <1>4 DEF IInv, TypeOK, Tickets, CancelledOwesRefund
<1>14. OutboxFaithful'
  BY <1>3 DEF IInv, OutboxFaithful
<1>15. HistoryKept'
  <2> SUFFICES ASSUME NEW q \in payable', attempt'[q].status = "NONE"
               PROVE  OfGeneration(q) /\ ticket'.paymentIntentId = q
    BY <1>3, <1>5, <1>7 DEF TypeOK, HistoryKept, OfGeneration, AttemptShape
  <2>1. q \in Intents /\ attempt[q].status = "NONE" /\ q # pi
    BY <1>2, <1>5 DEF TypeOK
  <2>2. OfGeneration(q) /\ ticket.paymentIntentId = q
    BY <2>1, <1>3 DEF IInv, HistoryKept
  <2> QED
    BY <2>1, <2>2, <1>3, <1>4, NullAssumption
<1> QED
  BY <1>5, <1>6, <1>7, <1>8, <1>9, <1>10, <1>11, <1>12, <1>13, <1>14, <1>15 DEF IInv

(* Whatever the clocks of the two replicas, a recycled row's createdAt is  *)
(* later than the one it replaces.                                         *)
LEMMA NewGeneration ==
    ASSUME IInv, NEW t \in ReplicaClock, ticket.status # "NONE", Free(t)
    PROVE  ticket.createdAt < t
<1> USE ClockAssumption DEF IInv, TypeOK, Tickets, Time, Clocks, ReplicaClock, Free
<1>1. CASE ticket.status = "LOCKED"
  BY <1>1 DEF TicketShape, Held, Unlocked
<1>2. CASE ticket.status = "CANCELLED"
  BY <1>2
<1> QED
  BY <1>1, <1>2 DEF TicketStatus

(* An event appended to the outbox is the last, and the others stay.       *)
LEMMA AppendedEvent ==
    ASSUME NEW S, NEW q \in Seq(S), NEW x \in S
    PROVE  /\ Append(q, x) \in Seq(S)
           /\ Append(q, x) # <<>>
           /\ Len(Append(q, x)) = Len(q) + 1
           /\ Append(q, x)[Len(q) + 1] = x
           /\ \A i \in 1..Len(q) : Append(q, x)[i] = q[i]
OBVIOUS

(* Recycling the ticket row for the next generation.                       *)
LEMMA ReserveKeeps ==
    ASSUME IInv, NEW u \in Users, NEW t \in ReplicaClock, NEW c \in ReplicaClock, Reserve(u, t, c)
    PROVE  IInv'
<1> USE DEF Reserve, stripe
<1> DEFINE Kind  == [type : {"ticket.reserved", "ticket.paid"}, userId : Users]
           event == [type |-> "ticket.reserved", userId |-> u]
<1>1. c \in Time /\ t \in Time
  BY DEF ReplicaClock
<1>2. /\ attempt' \in [Intents -> Attempts]
      /\ \A pi \in Intents :
            IF pi = ticket.paymentIntentId /\ attempt[pi].status = "NONE"
            THEN attempt'[pi] =
                   [status |-> HistoryStatus, userId |-> ticket.userId,
                    reservationCreatedAt |-> ticket.createdAt, refundId |-> ticket.refundId]
            ELSE attempt'[pi] = attempt[pi]
  BY PreservedRows DEF IInv
<1>3. /\ ticket'.status = "LOCKED" /\ ticket'.userId = u /\ ticket'.createdAt = c
      /\ ticket'.paymentIntentId = NoIntent /\ ticket'.refundId = FALSE
      /\ lockedAt' = t
  BY DEF NewTicket
<1>4. ticket.status # "PAID"
  BY DEF Free
<1>5. ticket.status # "NONE" => ticket.createdAt < c
  BY NewGeneration DEF IInv
<1>6. \A pi \in intents : pi[2] < c
  BY <1>1, <1>5 DEF IInv, TypeOK, Ages, Intents, Tickets, Time
<1>7. \A pi \in intents : ~OfGeneration(pi)'
  BY <1>1, <1>3, <1>6 DEF IInv, TypeOK, OfGeneration, Intents, Time
<1>8. ticket.paymentIntentId # NoIntent =>
         /\ ticket.paymentIntentId \in intents
         /\ ticket.paymentIntentId = <<ticket.userId, ticket.createdAt>>
  BY DEF IInv, TypeOK, Known, Bindings
<1>9. \A pi \in Intents : attempt'[pi].status # "NONE" => pi \in intents
  BY <1>2, <1>8, NullAssumption DEF IInv, Known
<1>10. \A pi \in Intents : attempt'[pi].status = "PAID" => attempt[pi].status = "PAID"
  BY <1>2, <1>4 DEF HistoryStatus
<1>11. TypeOK'
  <2>1. ticket' \in Tickets
    BY <1>1 DEF NewTicket, Tickets, TicketStatus
  <2>2. outbox' \in Seq(Kind)
    <3>1. event \in Kind /\ outbox \in Seq(Kind)
      BY DEF IInv, TypeOK
    <3> HIDE DEF Kind
    <3> QED
      BY <3>1, AppendedEvent
  <2> QED
    BY <1>1, <1>2, <2>1, <2>2 DEF IInv, TypeOK
<1>12. TicketShape'
  BY <1>1, <1>3 DEF TicketShape, Unlocked, Time
<1>13. AttemptShape'
  <2>1. CASE ticket.refundId
    <3>1. ticket.status = "CANCELLED"
      BY <2>1 DEF IInv, TicketShape
    <3>2. attempt[ticket.paymentIntentId].status # "NONE"
      BY <3>1 DEF IInv, CancelledOwesRefund
    <3>3. \A pi \in Intents : attempt'[pi] = attempt[pi]
      BY <3>2, <1>2
    <3> QED
      BY <3>3 DEF IInv, AttemptShape
  <2>2. CASE ~ticket.refundId
    BY <2>2, <1>2, <1>8, NullAssumption DEF IInv, AttemptShape, HistoryStatus
  <2> QED
    BY <2>1, <2>2
<1>14. Clocks'
  BY <1>1, <1>3, ClockAssumption DEF IInv, TypeOK, Clocks, ReplicaClock, Time
<1>15. Ages'
  BY <1>3, <1>6, <1>1 DEF IInv, TypeOK, Ages, Intents, Time
<1>16. Known'
  BY <1>3, <1>9 DEF IInv, Known
<1>17. Bindings'
  BY <1>3, <1>7, <1>9 DEF IInv, TypeOK, Bindings
<1>18. Decision'
  BY DEF RowFree, Decision
<1>19. PaidAgreement'
  BY <1>3, <1>4, <1>10 DEF IInv, PaidAgreement
<1>20. OwedNotHeld'
  <2>1. \A pi \in Intents : attempt'[pi].refundId => attempt'[pi].status # "NONE"
    BY <1>13 DEF AttemptShape
  <2> QED
    BY <1>7, <1>9, <2>1 DEF OwedNotHeld
<1>21. CancelledOwesRefund' /\ OwedCancelled'
  BY <1>3, NullAssumption DEF CancelledOwesRefund, OwedCancelled
<1>22. OutboxFaithful'
  <2>1. event \in Kind /\ outbox \in Seq(Kind)
    BY DEF IInv, TypeOK
  <2>2. /\ outbox' # <<>>
        /\ Len(outbox') = Len(outbox) + 1
        /\ outbox'[Len(outbox) + 1] = event
        /\ \A i \in 1..Len(outbox) : outbox'[i] = outbox[i]
    <3> HIDE DEF Kind
    <3> QED
      BY <2>1, AppendedEvent
  <2>3. \A i \in 1..Len(outbox) : outbox[i].type # "ticket.paid"
    BY <2>1, <1>4 DEF IInv, OutboxFaithful
  <2>4. Len(outbox) \in Nat
    BY <2>1
  <2> QED
    BY <2>2, <2>3, <2>4, <1>3 DEF OutboxFaithful
<1>23. HistoryKept'
  BY <1>2, <1>8, <1>9 DEF IInv, TypeOK, HistoryKept, OfGeneration, HistoryStatus
<1> QED
  BY <1>11, <1>12, <1>13, <1>14, <1>15, <1>16, <1>17, <1>18, <1>19, <1>20, <1>21, <1>22, <1>23
     DEF IInv

(* While the invariant holds, preservePayment only ever adds the pending   *)
(* row of a locked ticket's binding: sold and cancelled tickets have one.  *)
LEMMA PreservedPending ==
    ASSUME IInv
    PROVE  /\ PreservedAttempt \in [Intents -> Attempts]
           /\ \A pi \in Intents :
                 \/ PreservedAttempt[pi] = attempt[pi]
                 \/ /\ attempt[pi].status = "NONE"
                    /\ pi = ticket.paymentIntentId
                    /\ ticket.status = "LOCKED"
                    /\ PreservedAttempt[pi] = [status |-> "PENDING", userId |-> pi[1],
                                               reservationCreatedAt |-> pi[2], refundId |-> FALSE]
<1>1. PreservedAttempt \in [Intents -> Attempts]
  BY PreservedRows DEF IInv
<1>2. ASSUME NEW pi \in Intents, pi = ticket.paymentIntentId, attempt[pi].status = "NONE"
      PROVE  /\ ticket.status = "LOCKED"
             /\ ticket.refundId = FALSE
             /\ ticket.userId = pi[1]
             /\ ticket.createdAt = pi[2]
  <2>1. pi # NoIntent /\ OfGeneration(pi)
    BY <1>2, NullAssumption DEF IInv, TicketShape, Bindings, OfGeneration
  <2>2. ticket.status # "PAID"
    BY <1>2, <2>1 DEF IInv, PaidAgreement
  <2>3. ticket.status # "CANCELLED"
    BY <1>2 DEF IInv, CancelledOwesRefund
  <2> QED
    BY <2>1, <2>2, <2>3 DEF IInv, TypeOK, Tickets, TicketStatus, TicketShape, OfGeneration
<1>3. ASSUME NEW pi \in Intents, pi = ticket.paymentIntentId, attempt[pi].status = "NONE"
      PROVE  PreservedAttempt[pi] = [status |-> "PENDING", userId |-> pi[1],
                                     reservationCreatedAt |-> pi[2], refundId |-> FALSE]
  <2>1. HistoryStatus = "PENDING"
    BY <1>2, <1>3 DEF HistoryStatus
  <2> QED
    BY <1>2, <1>3, <2>1, PreservedRows DEF IInv
<1>4. \A pi \in Intents :
         ~(pi = ticket.paymentIntentId /\ attempt[pi].status = "NONE")
           => PreservedAttempt[pi] = attempt[pi]
  BY PreservedRows DEF IInv
<1> QED
  BY <1>1, <1>2, <1>3, <1>4

(* A duplicate writes at most the history of the current binding.          *)
LEMMA ConfirmDuplicateKeeps == ASSUME IInv, ConfirmDuplicate PROVE IInv'
<1> USE DEF ConfirmDuplicate, Commit, stripe
<1>1. /\ attempt' \in [Intents -> Attempts]
      /\ \A pi \in Intents :
            \/ attempt'[pi] = attempt[pi]
            \/ /\ attempt[pi].status = "NONE"
               /\ pi = ticket.paymentIntentId
               /\ attempt'[pi].status = "PENDING" /\ ~attempt'[pi].refundId
               /\ attempt'[pi].userId = pi[1] /\ attempt'[pi].reservationCreatedAt = pi[2]
  <2>1. CASE tx.event \in processed
    BY <2>1 DEF IInv, TypeOK
  <2>2. CASE tx.event \notin processed
    <3>1. attempt' = PreservedAttempt
      BY <2>2
    <3> QED
      BY <3>1, PreservedPending
  <2> QED
    BY <2>1, <2>2
<1>2. TypeOK'
  BY <1>1 DEF IInv, TypeOK, OpenTx, RowFree
<1>3. TicketShape' /\ Clocks' /\ Ages' /\ OutboxFaithful'
  BY DEF IInv, TicketShape, Clocks, Ages, OutboxFaithful
<1>4. AttemptShape'
  BY <1>1 DEF IInv, AttemptShape
<1>5. Known'
  <2>1. \A pi \in Intents : attempt'[pi].status # "NONE" => pi \in intents
    BY <1>1, NullAssumption DEF IInv, TypeOK, Known
  <2> QED
    BY <2>1 DEF IInv, Known
<1>6. Bindings'
  BY <1>1 DEF IInv, Bindings, OfGeneration, Held
<1>7. Decision'
  BY DEF Decision
<1>8. PaidAgreement' /\ OwedNotHeld' /\ OwedCancelled'
  BY <1>1 DEF IInv, PaidAgreement, OwedNotHeld, OwedCancelled, OfGeneration, Held
<1>9. CancelledOwesRefund'
  BY <1>1 DEF IInv, TypeOK, Tickets, CancelledOwesRefund
<1>10. HistoryKept'
  BY <1>1 DEF IInv, TypeOK, HistoryKept, OfGeneration
<1> QED
  BY <1>2, <1>3, <1>4, <1>5, <1>6, <1>7, <1>8, <1>9, <1>10 DEF IInv

(* A late payment becomes owed, and its own lapsed hold ends.              *)
LEMMA ConfirmExpiredKeeps == ASSUME IInv, ConfirmExpired PROVE IInv'
<1> USE DEF Commit, stripe
<1> DEFINE pi == charge[tx.event].paymentIntentId
           cancels == SameReservation(pi) /\ ticket.status = "LOCKED"
<1>1. /\ tx \in OpenTx /\ tx' = NoTx /\ processed' = processed \cup {tx.event}
      /\ UNCHANGED <<now, outbox, intents, payable, charge>>
      /\ attempt' = [PreservedAttempt EXCEPT ![pi].status = "REFUND_PENDING"]
      /\ IF cancels
         THEN ticket' = [ticket EXCEPT !.status = "CANCELLED"] /\ lockedAt' = Unlocked
         ELSE ticket' = ticket /\ lockedAt' = lockedAt
  BY DEF ConfirmExpired, IInv, Decision, RowFree
<1>2. /\ charge[tx.event] # NoCharge
      /\ attempt[pi].status # "PAID"
      /\ attempt[pi].status = "NONE" => ticket.paymentIntentId = pi
      /\ ticket.status = "LOCKED" /\ ticket.paymentIntentId = pi => ~Held(now + MaxSkew)
  BY DEF ConfirmExpired, IInv, Decision, RowFree
<1>3. pi \in Intents /\ pi \in intents /\ (~EarlyCharge => pi \in payable)
  BY <1>1, <1>2 DEF IInv, TypeOK, Known, OpenTx, Charges
<1>4. /\ attempt' \in [Intents -> Attempts]
      /\ attempt'[pi].status = "REFUND_PENDING"
      /\ attempt'[pi].userId = PreservedAttempt[pi].userId
      /\ attempt'[pi].reservationCreatedAt = PreservedAttempt[pi].reservationCreatedAt
      /\ attempt'[pi].refundId = PreservedAttempt[pi].refundId
      /\ \A q \in Intents : q # pi => attempt'[q] = PreservedAttempt[q]
  BY <1>1, <1>3, PreservedPending DEF Attempts, AttemptStatus
<1>5. \A q \in Intents : q # pi =>
         \/ attempt'[q] = attempt[q]
         \/ /\ attempt[q].status = "NONE"
            /\ q = ticket.paymentIntentId
            /\ attempt'[q].status = "PENDING" /\ ~attempt'[q].refundId
            /\ attempt'[q].userId = q[1] /\ attempt'[q].reservationCreatedAt = q[2]
  BY <1>4, PreservedPending
<1>6. /\ attempt'[pi].userId = pi[1]
      /\ attempt'[pi].reservationCreatedAt = pi[2]
      /\ attempt[pi].refundId => attempt'[pi].refundId
  BY <1>2, <1>3, <1>4, PreservedPending, PreservedRows, NullAssumption
     DEF IInv, AttemptShape, Bindings, TypeOK, Attempts
<1>7. /\ ticket'.status = IF cancels THEN "CANCELLED" ELSE ticket.status
      /\ ticket'.userId = ticket.userId
      /\ ticket'.createdAt = ticket.createdAt
      /\ ticket'.paymentIntentId = ticket.paymentIntentId
      /\ ticket'.refundId = ticket.refundId
      /\ lockedAt' = IF cancels THEN Unlocked ELSE lockedAt
  BY <1>1 DEF IInv, TypeOK, Tickets
<1>8. cancels <=> ticket.status = "LOCKED" /\ ticket.paymentIntentId = pi
  BY <1>3, <1>4, <1>6, NullAssumption DEF SameReservation, IInv, Bindings
<1>9. TypeOK'
  <2>1. ticket' \in Tickets /\ lockedAt' \in Time \cup {Unlocked}
    BY <1>1 DEF IInv, TypeOK, Tickets, TicketStatus
  <2> QED
    BY <1>1, <1>4, <2>1 DEF IInv, TypeOK, OpenTx
<1>10. TicketShape'
  BY <1>7, <1>8, <1>3, NullAssumption DEF IInv, TicketShape
<1>11. AttemptShape'
  <2> SUFFICES ASSUME NEW q \in Intents
               PROVE  /\ attempt'[q].status # "NONE" => /\ attempt'[q].userId = q[1]
                                                        /\ attempt'[q].reservationCreatedAt = q[2]
                      /\ attempt'[q].refundId => attempt'[q].status \in {"REFUND_PENDING", "REFUNDED"}
                      /\ attempt'[q].status = "REFUNDED" => attempt'[q].refundId
    BY DEF AttemptShape
  <2>1. CASE q = pi
    BY <2>1, <1>4, <1>6
  <2>2. CASE q # pi
    BY <2>2, <1>5 DEF IInv, AttemptShape
  <2> QED
    BY <2>1, <2>2
<1>12. Clocks'
  <2>1. cancels => lockedAt # Unlocked /\ lockedAt =< now + MaxSkew - TTL
    BY <1>2, <1>8, ClockAssumption DEF IInv, TypeOK, TicketShape, Held, Time, Unlocked
  <2> QED
    BY <2>1, <1>1, <1>7, ClockAssumption DEF IInv, TypeOK, Tickets, Clocks, Time, Unlocked
<1>13. Ages'
  BY <1>1, <1>7 DEF IInv, Ages
<1>14. Known'
  <2>1. \A q \in Intents : attempt'[q].status # "NONE" => q \in intents
    BY <1>3, <1>5, NullAssumption DEF IInv, TypeOK, Known
  <2> QED
    BY <2>1, <1>1, <1>7 DEF IInv, Known
<1>15. OfGeneration(pi) /\ ticket.paymentIntentId # pi => ~Held(now - MaxSkew)
  <2>1. CASE ~EarlyCharge
    BY <2>1, <1>3 DEF IInv, Bindings
  <2>2. CASE EarlyCharge
    BY <2>2, <1>2, <1>3, EarlyChargeAssumption, ClockAssumption DEF IInv, TypeOK, Bindings, Time
  <2> QED
    BY <2>1, <2>2, EarlyChargeAssumption
<1>16. Bindings'
  <2>1. ASSUME NEW q \in Intents, attempt'[q].status # "NONE", OfGeneration(q)',
               ticket'.paymentIntentId # q, MaxSkew = 0
        PROVE  ~Held(now)'
    <3>1. OfGeneration(q) /\ ticket.paymentIntentId # q
      BY <2>1, <1>7 DEF OfGeneration
    <3>2. CASE q = pi
      BY <3>1, <3>2, <2>1, <1>1, <1>7, <1>15, ClockAssumption
         DEF IInv, TypeOK, Held, Time
    <3>3. CASE q # pi
      <4>1. attempt[q].status # "NONE"
        BY <3>1, <3>3, <2>1, <1>5
      <4>2. ~Held(now)
        BY <4>1, <3>1, <2>1 DEF IInv, Bindings
      <4> QED
        BY <4>2, <1>1, <1>7 DEF Held
    <3> QED
      BY <3>2, <3>3
  <2>2. \A q \in payable' : OfGeneration(q)' => ticket'.paymentIntentId = q
    BY <1>1, <1>7 DEF IInv, Bindings, OfGeneration
  <2> QED
    BY <2>1, <2>2, <1>7 DEF IInv, Bindings
<1>17. Decision'
  BY <1>1 DEF Decision
<1>18. PaidAgreement'
  <2> SUFFICES ASSUME NEW q \in Intents
               PROVE  attempt'[q].status = "PAID" <=>
                        ticket'.status = "PAID" /\ ticket'.paymentIntentId = q /\ OfGeneration(q)'
    BY DEF PaidAgreement
  <2>1. attempt'[q].status = "PAID" <=> attempt[q].status = "PAID"
    BY <1>2, <1>4, <1>5
  <2>2. ticket'.status = "PAID" <=> ticket.status = "PAID"
    BY <1>7
  <2> QED
    BY <2>1, <2>2, <1>7 DEF IInv, PaidAgreement, OfGeneration
<1>19. OwedNotHeld'
  <2> SUFFICES ASSUME NEW q \in Intents, OfGeneration(q)',
                      attempt'[q].status \in {"REFUND_PENDING", "REFUNDED"} \/ attempt'[q].refundId
               PROVE  ticket'.status # "PAID" /\ ~Held(now - MaxSkew)'
    BY DEF OwedNotHeld
  <2>1. OfGeneration(q)
    BY <1>7 DEF OfGeneration
  <2>2. CASE q = pi
    <3>1. CASE ticket.paymentIntentId = pi
      <4>1. ticket.status # "PAID"
        BY <3>1, <2>1, <2>2, <1>2, <1>3 DEF IInv, PaidAgreement
      <4>2. lockedAt' = Unlocked
        BY <3>1, <4>1, <1>7, <1>8 DEF IInv, TicketShape
      <4> QED
        BY <4>1, <4>2, <1>7 DEF Held
    <3>2. CASE ticket.paymentIntentId # pi
      <4>1. ticket.status # "PAID"
        BY <3>2, <2>1, <2>2, <1>3 DEF IInv, TicketShape, Bindings, OfGeneration
      <4>2. ~Held(now - MaxSkew)
        BY <3>2, <2>1, <2>2, <1>15
      <4> QED
        BY <4>1, <4>2, <1>1, <1>7 DEF Held
    <3> QED
      BY <3>1, <3>2
  <2>3. CASE q # pi
    <3>1. attempt[q].status \in {"REFUND_PENDING", "REFUNDED"} \/ attempt[q].refundId
      BY <2>3, <1>5
    <3>2. ticket.status # "PAID" /\ ~Held(now - MaxSkew)
      BY <3>1, <2>1 DEF IInv, OwedNotHeld
    <3> QED
      BY <3>2, <1>1, <1>7 DEF Held
  <2> QED
    BY <2>2, <2>3
<1>20. CancelledOwesRefund'
  <2>1. CASE cancels
    BY <2>1, <1>3, <1>4, <1>7, <1>8, NullAssumption DEF IInv, TicketShape, CancelledOwesRefund
  <2>2. CASE ~cancels
    <3> SUFFICES ASSUME ticket.status = "CANCELLED"
                 PROVE  /\ attempt'[ticket.paymentIntentId].status \in {"REFUND_PENDING", "REFUNDED"}
                        /\ ticket.refundId => attempt'[ticket.paymentIntentId].refundId
      BY <2>2, <1>7 DEF IInv, CancelledOwesRefund
    <3>1. /\ ticket.paymentIntentId \in Intents
          /\ attempt[ticket.paymentIntentId].status \in {"REFUND_PENDING", "REFUNDED"}
          /\ ticket.refundId => attempt[ticket.paymentIntentId].refundId
      BY DEF IInv, TypeOK, Tickets, CancelledOwesRefund
    <3> QED
      BY <3>1, <1>4, <1>5, <1>6
  <2> QED
    BY <2>1, <2>2
<1>21. OutboxFaithful'
  BY <1>1, <1>7 DEF IInv, OutboxFaithful
<1>22. HistoryKept'
  <2> SUFFICES ASSUME NEW q \in payable, attempt'[q].status = "NONE"
               PROVE  OfGeneration(q)' /\ ticket'.paymentIntentId = q
    BY <1>1, <1>9, <1>11 DEF TypeOK, HistoryKept, AttemptShape
  <2>1. q \in Intents /\ q # pi /\ attempt[q].status = "NONE"
    BY <1>4, <1>5 DEF IInv, TypeOK
  <2> QED
    BY <2>1, <1>7 DEF IInv, HistoryKept, OfGeneration
<1>23. OwedCancelled'
  <2>1. ticket.paymentIntentId = pi => ticket.status # "PAID"
    BY <1>2, <1>3, NullAssumption DEF IInv, PaidAgreement, Bindings, OfGeneration, TypeOK, Tickets
  <2>2. ticket.paymentIntentId = pi => ticket'.status = "CANCELLED"
    BY <2>1, <1>3, <1>7, <1>8, NullAssumption DEF IInv, TypeOK, Tickets, TicketStatus, TicketShape
  <2> QED
    BY <2>2, <1>5, <1>7 DEF IInv, OwedCancelled
<1> QED
  BY <1>9, <1>10, <1>11, <1>12, <1>13, <1>14, <1>16, <1>17, <1>18, <1>19, <1>20, <1>21, <1>22,
     <1>23 DEF IInv

(* A payment in time buys the seat.                                        *)
LEMMA ConfirmPaidKeeps == ASSUME IInv, ConfirmPaid PROVE IInv'
<1> USE DEF Commit, stripe
<1> DEFINE pi   == charge[tx.event].paymentIntentId
           Kind == [type : {"ticket.reserved", "ticket.paid"}, userId : Users]
<1>1. /\ tx \in OpenTx /\ tx' = NoTx /\ processed' = processed \cup {tx.event}
      /\ UNCHANGED <<now, lockedAt, intents, payable, charge>>
      /\ attempt' = [PreservedAttempt EXCEPT ![pi].status = "PAID"]
      /\ ticket' = [ticket EXCEPT !.status = "PAID"]
      /\ outbox' = Append(outbox, PaidEvent)
  BY DEF ConfirmPaid, IInv, Decision, RowFree
<1>2. /\ charge[tx.event] # NoCharge
      /\ ticket.status = "LOCKED"
      /\ ticket.paymentIntentId = pi
      /\ attempt[pi].status \in {"NONE", "PENDING"}
  BY DEF ConfirmPaid, IInv, Decision, RowFree
<1>3. pi \in Intents /\ pi \in intents
  BY <1>1, <1>2 DEF IInv, TypeOK, Known, OpenTx, Charges
<1>4. OfGeneration(pi)
  BY <1>2, <1>3, NullAssumption DEF IInv, Bindings, OfGeneration
<1>5. /\ attempt' \in [Intents -> Attempts]
      /\ attempt'[pi].status = "PAID"
      /\ attempt'[pi].userId = PreservedAttempt[pi].userId
      /\ attempt'[pi].reservationCreatedAt = PreservedAttempt[pi].reservationCreatedAt
      /\ attempt'[pi].refundId = PreservedAttempt[pi].refundId
      /\ \A q \in Intents : q # pi => attempt'[q] = PreservedAttempt[q]
  BY <1>1, <1>3, PreservedPending DEF Attempts, AttemptStatus
<1>6. \A q \in Intents : q # pi => attempt'[q] = attempt[q]
  BY <1>2, <1>5, PreservedPending
<1>7. /\ attempt'[pi].userId = pi[1]
      /\ attempt'[pi].reservationCreatedAt = pi[2]
      /\ ~attempt'[pi].refundId
  <2>1. CASE attempt[pi].status = "NONE"
    <3>1. /\ PreservedAttempt[pi].userId = ticket.userId
          /\ PreservedAttempt[pi].reservationCreatedAt = ticket.createdAt
          /\ PreservedAttempt[pi].refundId = ticket.refundId
      BY <2>1, <1>2, <1>3, PreservedRows DEF IInv
    <3>2. ~ticket.refundId
      BY <1>2 DEF IInv, TicketShape
    <3> QED
      BY <3>1, <3>2, <1>4, <1>5 DEF OfGeneration
  <2>2. CASE attempt[pi].status = "PENDING"
    <3>1. PreservedAttempt[pi] = attempt[pi]
      BY <2>2, <1>3, PreservedRows DEF IInv
    <3>2. ~attempt[pi].refundId
      BY <2>2, <1>3 DEF IInv, AttemptShape
    <3> QED
      BY <3>1, <3>2, <2>2, <1>3, <1>5 DEF IInv, AttemptShape
  <2> QED
    BY <2>1, <2>2, <1>2
<1>8. /\ ticket'.status = "PAID"
      /\ ticket'.userId = ticket.userId
      /\ ticket'.createdAt = ticket.createdAt
      /\ ticket'.paymentIntentId = pi
      /\ ticket'.refundId = ticket.refundId
  BY <1>1, <1>2 DEF IInv, TypeOK, Tickets
<1>9. outbox \in Seq(Kind) /\ PaidEvent \in Kind
  BY <1>2 DEF IInv, TypeOK, TicketShape, PaidEvent
<1>10. /\ outbox' \in Seq(Kind) /\ outbox' # <<>>
       /\ Len(outbox') = Len(outbox) + 1
       /\ outbox'[Len(outbox) + 1] = PaidEvent
       /\ \A i \in 1..Len(outbox) : outbox'[i] = outbox[i]
  <2> HIDE DEF Kind
  <2> QED
    BY <1>1, <1>9, AppendedEvent
<1>11. TypeOK'
  <2>1. ticket' \in Tickets
    BY <1>1 DEF IInv, TypeOK, Tickets, TicketStatus
  <2> QED
    BY <1>1, <1>5, <1>10, <2>1 DEF IInv, TypeOK, OpenTx
<1>12. TicketShape'
  BY <1>1, <1>2, <1>3, <1>8, NullAssumption DEF IInv, TicketShape
<1>13. AttemptShape'
  BY <1>5, <1>6, <1>7 DEF IInv, AttemptShape
<1>14. Clocks' /\ Ages'
  BY <1>1, <1>2, <1>8 DEF IInv, Clocks, Ages
<1>15. Known'
  <2>1. \A q \in Intents : attempt'[q].status # "NONE" => q \in intents
    BY <1>3, <1>6 DEF IInv, Known
  <2> QED
    BY <2>1, <1>1, <1>2, <1>8 DEF IInv, Known
<1>16. Bindings'
  BY <1>1, <1>2, <1>3, <1>4, <1>6, <1>8 DEF IInv, TypeOK, Bindings, OfGeneration, Held
<1>17. Decision'
  BY <1>1 DEF Decision
<1>18. PaidAgreement'
  BY <1>2, <1>4, <1>5, <1>6, <1>8 DEF IInv, PaidAgreement, OfGeneration
<1>19. OwedNotHeld'
  BY <1>4, <1>5, <1>6, <1>7, <1>8 DEF IInv, OwedNotHeld, OfGeneration
<1>20. CancelledOwesRefund' /\ OwedCancelled'
  BY <1>5, <1>7, <1>8 DEF CancelledOwesRefund, OwedCancelled
<1>21. OutboxFaithful'
  <2>1. \A i \in 1..Len(outbox) : outbox[i].type # "ticket.paid"
    BY <1>2, <1>9 DEF IInv, OutboxFaithful
  <2>2. Len(outbox) \in Nat
    BY <1>9
  <2> QED
    BY <1>8, <1>10, <2>1, <2>2 DEF OutboxFaithful, PaidEvent
<1>22. HistoryKept'
  BY <1>1, <1>2, <1>5, <1>6, <1>7, <1>8 DEF IInv, TypeOK, HistoryKept, OfGeneration
<1> QED
  BY <1>11, <1>12, <1>13, <1>14, <1>15, <1>16, <1>17, <1>18, <1>19, <1>20, <1>21, <1>22 DEF IInv

(* A step that changes nothing.                                            *)
LEMMA StutterKeeps == ASSUME IInv, UNCHANGED vars PROVE IInv'
BY DEF vars, rows, stripe, IInv, TypeOK, TicketShape, AttemptShape, Clocks, Ages, Known, Bindings,
       Decision, OwedCancelled, PaidAgreement, OwedNotHeld, CancelledOwesRefund, OutboxFaithful,
       HistoryKept, OfGeneration, Held

(* Every step keeps the invariant.                                         *)
LEMMA StepKeeps == ASSUME IInv, [Next]_vars PROVE IInv'
<1>1. CASE Tick
  BY <1>1, TickKeeps
<1>2. ASSUME NEW u \in Users, NEW t \in ReplicaClock, NEW c \in ReplicaClock, Reserve(u, t, c)
      PROVE  IInv'
  BY <1>2, ReserveKeeps
<1>3. ASSUME NEW u \in Users, NEW t \in ReplicaClock, CreateIntent(u, t) PROVE IInv'
  BY <1>3, CreateIntentKeeps
<1>4. ASSUME NEW pi \in intents, NEW t \in ReplicaClock, Bind(pi, t) PROVE IInv'
  BY <1>4, BindKeeps
<1>5. ASSUME NEW e \in Events, NEW pi \in intents, NEW exact \in BOOLEAN, Charge(e, pi, exact)
      PROVE  IInv'
  BY <1>5, ChargeKeeps
<1>6. ASSUME NEW e \in Events, NEW t \in ReplicaClock, ConfirmOpen(e, t) PROVE IInv'
  BY <1>6, ConfirmOpenKeeps
<1>7. CASE ConfirmAbort
  BY <1>7, ConfirmAbortKeeps
<1>8. CASE ConfirmDuplicate
  BY <1>8, ConfirmDuplicateKeeps
<1>9. CASE ConfirmExpired
  BY <1>9, ConfirmExpiredKeeps
<1>10. CASE ConfirmPaid
  BY <1>10, ConfirmPaidKeeps
<1>11. ASSUME NEW pi \in intents, MarkRefund(pi) PROVE IInv'
  BY <1>11, MarkRefundKeeps
<1>12. CASE UNCHANGED vars
  BY <1>12, StutterKeeps
<1> QED
  BY <1>1, <1>2, <1>3, <1>4, <1>5, <1>6, <1>7, <1>8, <1>9, <1>10, <1>11, <1>12 DEF Next

-----------------------------------------------------------------------------
(* Theorems.                                                               *)

(* IInv holds for ever: it holds at first and every action keeps it.       *)
THEOREM Invariance == Spec => []IInv
<1>1. Init => IInv
  BY InitHolds
<1>2. IInv /\ [Next]_vars => IInv'
  BY StepKeeps
<1> QED
  BY <1>1, <1>2, PTL DEF Spec

(* Every row, transaction and Stripe fact has its type.                    *)
THEOREM TypeCorrect == Spec => []TypeOK
<1>1. IInv => TypeOK
  BY DEF IInv
<1> QED
  BY <1>1, Invariance, PTL

(* At most one payment of a seat is ever kept, and it is the payment of    *)
(* the very generation that holds the ticket (confirmReservation).         *)
THEOREM SingleSale == Spec => []PaidAgreement
<1>1. IInv => PaidAgreement
  BY DEF IInv
<1> QED
  BY <1>1, Invariance, PTL

(* No payment owed or given back stands behind a sale or a hold that some  *)
(* replica takes for live, however far apart the clocks (4 skews < TTL).   *)
THEOREM OwedNeverHeld == Spec => []OwedNotHeld
<1>1. IInv => OwedNotHeld
  BY DEF IInv
<1> QED
  BY <1>1, Invariance, PTL

(* A cancelled ticket has freed the seat and its payment is on record as   *)
(* owed or refunded.                                                       *)
THEOREM CancellationOwes == Spec => []CancelledOwesRefund
<1>1. IInv => CancelledOwesRefund
  BY DEF IInv
<1> QED
  BY <1>1, Invariance, PTL

(* The outbox and the ticket row never disagree.                           *)
THEOREM OutboxAgrees == Spec => []OutboxFaithful
<1>1. IInv => OutboxFaithful
  BY DEF IInv
<1> QED
  BY <1>1, Invariance, PTL

(* Every payment whose client secret was returned stays accounted for.     *)
THEOREM HistorySurvives == Spec => []HistoryKept
<1>1. IInv => HistoryKept
  BY DEF IInv
<1> QED
  BY <1>1, Invariance, PTL

(* A hold that every replica agrees on is never taken from its holder or   *)
(* cancelled, not even by a confirmation that decided before (34-67,       *)
(* 97-135).                                                                *)
THEOREM HoldsExclusive == Spec => HoldExclusive
<1> DEFINE Kept == /\ lockedAt' = lockedAt
                   /\ ticket'.status \in {"LOCKED", "PAID"}
                   /\ ticket'.userId = ticket.userId
                   /\ ticket'.createdAt = ticket.createdAt
<1>1. IInv /\ [Next]_vars => [HoldLasts => Kept]_vars
  <2> SUFFICES ASSUME IInv, Next, HoldLasts PROVE Kept
    OBVIOUS
  <2>1. ticket \in Tickets /\ ticket.status = "LOCKED" /\ Held(now + MaxSkew)
    BY DEF IInv, TypeOK, HoldLasts
  <2>2. CASE UNCHANGED <<lockedAt, ticket>>
    BY <2>1, <2>2
  <2>3. ASSUME NEW u \in Users, NEW t \in ReplicaClock, NEW c \in ReplicaClock, Reserve(u, t, c)
        PROVE  Kept
    <3>1. Held(t)
      BY <2>1, HeldMonotonic, ClockAssumption DEF IInv, TypeOK, ReplicaClock, Time
    <3> QED
      BY <3>1, <2>3 DEF Reserve, Free
  <2>4. ASSUME NEW pi \in intents, NEW t \in ReplicaClock, Bind(pi, t) PROVE Kept
    BY <2>1, <2>4 DEF Bind, Tickets
  <2>5. CASE ConfirmExpired
    <3> DEFINE pi == charge[tx.event].paymentIntentId
    <3>1. ~(SameReservation(pi) /\ ticket.status = "LOCKED")
      BY <2>1, <2>5 DEF ConfirmExpired, Commit, RowFree, IInv, Decision, SameReservation
    <3> QED
      BY <2>1, <2>5, <3>1 DEF ConfirmExpired
  <2>6. CASE ConfirmPaid
    BY <2>1, <2>6 DEF ConfirmPaid, Tickets
  <2>7. ASSUME NEW pi \in intents, MarkRefund(pi) PROVE Kept
    BY <2>1, <2>7 DEF MarkRefund, OwnCancelled
  <2> QED
    BY <2>2, <2>3, <2>4, <2>5, <2>6, <2>7
       DEF Next, Tick, CreateIntent, Charge, ConfirmOpen, ConfirmAbort, ConfirmDuplicate, rows
<1> QED
  BY <1>1, Invariance, PTL DEF Spec, HoldExclusive

(* createdAt is a generation: a recycled ticket row's is strictly later    *)
(* than before, whatever replica's clock wrote it.                         *)
THEOREM GenerationsIncrease == Spec => GenerationsGrow
<1> DEFINE Grows == ticket.status # "NONE" /\ ticket'.createdAt # ticket.createdAt
                      => ticket'.createdAt > ticket.createdAt
<1>1. IInv /\ [Next]_vars => [Grows]_vars
  <2> SUFFICES ASSUME IInv, Next PROVE Grows
    OBVIOUS
  <2>1. ticket \in Tickets
    BY DEF IInv, TypeOK
  <2>2. CASE ticket'.createdAt = ticket.createdAt
    BY <2>2
  <2>3. ASSUME NEW u \in Users, NEW t \in ReplicaClock, NEW c \in ReplicaClock, Reserve(u, t, c)
        PROVE  Grows
    <3>1. ticket'.createdAt = c /\ (ticket.status # "NONE" => c = t) /\ Free(t)
      BY <2>3 DEF Reserve, NewTicket
    <3>2. c \in Int /\ t \in Int /\ ticket.createdAt \in Int
      BY <2>1 DEF ReplicaClock, Time, Tickets
    <3> QED
      BY <3>1, <3>2, NewGeneration
  <2>4. ASSUME NEW pi \in intents, NEW t \in ReplicaClock, Bind(pi, t) PROVE Grows
    BY <2>1, <2>4 DEF Bind, Tickets
  <2>5. ASSUME NEW pi \in intents, MarkRefund(pi) PROVE Grows
    BY <2>1, <2>5 DEF MarkRefund, Tickets
  <2>6. CASE ConfirmExpired \/ ConfirmPaid
    BY <2>1, <2>6 DEF ConfirmExpired, ConfirmPaid, Tickets
  <2> QED
    BY <2>2, <2>3, <2>4, <2>5, <2>6
       DEF Next, Tick, CreateIntent, Charge, ConfirmOpen, ConfirmAbort, ConfirmDuplicate, rows
<1> QED
  BY <1>1, Invariance, PTL DEF Spec, GenerationsGrow

-----------------------------------------------------------------------------
(* The rows implement the lifecycle.                                       *)

(* What the lifecycle sees of a step that leaves seat and money alone.     *)
LEMMA SameLifecycle ==
    ASSUME IInv,
           ticket'.status = ticket.status,
           ticket'.userId = ticket.userId,
           ticket'.createdAt = ticket.createdAt,
           \A pi \in Intents : MoneyOf(pi)' = MoneyOf(pi)
    PROVE  UNCHANGED Lifecycle!vars
<1>1. Money' = Money
  BY DEF Money
<1>2. Phase' = Phase /\ Holder' = Holder
  BY DEF Phase, Holder
<1> QED
  BY <1>1, <1>2 DEF Lifecycle!vars

(* Only PAID, REFUND_PENDING and a refundId count as money.                *)
LEMMA MoneyFromRow ==
    ASSUME NEW pi \in Intents,
           attempt'[pi].refundId <=> attempt[pi].refundId,
           \/ attempt'[pi].status = attempt[pi].status
           \/ attempt[pi].status = "NONE" /\ attempt'[pi].status = "PENDING"
    PROVE  MoneyOf(pi)' = MoneyOf(pi)
BY DEF MoneyOf

(* Copying a binding into the history is no movement of money.             *)
LEMMA PreservedMoney ==
    ASSUME IInv, NEW pi \in Intents, attempt'[pi] = PreservedAttempt[pi]
    PROVE  MoneyOf(pi)' = MoneyOf(pi)
<1>1. CASE attempt'[pi] = attempt[pi]
  BY <1>1, MoneyFromRow
<1>2. CASE attempt'[pi] # attempt[pi]
  <2>1. attempt[pi].status = "NONE" /\ attempt'[pi].status = "PENDING" /\ ~attempt'[pi].refundId
    BY <1>2, PreservedPending
  <2>2. ~attempt[pi].refundId
    BY <2>1 DEF IInv, AttemptShape
  <2> QED
    BY <2>1, <2>2, MoneyFromRow
<1> QED
  BY <1>1, <1>2

(* MoneyOf by its cases, before and after a step.                          *)
LEMMA MoneyNow ==
    ASSUME NEW pi
    PROVE  /\ attempt[pi].refundId => MoneyOf(pi) = "refunded"
           /\ ~attempt[pi].refundId /\ attempt[pi].status = "PAID" => MoneyOf(pi) = "kept"
           /\ ~attempt[pi].refundId /\ attempt[pi].status = "REFUND_PENDING"
                => MoneyOf(pi) = "owed"
           /\ ~attempt[pi].refundId /\ attempt[pi].status \notin {"PAID", "REFUND_PENDING"}
                => MoneyOf(pi) = "none"
BY DEF MoneyOf

LEMMA MoneyThen ==
    ASSUME NEW pi
    PROVE  /\ attempt'[pi].refundId => MoneyOf(pi)' = "refunded"
           /\ ~attempt'[pi].refundId /\ attempt'[pi].status = "PAID" => MoneyOf(pi)' = "kept"
           /\ ~attempt'[pi].refundId /\ attempt'[pi].status = "REFUND_PENDING"
                => MoneyOf(pi)' = "owed"
BY DEF MoneyOf

(* A step that moves one payment's money moves no other.                   *)
LEMMA MoneyMoves ==
    ASSUME NEW pi \in Intents,
           \A q \in Intents : q # pi => MoneyOf(q)' = MoneyOf(q)
    PROVE  Money' = [Money EXCEPT ![pi] = MoneyOf(pi)']
BY DEF Money

(* reserveSeat is Hold, under a generation nobody has paid for.            *)
LEMMA ReserveHolds ==
    ASSUME IInv, NEW u \in Users, NEW t \in ReplicaClock, NEW c \in ReplicaClock, Reserve(u, t, c)
    PROVE  Lifecycle!Next
<1> DEFINE g == <<u, c>>
<1>1. g \in Intents
  BY DEF Intents, ReplicaClock
<1>2. Phase # "sold"
  BY DEF Reserve, Free, Phase
<1>3. g \notin intents
  <2>1. ticket.status # "NONE" => ticket.createdAt < c
    BY NewGeneration DEF Reserve
  <2> QED
    BY <2>1 DEF IInv, TypeOK, Ages, Tickets, Time, ReplicaClock
<1>4. MoneyOf(g) = "none"
  BY <1>1, <1>3 DEF IInv, Known, AttemptShape, MoneyOf
<1>5. Phase' = "held" /\ Holder' = g
  BY DEF Reserve, NewTicket, Phase, Holder
<1>6. Money' = Money
  BY PreservedMoney DEF Reserve, Money
<1>7. Lifecycle!Hold(g)
  BY <1>1, <1>2, <1>4, <1>5, <1>6 DEF Lifecycle!Hold, Money
<1> QED
  BY <1>1, <1>7 DEF Lifecycle!Next

(* bindPaymentIntent moves neither seat nor money.                         *)
LEMMA BindStutters ==
    ASSUME IInv, NEW pi \in intents, NEW t \in ReplicaClock, Bind(pi, t)
    PROVE  UNCHANGED Lifecycle!vars
<1>1. \A q \in Intents : MoneyOf(q)' = MoneyOf(q)
  <2> SUFFICES ASSUME NEW q \in Intents PROVE MoneyOf(q)' = MoneyOf(q)
    OBVIOUS
  <2>1. CASE attempt[pi].status = "NONE" /\ q = pi
    <3>1. attempt'[q].status = "PENDING" /\ ~attempt'[q].refundId
      BY <2>1 DEF Bind, IInv, TypeOK
    <3>2. ~attempt[q].refundId
      BY <2>1 DEF IInv, AttemptShape
    <3> QED
      BY <2>1, <3>1, <3>2, MoneyFromRow
  <2>2. CASE ~(attempt[pi].status = "NONE" /\ q = pi)
    <3>1. attempt'[q] = attempt[q]
      BY <2>2 DEF Bind, IInv, TypeOK
    <3> QED
      BY <3>1, MoneyFromRow
  <2> QED
    BY <2>1, <2>2
<1>2. /\ ticket'.status = ticket.status
      /\ ticket'.userId = ticket.userId
      /\ ticket'.createdAt = ticket.createdAt
  BY DEF Bind, IInv, TypeOK, Tickets
<1> QED
  BY <1>1, <1>2, SameLifecycle

(* Nor does a duplicate.                                                   *)
LEMMA DuplicateStutters ==
    ASSUME IInv, ConfirmDuplicate PROVE UNCHANGED Lifecycle!vars
<1>1. \A q \in Intents : attempt'[q] = attempt[q] \/ attempt'[q] = PreservedAttempt[q]
  BY DEF ConfirmDuplicate
<1>2. \A q \in Intents : MoneyOf(q)' = MoneyOf(q)
  BY <1>1, PreservedMoney, MoneyFromRow
<1>3. ticket' = ticket
  BY DEF ConfirmDuplicate
<1> QED
  BY <1>2, <1>3, SameLifecycle

(* A late payment is Owe, or nothing when it is owed already.              *)
LEMMA ExpiredOwes ==
    ASSUME IInv, ConfirmExpired PROVE Lifecycle!Next \/ UNCHANGED Lifecycle!vars
<1>1. tx \in OpenTx /\ charge[tx.event] # NoCharge
  BY DEF ConfirmExpired, Commit, RowFree, IInv, Decision
<1>2. PICK pi \in Intents : pi = charge[tx.event].paymentIntentId
  BY <1>1 DEF IInv, TypeOK, OpenTx, Charges
<1> DEFINE cancels == SameReservation(pi) /\ ticket.status = "LOCKED"
<1>3. /\ attempt[pi].status # "PAID"
      /\ attempt' = [PreservedAttempt EXCEPT ![pi].status = "REFUND_PENDING"]
      /\ IF cancels
         THEN ticket' = [ticket EXCEPT !.status = "CANCELLED"]
         ELSE ticket' = ticket
  BY <1>1, <1>2 DEF ConfirmExpired, Commit, RowFree, IInv, Decision
<1>4. /\ attempt'[pi].status = "REFUND_PENDING"
      /\ attempt'[pi].refundId = PreservedAttempt[pi].refundId
      /\ \A q \in Intents : q # pi => attempt'[q] = PreservedAttempt[q]
  BY <1>3, <1>2, PreservedPending DEF Attempts
<1>5. \A q \in Intents : q # pi => MoneyOf(q)' = MoneyOf(q)
  BY <1>4, PreservedMoney
<1>6. attempt'[pi].refundId <=> attempt[pi].refundId
  <2>1. CASE PreservedAttempt[pi] = attempt[pi]
    BY <2>1, <1>4
  <2>2. CASE PreservedAttempt[pi] # attempt[pi]
    <3>1. ~PreservedAttempt[pi].refundId /\ attempt[pi].status = "NONE"
      BY <2>2, <1>2, PreservedPending
    <3> QED
      BY <3>1, <1>2, <1>4 DEF IInv, AttemptShape
  <2> QED
    BY <2>1, <2>2
<1>7. cancels => ticket.paymentIntentId = pi
  BY DEF SameReservation
<1>8. cancels => /\ Phase = "held" /\ Holder = pi
                 /\ Phase' = "free" /\ Holder' = NoIntent
  BY <1>3, <1>2, <1>7, NullAssumption DEF IInv, TypeOK, Tickets, Bindings, Phase, Holder
<1>9. ~cancels => Phase' = Phase /\ Holder' = Holder
  BY <1>3 DEF Phase, Holder
<1>10. CASE MoneyOf(pi) = "none"
  <2>1. ~attempt[pi].refundId
    BY <1>10, MoneyNow
  <2>2. MoneyOf(pi)' = "owed"
    BY <2>1, <1>4, <1>6, MoneyThen
  <2>3. Money' = [Money EXCEPT ![pi] = MoneyOf(pi)']
    BY <1>2, <1>5, MoneyMoves
  <2>4. Lifecycle!Owe(pi)
    BY <2>2, <2>3, <1>2, <1>8, <1>9, <1>10 DEF Lifecycle!Owe, Money
  <2> QED
    BY <2>4, <1>2 DEF Lifecycle!Next
<1>11. CASE MoneyOf(pi) # "none"
  <2>1. attempt[pi].refundId \/ attempt[pi].status = "REFUND_PENDING"
    BY <1>11, <1>3, MoneyNow
  <2>2. MoneyOf(pi)' = MoneyOf(pi)
    BY <2>1, <1>4, <1>6, MoneyNow, MoneyThen
  <2>3. ~cancels
    BY <2>1, <1>2, <1>7 DEF IInv, OwedCancelled
  <2>4. Money' = Money
    BY <2>2, <1>5 DEF Money
  <2> QED
    BY <2>3, <2>4, <1>9 DEF Lifecycle!vars
<1> QED
  BY <1>10, <1>11

(* A sale is Sell.                                                         *)
LEMMA PaidSells ==
    ASSUME IInv, ConfirmPaid PROVE Lifecycle!Next
<1>1. tx \in OpenTx /\ charge[tx.event] # NoCharge
  BY DEF ConfirmPaid, Commit, RowFree, IInv, Decision
<1>2. PICK pi \in Intents : pi = charge[tx.event].paymentIntentId
  BY <1>1 DEF IInv, TypeOK, OpenTx, Charges
<1>3. /\ ticket.status = "LOCKED"
      /\ ticket.paymentIntentId = pi
      /\ attempt[pi].status \in {"NONE", "PENDING"}
      /\ attempt' = [PreservedAttempt EXCEPT ![pi].status = "PAID"]
      /\ ticket' = [ticket EXCEPT !.status = "PAID"]
  BY <1>1, <1>2 DEF ConfirmPaid, Commit, RowFree, IInv, Decision
<1>4. /\ attempt'[pi].status = "PAID"
      /\ attempt'[pi].refundId = PreservedAttempt[pi].refundId
      /\ \A q \in Intents : q # pi => attempt'[q] = PreservedAttempt[q]
  BY <1>3, <1>2, PreservedPending DEF Attempts
<1>5. \A q \in Intents : q # pi => MoneyOf(q)' = MoneyOf(q)
  BY <1>4, PreservedMoney
<1>6. ~attempt[pi].refundId /\ ~attempt'[pi].refundId
  <2>1. ~attempt[pi].refundId
    BY <1>3, <1>2 DEF IInv, AttemptShape
  <2>2. ~PreservedAttempt[pi].refundId
    BY <2>1, <1>2, PreservedPending
  <2> QED
    BY <2>1, <2>2, <1>4
<1>7. MoneyOf(pi) = "none" /\ MoneyOf(pi)' = "kept"
  BY <1>3, <1>4, <1>6, MoneyNow, MoneyThen
<1>8. Money' = [Money EXCEPT ![pi] = "kept"]
  BY <1>2, <1>5, <1>7, MoneyMoves
<1>9. Phase = "held" /\ Holder = pi /\ Phase' = "sold" /\ Holder' = Holder
  BY <1>3, <1>2, NullAssumption DEF IInv, TypeOK, Tickets, Bindings, Phase, Holder
<1>10. Lifecycle!Sell(pi)
  BY <1>2, <1>7, <1>8, <1>9 DEF Lifecycle!Sell, Money
<1> QED
  BY <1>2, <1>10 DEF Lifecycle!Next

(* markRefundCompleted is Refund, or nothing the second time.              *)
LEMMA MarkRefunds ==
    ASSUME IInv, NEW pi \in intents, MarkRefund(pi)
    PROVE  Lifecycle!Next \/ UNCHANGED Lifecycle!vars
<1>1. pi \in Intents
  BY DEF IInv, TypeOK
<1>2. /\ ticket'.status = ticket.status
      /\ ticket'.userId = ticket.userId
      /\ ticket'.createdAt = ticket.createdAt
  BY DEF MarkRefund, IInv, TypeOK, Tickets
<1>3. Phase' = Phase /\ Holder' = Holder
  BY <1>2 DEF Phase, Holder
<1>4. CASE PendingRefund(pi)
  <2>1. /\ attempt'[pi].refundId
        /\ \A q \in Intents : q # pi => attempt'[q] = attempt[q]
    BY <1>1, <1>4 DEF MarkRefund, IInv, TypeOK, Attempts
  <2>2. MoneyOf(pi) = "owed" /\ MoneyOf(pi)' = "refunded"
    BY <1>4, <2>1 DEF MoneyOf, PendingRefund
  <2>3. \A q \in Intents : q # pi => MoneyOf(q)' = MoneyOf(q)
    BY <2>1, MoneyFromRow
  <2>4. Money' = [Money EXCEPT ![pi] = "refunded"]
    BY <1>1, <2>2, <2>3 DEF Money
  <2>5. Lifecycle!Refund(pi)
    BY <1>1, <1>3, <2>2, <2>4 DEF Lifecycle!Refund, Money
  <2> QED
    BY <1>1, <2>5 DEF Lifecycle!Next
<1>5. CASE ~PendingRefund(pi)
  <2>1. \A q \in Intents : MoneyOf(q)' = MoneyOf(q)
    BY <1>5, MoneyFromRow DEF MarkRefund
  <2> QED
    BY <2>1, <1>2, SameLifecycle
<1> QED
  BY <1>4, <1>5

(* Every transaction of the code is a step of the documented lifecycle or  *)
(* leaves it alone (reservation.service.ts, ARCHITECTURE.md).              *)
THEOREM Refinement == Spec => ImplementsLifecycle
<1>1. Init => Lifecycle!Init
  <2> SUFFICES ASSUME Init PROVE Lifecycle!Init
    OBVIOUS
  <2>1. \A pi \in Intents : MoneyOf(pi) = "none"
    BY DEF Init, NoAttempt, MoneyOf
  <2>2. Money = [g \in Intents |-> "none"]
    BY <2>1 DEF Money
  <2>3. CASE NewSeat
    BY <2>2, <2>3 DEF NewSeat, NoTicket, Phase, Holder, Lifecycle!Init
  <2>4. CASE BoundBeforeHistory
    <3>1. Phase = "held" /\ Holder \in Intents
      BY <2>4, ClockAssumption DEF BoundBeforeHistory, Phase, Holder, Intents, Time
    <3> QED
      BY <3>1, <2>2 DEF Lifecycle!Init
  <2> QED
    BY <2>3, <2>4 DEF Init
<1>2. IInv /\ [Next]_vars => [Lifecycle!Next]_(Lifecycle!vars)
  <2> SUFFICES ASSUME IInv, [Next]_vars PROVE Lifecycle!Next \/ UNCHANGED Lifecycle!vars
    OBVIOUS
  <2>1. CASE UNCHANGED <<ticket, attempt>>
    <3>1. \A q \in Intents : MoneyOf(q)' = MoneyOf(q)
      BY <2>1, MoneyFromRow
    <3> QED
      BY <2>1, <3>1, SameLifecycle
  <2>2. ASSUME NEW u \in Users, NEW t \in ReplicaClock, NEW c \in ReplicaClock, Reserve(u, t, c)
        PROVE  Lifecycle!Next
    BY <2>2, ReserveHolds
  <2>3. ASSUME NEW pi \in intents, NEW t \in ReplicaClock, Bind(pi, t)
        PROVE  UNCHANGED Lifecycle!vars
    BY <2>3, BindStutters
  <2>4. ASSUME NEW pi \in intents, MarkRefund(pi)
        PROVE  Lifecycle!Next \/ UNCHANGED Lifecycle!vars
    BY <2>4, MarkRefunds
  <2> QED
    BY <2>1, <2>2, <2>3, <2>4, DuplicateStutters, ExpiredOwes, PaidSells
       DEF Next, vars, rows, Tick, CreateIntent, Charge, ConfirmOpen, ConfirmAbort
<1> QED
  BY <1>1, <1>2, Invariance, PTL DEF Spec, ImplementsLifecycle, Lifecycle!Spec

-----------------------------------------------------------------------------
(* When a refund is final.  The run refund_lost_update shows that it need  *)
(* not be; the theorem below says what it takes: a second event that       *)
(* reports the same charge.                                                *)

(* No payment has been reported under two event ids so far.                *)
OneEventPerPayment ==
    \A e, f \in Events :
        /\ charge[e] # NoCharge /\ charge[f] # NoCharge
        /\ charge[e].paymentIntentId = charge[f].paymentIntentId
        => e = f

(* Until then a step leaves the row of a refunded payment as it is.        *)
RefundKept ==
    OneEventPerPayment =>
        \A pi \in Intents : attempt[pi].status = "REFUNDED" => attempt'[pi] = attempt[pi]

(* Money is owed only by the decision on an event, which left its marker.  *)
OwedByEvent ==
    \A pi \in Intents :
        attempt[pi].status \in {"REFUND_PENDING", "REFUNDED"} =>
            \E e \in processed : charge[e] # NoCharge /\ charge[e].paymentIntentId = pi

(* A confirmation that goes on to owe the money back had no marker before. *)
OpenUnprocessed == tx # NoTx /\ tx.outcome = "expired" => tx.event \notin processed

RefundInv == IInv /\ OwedByEvent /\ OpenUnprocessed

(* Markers and charges stay, so a step that owes nothing new keeps it.     *)
LEMMA NothingNewOwed ==
    ASSUME OwedByEvent,
           processed \subseteq processed',
           \A e \in processed : charge[e] # NoCharge => charge'[e] = charge[e],
           \A pi \in Intents : attempt'[pi].status \in {"REFUND_PENDING", "REFUNDED"} =>
                                  attempt[pi].status \in {"REFUND_PENDING", "REFUNDED"}
    PROVE  OwedByEvent'
BY DEF OwedByEvent

LEMMA OwedByEventKept == ASSUME RefundInv, [Next]_vars PROVE OwedByEvent'
<1> USE DEF RefundInv
<1>1. \A pi \in Intents : PreservedAttempt[pi] = attempt[pi] \/ PreservedAttempt[pi].status = "PENDING"
  BY PreservedPending
<1>2. attempt \in [Intents -> Attempts] /\ PreservedAttempt \in [Intents -> Attempts]
  BY PreservedPending DEF IInv, TypeOK
<1>3. CASE UNCHANGED <<attempt, processed, charge>>
  BY <1>3, NothingNewOwed
<1>4. ASSUME NEW e \in Events, NEW pi \in intents, NEW exact \in BOOLEAN, Charge(e, pi, exact)
      PROVE  OwedByEvent'
  BY <1>4, NothingNewOwed DEF Charge, rows, IInv, TypeOK
<1>5. CASE /\ UNCHANGED charge
           /\ processed \subseteq processed'
           /\ attempt' = attempt \/ attempt' = PreservedAttempt
  BY <1>1, <1>5, NothingNewOwed
<1>6. ASSUME NEW pi \in intents, NEW t \in ReplicaClock, Bind(pi, t) PROVE OwedByEvent'
  <2>1. \A q \in Intents : attempt'[q] = attempt[q] \/ attempt'[q].status = "PENDING"
    BY <1>2, <1>6 DEF Bind
  <2> QED
    BY <1>6, <2>1, NothingNewOwed DEF Bind
<1>7. CASE ConfirmExpired
  <2> DEFINE pi == charge[tx.event].paymentIntentId
  <2>1. tx.event \in processed' /\ charge[tx.event] # NoCharge
    BY <1>7 DEF ConfirmExpired, Commit, RowFree, IInv, Decision
  <2>2. processed \subseteq processed' /\ charge' = charge
    BY <1>7 DEF ConfirmExpired, Commit, stripe
  <2>3. \A q \in Intents : q # pi => attempt'[q] = PreservedAttempt[q]
    BY <1>2, <1>7 DEF ConfirmExpired
  <2> HIDE DEF pi
  <2>4. ASSUME NEW q \in Intents, attempt'[q].status \in {"REFUND_PENDING", "REFUNDED"}, q # pi
        PROVE  \E e \in processed' : charge'[e] # NoCharge /\ charge'[e].paymentIntentId = q
    <3>1. attempt[q].status \in {"REFUND_PENDING", "REFUNDED"}
      BY <1>1, <2>3, <2>4
    <3> QED
      BY <2>2, <3>1 DEF OwedByEvent
  <2> QED
    BY <2>1, <2>2, <2>4 DEF OwedByEvent, pi
<1>8. CASE ConfirmPaid
  <2>1. \A q \in Intents : attempt'[q] = PreservedAttempt[q] \/ attempt'[q].status = "PAID"
    BY <1>2, <1>8 DEF ConfirmPaid
  <2>2. processed \subseteq processed' /\ charge' = charge
    BY <1>8 DEF ConfirmPaid, Commit, stripe
  <2>3. \A q \in Intents : attempt'[q].status \in {"REFUND_PENDING", "REFUNDED"} =>
                              attempt[q].status \in {"REFUND_PENDING", "REFUNDED"}
    BY <1>1, <2>1
  <2> QED
    BY <2>2, <2>3, NothingNewOwed
<1>9. ASSUME NEW pi \in intents, MarkRefund(pi) PROVE OwedByEvent'
  <2>1. \A q \in Intents : attempt'[q] = attempt[q] \/ attempt[q].status = "REFUND_PENDING"
    BY <1>2, <1>9 DEF MarkRefund, PendingRefund
  <2> QED
    BY <1>9, <2>1, NothingNewOwed DEF MarkRefund, stripe
<1> QED
  BY <1>3, <1>4, <1>5, <1>6, <1>7, <1>8, <1>9
     DEF Next, vars, rows, stripe, Tick, Reserve, CreateIntent, ConfirmOpen, ConfirmAbort,
         ConfirmDuplicate, Commit

(* Only the open confirmation commits a marker, and it ends by that.       *)
LEMMA OpenUnprocessedKept == ASSUME RefundInv, [Next]_vars PROVE OpenUnprocessed'
<1> USE DEF RefundInv
<1>1. CASE UNCHANGED <<tx, processed>>
  BY <1>1 DEF OpenUnprocessed
<1>2. CASE tx' = NoTx
  BY <1>2 DEF OpenUnprocessed
<1>3. ASSUME NEW e \in Events, NEW t \in ReplicaClock, ConfirmOpen(e, t) PROVE OpenUnprocessed'
  <2>1. tx' = [event |-> e, outcome |-> Outcome(e, t)] /\ processed' = processed
    BY <1>3 DEF ConfirmOpen, rows
  <2>2. Outcome(e, t) = "expired" => e \notin processed
    BY DEF Outcome
  <2> QED
    BY <2>1, <2>2 DEF OpenUnprocessed
<1> QED
  BY <1>1, <1>2, <1>3
     DEF Next, vars, rows, stripe, Tick, Reserve, CreateIntent, Bind, Charge, ConfirmAbort,
         ConfirmDuplicate, ConfirmExpired, ConfirmPaid, Commit, MarkRefund

LEMMA RefundInvariance == Spec => []RefundInv
<1>1. Init => RefundInv
  <2> SUFFICES ASSUME Init PROVE RefundInv
    OBVIOUS
  <2>1. IInv
    BY InitHolds
  <2>2. \A pi \in Intents : attempt[pi].status = "NONE"
    BY DEF Init, NoAttempt
  <2> QED
    BY <2>1, <2>2 DEF Init, RefundInv, OwedByEvent, OpenUnprocessed
<1>2. RefundInv /\ [Next]_vars => RefundInv'
  BY StepKeeps, OwedByEventKept, OpenUnprocessedKept DEF RefundInv
<1> QED
  BY <1>1, <1>2, PTL DEF Spec

(* A refund on record is final as long as no charge has been reported by   *)
(* two events: no hold, binding, confirmation or repeated delivery of the  *)
(* one event touches the row again (confirmReservation 97-135).            *)
THEOREM RefundFinalForOneEvent == Spec => [][RefundKept]_vars
<1>1. RefundInv /\ [Next]_vars => [RefundKept]_vars
  <2> SUFFICES ASSUME RefundInv, Next, OneEventPerPayment,
                      NEW pi \in Intents, attempt[pi].status = "REFUNDED"
               PROVE  attempt'[pi] = attempt[pi]
    BY DEF RefundKept
  <2> USE DEF RefundInv
  <2>1. PreservedAttempt[pi] = attempt[pi]
    BY PreservedPending
  <2>2. attempt \in [Intents -> Attempts] /\ PreservedAttempt \in [Intents -> Attempts]
    BY PreservedPending DEF IInv, TypeOK
  <2>3. CASE attempt' = attempt \/ attempt' = PreservedAttempt
    BY <2>1, <2>3
  <2>4. ASSUME NEW q \in intents, NEW t \in ReplicaClock, Bind(q, t) PROVE attempt'[pi] = attempt[pi]
    BY <2>2, <2>4 DEF Bind
  <2>5. CASE ConfirmExpired
    <3>1. tx # NoTx /\ tx.outcome = "expired" /\ tx.event \in Events /\ charge[tx.event] # NoCharge
      BY <2>5 DEF ConfirmExpired, Commit, RowFree, IInv, Decision, OpenTx
    <3>2. PICK e \in processed : charge[e] # NoCharge /\ charge[e].paymentIntentId = pi
      BY DEF OwedByEvent
    <3>3. charge[tx.event].paymentIntentId # pi
      BY <3>1, <3>2 DEF OneEventPerPayment, OpenUnprocessed, IInv, TypeOK
    <3> QED
      BY <2>1, <2>2, <2>5, <3>3 DEF ConfirmExpired
  <2>6. CASE ConfirmPaid
    <3>1. charge[tx.event].paymentIntentId # pi
      BY <2>6 DEF ConfirmPaid, Commit, RowFree, IInv, Decision
    <3> QED
      BY <2>1, <2>2, <2>6, <3>1 DEF ConfirmPaid
  <2>7. ASSUME NEW q \in intents, MarkRefund(q) PROVE attempt'[pi] = attempt[pi]
    BY <2>2, <2>7 DEF MarkRefund, PendingRefund
  <2> QED
    BY <2>3, <2>4, <2>5, <2>6, <2>7
       DEF Next, rows, Tick, Reserve, CreateIntent, Charge, ConfirmOpen, ConfirmAbort, ConfirmDuplicate
<1> QED
  BY <1>1, RefundInvariance, PTL DEF Spec

-----------------------------------------------------------------------------
(* Part 2: WebhookDelivery.  The inductive invariant, part by part.        *)

Owed    == {"REFUND_PENDING", "REFUNDED"}
Decided == {"PAID"} \cup Owed

(* A busy handler serves an event that Stripe did send.                    *)
Serving ==
    \A h \in Handlers : ~At(h, "idle") => EventOf(h) \in Events /\ charge[EventOf(h)] # NoCharge

(* The open confirmation is that of the only handler that waits for its    *)
(* commit.                                                                 *)
LockOwner ==
    \A h \in Handlers : At(h, "commit") =>
        /\ tx # NoTx
        /\ tx.event = EventOf(h)
        /\ \A g \in Handlers : At(g, "commit") => g = h

(* A confirmation that will not be rejected is for the exact amount; one   *)
(* that found a duplicate found its payment decided.                       *)
OpenDecision ==
    tx # NoTx =>
        /\ tx.event \in Events
        /\ charge[tx.event] # NoCharge
        /\ tx.outcome # "rejected" => charge[tx.event].exact
        /\ tx.outcome = "duplicate" => attempt[charge[tx.event].paymentIntentId].status \in Decided

(* A processed event is exact.  MarkerMeansDecision adds its decision.     *)
MarkedExact == \A e \in processed : charge[e] # NoCharge /\ charge[e].exact

(* What is refunded, or about to be, is owed.                              *)
RefundsOwed ==
    /\ \A pi \in refunded : attempt[pi].status \in Owed
    /\ \A h \in Handlers : At(h, "refund") \/ At(h, "mark") =>
          attempt[PaymentOf(h)].status \in Owed

Settles(e) == attempt[charge[e].paymentIntentId].status = "PAID"
              \/ charge[e].paymentIntentId \in refunded

(* What a handler may rely on, by its control state.                       *)
Promises ==
    \A h \in Handlers :
        /\ At(h, "find") \/ At(h, "refund") \/ At(h, "mark") => EventOf(h) \in processed
        /\ At(h, "mark") => PaymentOf(h) \in refunded
        /\ hook[h].result = "ok" =>
              At(h, "release") /\ EventOf(h) \in processed /\ Settles(EventOf(h))

(* AckedSettled as it is inductive.                                        *)
AckedProcessed == \A e \in acked : e \in processed /\ Settles(e)

HInv ==
    /\ IInv
    /\ HookTypeOK
    /\ Serving
    /\ LockOwner
    /\ OpenDecision
    /\ MarkerMeansDecision
    /\ MarkedExact
    /\ RefundsOwed
    /\ RefundRecordTrue
    /\ Promises
    /\ AckedProcessed

-----------------------------------------------------------------------------
(* What a step of the rows may do to a payment.                            *)

(* Every action of the rows but the recording of a refund.                 *)
NoRefund ==
    \/ Tick
    \/ \E u \in Users, t, c \in ReplicaClock : Reserve(u, t, c)
    \/ \E u \in Users, t \in ReplicaClock : CreateIntent(u, t)
    \/ \E pi \in intents, t \in ReplicaClock : Bind(pi, t)
    \/ \E e \in Events, pi \in intents, exact \in BOOLEAN : Charge(e, pi, exact)
    \/ \E e \in Events, t \in ReplicaClock : ConfirmOpen(e, t)
    \/ ConfirmAbort \/ ConfirmDuplicate \/ ConfirmExpired \/ ConfirmPaid
    \/ UNCHANGED vars

RecordRefund == \E pi \in intents : MarkRefund(pi)

(* preservePayment never decides a payment that has no row yet.            *)
LEMMA PreservedDecided ==
    ASSUME IInv, NEW pi \in Intents, attempt'[pi] = PreservedAttempt[pi]
    PROVE  /\ attempt[pi].status \in Decided => attempt'[pi].status = attempt[pi].status
           /\ attempt'[pi].refundId => attempt[pi].refundId
<1>1. CASE attempt'[pi] = attempt[pi]
  BY <1>1
<1>2. CASE attempt'[pi] # attempt[pi]
  BY <1>2, PreservedPending DEF Decided, Owed
<1> QED
  BY <1>1, <1>2

(* A decision is never taken back: PAID stays PAID, owed stays owed or     *)
(* becomes returned.  Only markRefundCompleted stores a refundId.          *)
LEMMA DecidedStays ==
    ASSUME IInv, NoRefund \/ RecordRefund, NEW pi \in Intents
    PROVE  /\ attempt[pi].status = "PAID" => attempt'[pi].status = "PAID"
           /\ attempt[pi].status \in Owed => attempt'[pi].status \in Owed
           /\ NoRefund /\ attempt'[pi].refundId => attempt[pi].refundId
<1> DEFINE Goal == /\ attempt[pi].status = "PAID" => attempt'[pi].status = "PAID"
                   /\ attempt[pi].status \in Owed => attempt'[pi].status \in Owed
           Kept == attempt'[pi].refundId => attempt[pi].refundId
<1>1. CASE attempt' = attempt
  BY <1>1
<1>2. CASE attempt'[pi] = PreservedAttempt[pi]
  BY <1>2, PreservedDecided DEF Decided, Owed
<1>3. ASSUME NEW q \in intents, NEW t \in ReplicaClock, Bind(q, t) PROVE Goal /\ Kept
  <2>1. q \in Intents /\ attempt \in [Intents -> Attempts]
    BY DEF IInv, TypeOK
  <2>2. CASE q # pi \/ attempt[q].status # "NONE"
    BY <1>3, <2>1, <2>2 DEF Bind
  <2>3. CASE q = pi /\ attempt[q].status = "NONE"
    <3>1. attempt'[pi].status = "PENDING" /\ ~attempt'[pi].refundId
      BY <1>3, <2>1, <2>3 DEF Bind
    <3> QED
      BY <3>1, <2>3 DEF Owed
  <2> QED
    BY <2>2, <2>3
<1>4. CASE ConfirmDuplicate
  BY <1>1, <1>2, <1>4 DEF ConfirmDuplicate
<1>5. ASSUME ConfirmExpired \/ ConfirmPaid PROVE Goal /\ Kept
  <2>1. tx \in OpenTx /\ charge[tx.event] # NoCharge
    BY <1>5 DEF ConfirmExpired, ConfirmPaid, Commit, RowFree, IInv, Decision
  <2>2. PICK q \in Intents : q = charge[tx.event].paymentIntentId
    BY <2>1 DEF IInv, TypeOK, OpenTx, Charges
  <2>3. CASE pi # q
    <3>1. attempt'[pi] = PreservedAttempt[pi]
      BY <1>5, <2>2, <2>3 DEF ConfirmExpired, ConfirmPaid, PreservedAttempt
    <3> QED
      BY <3>1, <1>2, <1>5 DEF NoRefund
  <2>4. CASE pi = q
    <3>1. /\ attempt'[pi].refundId = PreservedAttempt[pi].refundId
          /\ ConfirmExpired => attempt'[pi].status = "REFUND_PENDING" /\ attempt[pi].status # "PAID"
          /\ ConfirmPaid => attempt'[pi].status = "PAID" /\ attempt[pi].status \in {"NONE", "PENDING"}
      BY <1>5, <2>1, <2>2, <2>4, PreservedPending
         DEF ConfirmExpired, ConfirmPaid, Commit, RowFree, IInv, Decision, Attempts
    <3>2. Goal
      BY <3>1, <1>5 DEF Owed
    <3>3. PreservedAttempt[pi].refundId => attempt[pi].refundId
      BY PreservedPending
    <3> QED
      BY <3>1, <3>2, <3>3
  <2> QED
    BY <2>3, <2>4
<1>6. ASSUME NEW q \in intents, MarkRefund(q) PROVE Goal
  BY <1>6 DEF MarkRefund, PendingRefund, IInv, TypeOK, Attempts, Owed
<1>7. RecordRefund => Goal
  BY <1>6 DEF RecordRefund
<1>8. NoRefund => Goal /\ Kept
  BY <1>1, <1>2, <1>3, <1>4, <1>5
     DEF NoRefund, Tick, Reserve, CreateIntent, Charge, ConfirmOpen, ConfirmAbort, vars, rows
<1> QED
  BY <1>7, <1>8

(* What an event reports, and that it was processed, stays.                *)
LEMMA EventsStay ==
    ASSUME IInv, NoRefund \/ RecordRefund
    PROVE  /\ \A e \in Events : charge[e] # NoCharge => charge'[e] = charge[e]
           /\ processed \subseteq processed'
<1>1. ASSUME NEW e \in Events, NEW pi \in intents, NEW x \in BOOLEAN, Charge(e, pi, x)
      PROVE  /\ \A f \in Events : charge[f] # NoCharge => charge'[f] = charge[f]
             /\ processed' = processed
  BY <1>1 DEF Charge, IInv, TypeOK, rows
<1> QED
  BY <1>1 DEF NoRefund, RecordRefund, Tick, Reserve, CreateIntent, Bind, ConfirmOpen, ConfirmAbort,
       ConfirmDuplicate, ConfirmExpired, ConfirmPaid, Commit, MarkRefund, vars, rows, stripe

-----------------------------------------------------------------------------
(* What a step of the handlers is to the rows.                             *)

Acts(h) == Work(h) \/ Trouble(h)

(* Only a handler that is about to record a refund records one.            *)
Recording(h) == At(h, "mark") /\ MarkRefund(PaymentOf(h))

(* Every step is one of the rows' own, or that record.                     *)
LEMMA RowsStep ==
    ASSUME HInv, HookNext \/ UNCHANGED allVars
    PROVE  NoRefund \/ \E h \in Handlers : Recording(h)
<1>1. CASE Buyers
  BY <1>1 DEF Buyers, NoRefund
<1>2. ASSUME NEW h \in Handlers, Acts(h) PROVE NoRefund \/ Recording(h)
  BY <1>2 DEF Acts, Work, Trouble, Check, HookOpen, HookPaid, HookLate, HookRejected, Find, Refund,
       Mark, Release, CommitAnswerLost, HookRollback, RefundAnswerLost, MarkAnswerLost, CallFails,
       ReleaseFails, Crash, NoRefund, Recording, HInv, Serving, At
<1> QED
  BY <1>1, <1>2 DEF HookNext, Acts, Deliver, LeaseExpires, allVars, NoRefund

(* What a busy handler serves exists.                                      *)
LEMMA ServedIntent ==
    ASSUME HInv, NEW h \in Handlers, ~At(h, "idle")
    PROVE  /\ EventOf(h) \in Events
           /\ charge[EventOf(h)] # NoCharge
           /\ PaymentOf(h) \in intents
           /\ PaymentOf(h) \in Intents
BY DEF HInv, Serving, IInv, TypeOK, Known, PaymentOf

(* So a step of the handlers is a step of the rows, or none.               *)
LEMMA RowsRefined ==
    ASSUME HInv, HookNext \/ UNCHANGED allVars
    PROVE  /\ NoRefund \/ RecordRefund
           /\ [Next]_vars
<1>1. NoRefund \/ RecordRefund
  BY RowsStep, ServedIntent DEF Recording, RecordRefund, At
<1> QED
  BY <1>1 DEF NoRefund, RecordRefund, Next

(* The same, for what a handler has been told.                             *)
LEMMA FactsStay ==
    ASSUME HInv, HookNext \/ UNCHANGED allVars
    PROVE  /\ processed \subseteq processed'
           /\ refunded \subseteq refunded'
           /\ acked \subseteq acked'
           /\ \A e \in Events : charge[e] # NoCharge => charge'[e] = charge[e]
           /\ \A e \in Events : charge[e] # NoCharge /\ Settles(e) => Settles(e)'
<1>1. /\ processed \subseteq processed'
      /\ \A e \in Events : charge[e] # NoCharge => charge'[e] = charge[e]
  BY RowsRefined, EventsStay DEF HInv
<1>2. refunded \subseteq refunded' /\ acked \subseteq acked'
  BY DEF HookNext, Buyers, Deliver, LeaseExpires, allVars, hookVars, Work, Trouble, Check, HookOpen,
       HookPaid, HookLate, HookRejected, Find, Refund, Mark, Release, CommitAnswerLost, HookRollback,
       RefundAnswerLost, MarkAnswerLost, CallFails, ReleaseFails, Crash, RefundSettled
<1>3. ASSUME NEW e \in Events, charge[e] # NoCharge, Settles(e) PROVE Settles(e)'
  <2>1. charge[e].paymentIntentId \in Intents
    BY <1>3 DEF HInv, IInv, TypeOK, Charges
  <2>2. attempt[charge[e].paymentIntentId].status = "PAID"
          => attempt'[charge[e].paymentIntentId].status = "PAID"
    BY <2>1, RowsRefined, DecidedStays DEF HInv
  <2> QED
    BY <2>2, <1>1, <1>2, <1>3 DEF Settles
<1> QED
  BY <1>1, <1>2, <1>3

-----------------------------------------------------------------------------
(* What a step of a handler does to its control state.                     *)

(* Control states have their type.                                         *)
LEMMA HookShape ==
    ASSUME HInv, NEW h \in Handlers
    PROVE  /\ hook \in [Handlers -> Hooks]
           /\ hook[h] \in Hooks
BY DEF HInv, HookTypeOK

(* One handler moves at a time.                                            *)
LEMMA OthersWait ==
    ASSUME HInv, NEW h \in Handlers, Acts(h)
    PROVE  /\ hook' \in [Handlers -> Hooks]
           /\ \A g \in Handlers : g # h => hook'[g] = hook[g]
<1>1. \E w \in Hooks : hook' = [hook EXCEPT ![h] = w]
  <2>1. CASE hook' = [hook EXCEPT ![h] = Idle]
    BY <2>1 DEF Hooks, Steps, Idle
  <2>2. ASSUME NEW step \in Steps, Goto(h, step) PROVE \E w \in Hooks : hook' = [hook EXCEPT ![h] = w]
    <3>1. [hook[h] EXCEPT !.step = step] \in Hooks
      BY HookShape DEF Hooks
    <3> QED
      BY <3>1, <2>2 DEF Goto
  <2>3. ASSUME NEW result \in {"ok", "error"}, Leave(h, result)
        PROVE  \E w \in Hooks : hook' = [hook EXCEPT ![h] = w]
    <3>1. [hook[h] EXCEPT !.step = "release", !.result = result] \in Hooks
      BY HookShape DEF Hooks, Steps
    <3> QED
      BY <3>1, <2>3 DEF Leave
  <2>4. CASE Check(h)
    <3>1. [hook[h] EXCEPT !.step = AfterMarker, !.replay = TRUE] \in Hooks
      BY HookShape DEF Hooks, Steps, AfterMarker
    <3>2. [hook[h] EXCEPT !.step = "confirm"] \in Hooks
      BY HookShape DEF Hooks, Steps
    <3> QED
      BY <3>1, <3>2, <2>4 DEF Check
  <2>5. /\ {"commit", "find", "mark", AfterFind} \subseteq Steps
        /\ {"ok", "error"} = {"error", "ok"}
    BY DEF Steps, AfterFind
  <2> QED
    BY <2>1, <2>2, <2>3, <2>4, <2>5
       DEF Acts, Work, Trouble, HookOpen, HookPaid, HookLate, HookRejected, Find, Refund, Mark, Release,
           CommitAnswerLost, HookRollback, RefundAnswerLost, MarkAnswerLost, CallFails, ReleaseFails,
           Crash, RefundSettled
<1> QED
  BY <1>1, HookShape

(* Whether its payment is kept or returned, when nothing is pending.       *)
LEMMA NothingPending ==
    ASSUME HInv, NEW h \in Handlers, ~At(h, "idle"), EventOf(h) \in processed,
           ~PendingRefund(PaymentOf(h))
    PROVE  Settles(EventOf(h))
<1>1. PaymentOf(h) \in Intents
  BY ServedIntent
<1>2. attempt[PaymentOf(h)].status \in Decided
  BY DEF HInv, MarkerMeansDecision, PaymentOf, Decided, Owed
<1>3. attempt[PaymentOf(h)].status # "PAID" => attempt[PaymentOf(h)].refundId
  BY <1>1, <1>2 DEF PendingRefund, HInv, IInv, AttemptShape, Decided, Owed
<1> QED
  BY <1>1, <1>3 DEF HInv, RefundRecordTrue, Settles, PaymentOf

(* A sale settles its event.                                               *)
LEMMA PaidSettles ==
    ASSUME HInv, NEW h \in Handlers, At(h, "commit"), ConfirmPaid,
           NEW e \in Events, e = EventOf(h)
    PROVE  Settles(e)'
<1>1. charge[e] # NoCharge /\ tx.event = e /\ charge' = charge
  BY ServedIntent DEF HInv, LockOwner, At, ConfirmPaid, Commit, stripe
<1>2. charge[e].paymentIntentId \in Intents
  BY <1>1 DEF HInv, IInv, TypeOK, Charges
<1>3. PreservedAttempt \in [Intents -> Attempts]
  BY PreservedPending DEF HInv
<1>4. attempt'[charge[e].paymentIntentId].status = "PAID"
  BY <1>1, <1>2, <1>3 DEF ConfirmPaid, Attempts
<1> QED
  BY <1>1, <1>4 DEF Settles

(* The table of a handler's moves: where it goes, and what then holds.     *)
LEMMA Moves ==
    ASSUME HInv, NEW h \in Handlers, Acts(h), NEW e \in Events, e = EventOf(h), ~At(h, "idle"),
           NEW w, w = hook'[h]
    PROVE  \/ w = Idle
           \/ /\ w.event = e
              /\ \/ /\ w.step = "confirm"
                    /\ w.result = hook[h].result /\ ~At(h, "release")
                 \/ /\ w.step = "commit" /\ \E t \in ReplicaClock : ConfirmOpen(e, t)
                    /\ w.result = hook[h].result /\ ~At(h, "release")
                 \/ /\ w.step = "find" /\ e \in processed'
                    /\ w.result = hook[h].result /\ ~At(h, "release")
                 \/ /\ w.step = "refund" /\ e \in processed /\ PendingRefund(PaymentOf(h))
                    /\ UNCHANGED vars
                    /\ w.result = hook[h].result /\ ~At(h, "release")
                 \/ /\ w.step = "mark" /\ e \in processed /\ At(h, "refund")
                    /\ PaymentOf(h) \in refunded' /\ UNCHANGED vars
                    /\ w.result = hook[h].result /\ ~At(h, "release")
                 \/ w.step = "release" /\ w.result = "error"
                 \/ w.step = "release" /\ w.result = "ok" /\ e \in processed' /\ Settles(e)'
<1> DEFINE Same == w.event = e /\ w.result = hook[h].result
<1>1. hook[h] \in Hooks /\ hook \in [Handlers -> Hooks]
  BY HookShape
<1>2. ASSUME NEW step, Goto(h, step) PROVE Same /\ w.step = step
  BY <1>1, <1>2 DEF Goto, Hooks, EventOf
<1>3. ASSUME NEW result, Leave(h, result)
      PROVE  w.event = e /\ w.step = "release" /\ w.result = result
  BY <1>1, <1>3 DEF Leave, Hooks, EventOf
<1>4. tx # NoTx /\ At(h, "commit") => tx.event = e
  BY DEF HInv, LockOwner
<1>5. CASE Check(h)
  <2>1. At(h, "check") /\ processed' = processed
    BY <1>5 DEF Check, vars, rows
  <2>2. CASE e \in processed
    BY <1>1, <1>5, <2>1, <2>2 DEF Check, Hooks, AfterMarker, EventOf, At
  <2>3. CASE e \notin processed
    BY <1>1, <1>5, <2>1, <2>3 DEF Check, Hooks, EventOf, At
  <2> QED
    BY <2>2, <2>3
<1>6. ASSUME NEW t \in ReplicaClock, HookOpen(h, t)
      PROVE  /\ Same /\ w.step = "commit" /\ ~At(h, "release")
             /\ \E u \in ReplicaClock : ConfirmOpen(e, u)
  BY <1>2, <1>6 DEF HookOpen, At
<1>7. CASE HookPaid(h)
  <2>1. e \in processed'
    BY <1>4, <1>7 DEF HookPaid, ConfirmPaid, Commit, RowFree
  <2>2. Settles(e)'
    BY <1>7, PaidSettles DEF HookPaid
  <2> QED
    BY <2>1, <2>2, <1>3, <1>7 DEF HookPaid
<1>8. CASE HookLate(h)
  <2>1. e \in processed'
    BY <1>4, <1>8 DEF HookLate, ConfirmExpired, ConfirmDuplicate, Commit, RowFree
  <2> QED
    BY <2>1, <1>2, <1>8 DEF HookLate, At
<1>9. CASE Find(h)
  <2>1. e \in processed /\ At(h, "find") /\ UNCHANGED <<vars, refunded>>
    BY <1>9 DEF Find, HInv, Promises
  <2>2. CASE PendingRefund(PaymentOf(h))
    BY <1>2, <1>9, <2>1, <2>2 DEF Find, AfterFind, At
  <2>3. CASE ~PendingRefund(PaymentOf(h))
    <3>1. Settles(e)
      BY <2>1, <2>3, NothingPending
    <3>2. Settles(e)'
      BY <3>1, <2>1 DEF Settles, vars, rows, stripe
    <3> QED
      BY <1>3, <1>9, <2>1, <2>3, <3>2 DEF Find, RefundSettled, vars, rows
  <2> QED
    BY <2>2, <2>3
<1>10. CASE Refund(h)
  BY <1>2, <1>10 DEF Refund, RefundTarget, HInv, Promises, At
<1>11. CASE Mark(h)
  <2>1. e \in processed /\ PaymentOf(h) \in refunded /\ UNCHANGED <<charge, processed, refunded>>
    BY <1>11 DEF Mark, MarkRefund, stripe, HInv, Promises
  <2>2. Settles(e)'
    BY <2>1 DEF Settles, PaymentOf
  <2> QED
    BY <1>3, <1>11, <2>1, <2>2 DEF Mark, RefundSettled
<1>12. CASE HookRejected(h) \/ Trouble(h)
  BY <1>1, <1>3, <1>12 DEF HookRejected, Trouble, CommitAnswerLost, HookRollback, RefundAnswerLost,
     MarkAnswerLost, CallFails, ReleaseFails, Crash
<1>13. CASE Release(h)
  BY <1>1, <1>13 DEF Release
<1> QED
  BY <1>5, <1>6, <1>7, <1>8, <1>9, <1>10, <1>11, <1>12, <1>13 DEF Acts, Work

(* Who else moves: a delivery wakes an idle handler, nothing else does.    *)
LEMMA Wakes ==
    ASSUME HInv, NEW h \in Handlers, NEW e \in Events, Deliver(h, e)
    PROVE  /\ hook' \in [Handlers -> Hooks]
           /\ hook'[h].step = "check" /\ hook'[h].event = e /\ hook'[h].result = "error"
           /\ \A g \in Handlers : g # h => hook'[g] = hook[g]
           /\ charge[e] # NoCharge
           /\ UNCHANGED <<charge, tx, attempt, processed, refunded, acked>>
BY HookShape DEF Deliver, Hooks, Steps, Idle, vars, rows, stripe

(* Only busy handlers move.                                                *)
LEMMA Acting ==
    ASSUME NEW h \in Handlers, Acts(h) PROVE ~At(h, "idle")
BY DEF Acts, Work, Trouble, Check, HookOpen, HookPaid, HookLate, HookRejected, Find, Refund, Mark,
   Release, CommitAnswerLost, HookRollback, RefundAnswerLost, MarkAnswerLost, CallFails, ReleaseFails,
   Crash, At

-----------------------------------------------------------------------------
(* Each part of the invariant is kept.  A step is a delivery, a step of a  *)
(* handler, or leaves every handler where it is.                           *)
Waiting == hook' = hook /\ UNCHANGED <<refunded, acked, tx>>

LEMMA StepKinds ==
    ASSUME HookNext \/ UNCHANGED allVars
    PROVE  \/ \E h \in Handlers, e \in Events : Deliver(h, e)
           \/ \E h \in Handlers : Acts(h)
           \/ Waiting
BY DEF HookNext, Acts, Buyers, Tick, Reserve, CreateIntent, Bind, Charge, LeaseExpires, Waiting, allVars,
   hookVars, vars

(* A served event stays sent.                                              *)
LEMMA ServingKept ==
    ASSUME HInv, HookNext \/ UNCHANGED allVars PROVE Serving'
<1> SUFFICES ASSUME NEW g \in Handlers, ~At(g, "idle")'
             PROVE  EventOf(g)' \in Events /\ charge'[EventOf(g)'] # NoCharge
  BY DEF Serving
<1>1. CASE hook'[g] = hook[g]
  BY <1>1, ServedIntent, FactsStay DEF At, EventOf
<1>2. ASSUME NEW h \in Handlers, NEW e \in Events, Deliver(h, e), hook'[g] # hook[g]
      PROVE  EventOf(g)' \in Events /\ charge'[EventOf(g)'] # NoCharge
  BY <1>2, Wakes DEF EventOf
<1>3. ASSUME NEW h \in Handlers, Acts(h), hook'[g] # hook[g]
      PROVE  EventOf(g)' \in Events /\ charge'[EventOf(g)'] # NoCharge
  <2>1. g = h /\ ~At(h, "idle")
    BY <1>3, OthersWait, Acting
  <2>2. PICK e \in Events : e = EventOf(h) /\ charge[e] # NoCharge /\ charge'[e] = charge[e]
    BY <2>1, ServedIntent, FactsStay
  <2>3. hook'[g] # Idle
    BY DEF At, Idle
  <2>4. hook'[g].event = e
    BY <1>3, <2>1, <2>2, <2>3, Moves
  <2> QED
    BY <2>2, <2>4 DEF EventOf
<1> QED
  BY <1>1, <1>2, <1>3, StepKinds DEF Waiting

(* The row lock passes from a handler to nobody, and from nobody to one.   *)
LEMMA LockOwnerKept ==
    ASSUME HInv, HookNext \/ UNCHANGED allVars PROVE LockOwner'
<1>1. ASSUME NEW h \in Handlers, NEW e \in Events, Deliver(h, e) PROVE LockOwner'
  BY <1>1, Wakes DEF HInv, LockOwner, At, EventOf
<1>2. ASSUME NEW h \in Handlers, Acts(h), At(h, "commit") PROVE LockOwner'
  <2>1. \A g \in Handlers : ~At(g, "commit")'
    <3> SUFFICES ASSUME NEW g \in Handlers, At(g, "commit")' PROVE FALSE
      OBVIOUS
    <3>1. g = h
      BY <1>2, OthersWait DEF HInv, LockOwner, At
    <3>2. PICK e \in Events : e = EventOf(h)
      BY <1>2, ServedIntent DEF At
    <3>3. \E t \in ReplicaClock : ConfirmOpen(e, t)
      BY <1>2, <3>1, <3>2, Moves DEF At, Idle
    <3> QED
      BY <1>2, <3>3 DEF ConfirmOpen, RowFree, HInv, LockOwner
  <2> QED
    BY <2>1 DEF LockOwner
<1>3. ASSUME NEW h \in Handlers, NEW t \in ReplicaClock, HookOpen(h, t) PROVE LockOwner'
  <2>1. /\ \A g \in Handlers : ~At(g, "commit")
        /\ tx' # NoTx /\ tx'.event = EventOf(h)
    <3>1. EventOf(h) # NoEvent
      BY <1>3, ServedIntent, NullAssumption DEF HookOpen, At
    <3> QED
      BY <1>3, <3>1 DEF HookOpen, ConfirmOpen, RowFree, NoTx, HInv, LockOwner
  <2>2. \A g \in Handlers : g # h => hook'[g] = hook[g]
    BY <1>3, OthersWait DEF Acts, Work
  <2>3. hook'[h].event = hook[h].event
    BY <1>3, HookShape DEF HookOpen, Goto, Hooks
  <2> QED
    BY <2>1, <2>2, <2>3 DEF LockOwner, At, EventOf
<1>4. ASSUME NEW h \in Handlers, Acts(h), ~At(h, "commit"),
             \A t \in ReplicaClock : ~HookOpen(h, t)
      PROVE  LockOwner'
  <2>1. UNCHANGED tx
    BY <1>4 DEF Acts, Work, Trouble, Check, HookPaid, HookLate, HookRejected, Find, Refund, Mark, Release,
       CommitAnswerLost, HookRollback, RefundAnswerLost, MarkAnswerLost, CallFails, ReleaseFails, Crash,
       vars, MarkRefund
  <2>2. ~At(h, "commit")'
    <3>1. PICK e \in Events : e = EventOf(h)
      BY <1>4, ServedIntent, Acting
    <3>2. \A t \in ReplicaClock : ~ConfirmOpen(e, t)
      BY <2>1, <3>1, NullAssumption DEF ConfirmOpen, RowFree, NoTx
    <3> QED
      BY <1>4, <3>1, <3>2, Moves, Acting DEF At, Idle
  <2> QED
    BY <1>4, <2>1, <2>2, OthersWait DEF HInv, LockOwner, At, EventOf
<1>5. CASE Waiting
  BY <1>5 DEF HInv, LockOwner, At, EventOf, Waiting
<1> QED
  BY <1>1, <1>2, <1>3, <1>4, <1>5, StepKinds

(* Types, with the sets that only grow.                                    *)
LEMMA HookTypeKept ==
    ASSUME HInv, HookNext \/ UNCHANGED allVars PROVE HookTypeOK'
<1>1. hook' \in [Handlers -> Hooks]
  BY HookShape, OthersWait, Wakes, StepKinds DEF HInv, HookTypeOK, Waiting
<1>2. lease' \in [Events -> Handlers \cup {NoHandler}]
  <2>1. CASE lease' = lease
    BY <2>1 DEF HInv, HookTypeOK
  <2>2. ASSUME NEW e \in Events, NEW x \in Handlers \cup {NoHandler}, lease' = [lease EXCEPT ![e] = x]
        PROVE  lease' \in [Events -> Handlers \cup {NoHandler}]
    BY <2>2 DEF HInv, HookTypeOK
  <2>3. \A h \in Handlers : Release(h) => EventOf(h) \in Events
    BY ServedIntent DEF Release, At
  <2> QED
    BY <2>1, <2>2, <2>3 DEF HookNext, Buyers, Deliver, LeaseExpires, allVars, hookVars, Work, Trouble,
       Check, HookOpen, HookPaid, HookLate, HookRejected, Find, Refund, Mark, Release, CommitAnswerLost,
       HookRollback, RefundAnswerLost, MarkAnswerLost, CallFails, ReleaseFails, Crash
<1>3. /\ refunded' = refunded \/ \E h \in Handlers : At(h, "refund") /\ refunded' = refunded \cup {PaymentOf(h)}
      /\ acked' = acked \/ \E h \in Handlers : ~At(h, "idle") /\ acked' = acked \cup {EventOf(h)}
  BY DEF HookNext, Buyers, Deliver, LeaseExpires, allVars, hookVars, Work, Trouble, Check, HookOpen,
     HookPaid, HookLate, HookRejected, Find, Refund, Mark, Release, CommitAnswerLost, HookRollback,
     RefundAnswerLost, MarkAnswerLost, CallFails, ReleaseFails, Crash, RefundSettled, RefundTarget, At
<1>4. refunded' \subseteq Intents /\ acked' \subseteq Events
  BY <1>3, ServedIntent DEF HInv, HookTypeOK, At
<1> QED
  BY <1>1, <1>2, <1>4 DEF HookTypeOK

(* What a step may add to the processed events: that of the open           *)
(* confirmation, when it commits.                                          *)
LEMMA Marking ==
    ASSUME HInv, NoRefund \/ RecordRefund, NEW e \in processed', e \notin processed
    PROVE  e = tx.event /\ (ConfirmPaid \/ ConfirmExpired \/ ConfirmDuplicate)
BY DEF NoRefund, RecordRefund, Tick, Reserve, CreateIntent, Bind, Charge, ConfirmOpen, ConfirmAbort,
   ConfirmPaid, ConfirmExpired, ConfirmDuplicate, Commit, MarkRefund, vars, rows

(* What an open confirmation decided stays true of its payment.            *)
LEMMA OpenDecisionKept ==
    ASSUME HInv, HookNext \/ UNCHANGED allVars PROVE OpenDecision'
<1>1. NoRefund \/ RecordRefund
  BY RowsRefined
<1>2. ASSUME tx' # NoTx, tx' # tx PROVE OpenDecision'
  <2>1. PICK e \in Events, t \in ReplicaClock : ConfirmOpen(e, t)
    BY <1>1, <1>2 DEF NoRefund, RecordRefund, Tick, Reserve, CreateIntent, Bind, Charge, ConfirmAbort,
       ConfirmPaid, ConfirmExpired, ConfirmDuplicate, Commit, MarkRefund, vars
  <2>2. /\ tx'.event = e /\ tx'.outcome = Outcome(e, t)
        /\ UNCHANGED <<charge, attempt, processed>> /\ charge[e] # NoCharge
    BY <2>1 DEF ConfirmOpen, rows, stripe
  <2>3. PICK pi \in Intents : pi = charge[e].paymentIntentId
    BY <2>2 DEF HInv, IInv, TypeOK, Charges
  <2>4. Outcome(e, t) # "rejected" => charge[e].exact
    BY DEF Outcome, HInv, MarkedExact
  <2>5. Outcome(e, t) = "duplicate" => attempt[pi].status \in Decided
    <3>1. CASE e \in processed
      BY <3>1, <2>3 DEF HInv, MarkerMeansDecision, Decided, Owed
    <3>2. CASE e \notin processed
      <4>1. Outcome(e, t) = "duplicate" => PreservedAttempt[pi].status \in Settled
        BY <3>2, <2>3 DEF Outcome
      <4>2. PreservedAttempt[pi].status \in Settled => attempt[pi].status \in Settled
        BY PreservedPending DEF HInv, Settled
      <4> QED
        BY <4>1, <4>2 DEF Settled, Decided, Owed
    <3> QED
      BY <3>1, <3>2
  <2> QED
    BY <2>2, <2>3, <2>4, <2>5 DEF OpenDecision
<1>3. ASSUME tx' # NoTx, tx' = tx PROVE OpenDecision'
  <2>1. PICK e \in Events : e = tx.event /\ charge[e] # NoCharge /\ charge'[e] = charge[e]
    BY <1>3, FactsStay DEF HInv, OpenDecision
  <2>2. PICK pi \in Intents : pi = charge[e].paymentIntentId
    BY <2>1 DEF HInv, IInv, TypeOK, Charges
  <2>3. attempt[pi].status \in Decided => attempt'[pi].status \in Decided
    BY <1>1, DecidedStays DEF HInv, Decided
  <2> QED
    BY <1>3, <2>1, <2>2, <2>3 DEF HInv, OpenDecision
<1> QED
  BY <1>2, <1>3 DEF OpenDecision

(* A marker is committed with an exact, decided payment.                   *)
LEMMA MarkerKept ==
    ASSUME HInv, HookNext \/ UNCHANGED allVars PROVE MarkerMeansDecision' /\ MarkedExact'
<1>1. NoRefund \/ RecordRefund
  BY RowsRefined
<1> SUFFICES ASSUME NEW e \in processed'
             PROVE  /\ charge'[e] # NoCharge /\ charge'[e].exact
                    /\ attempt'[charge'[e].paymentIntentId].status \in Decided
  BY DEF MarkerMeansDecision, MarkedExact, Decided, Owed
<1>2. CASE e \in processed
  <2>1. e \in Events /\ charge[e] # NoCharge /\ charge[e].exact /\ charge'[e] = charge[e]
    BY <1>2, FactsStay DEF HInv, MarkedExact, IInv, TypeOK
  <2>2. PICK pi \in Intents : pi = charge[e].paymentIntentId
    BY <2>1 DEF HInv, IInv, TypeOK, Charges
  <2>3. attempt[pi].status \in Decided
    BY <1>2, <2>2 DEF HInv, MarkerMeansDecision, Decided, Owed
  <2> QED
    BY <1>1, <2>1, <2>2, <2>3, DecidedStays DEF HInv, Decided
<1>3. CASE e \notin processed
  <2>1. e = tx.event /\ (ConfirmPaid \/ ConfirmExpired \/ ConfirmDuplicate)
    BY <1>1, <1>3, Marking
  <2>2. tx # NoTx /\ tx.outcome \in {"paid", "expired", "duplicate"} /\ charge' = charge
    BY <2>1 DEF ConfirmPaid, ConfirmExpired, ConfirmDuplicate, Commit, RowFree, stripe
  <2>3. e \in Events /\ charge[e] # NoCharge /\ charge[e].exact
    BY <2>1, <2>2 DEF HInv, OpenDecision
  <2>4. PICK pi \in Intents : pi = charge[e].paymentIntentId
    BY <2>3 DEF HInv, IInv, TypeOK, Charges
  <2>5. attempt'[pi].status \in Decided
    <3>1. CASE ConfirmDuplicate
      <4>1. attempt[pi].status \in Decided
        BY <3>1, <2>1, <2>2, <2>4 DEF ConfirmDuplicate, Commit, HInv, OpenDecision
      <4> QED
        BY <4>1, <1>1, DecidedStays DEF HInv, Decided
    <3>2. CASE ConfirmPaid \/ ConfirmExpired
      BY <3>2, <2>1, <2>4, PreservedPending DEF ConfirmPaid, ConfirmExpired, HInv, Attempts, Decided, Owed
    <3> QED
      BY <2>1, <3>1, <3>2
  <2> QED
    BY <2>2, <2>3, <2>4, <2>5
<1> QED
  BY <1>2, <1>3

(* A refund is made only at step "refund", for that handler's payment.     *)
LEMMA Refunding ==
    ASSUME HInv, HookNext \/ UNCHANGED allVars, NEW pi \in refunded', pi \notin refunded
    PROVE  \E h \in Handlers : At(h, "refund") /\ pi = PaymentOf(h)
BY DEF HookNext, Buyers, Deliver, LeaseExpires, allVars, hookVars, Work, Trouble, Check, HookOpen,
   HookPaid, HookLate, HookRejected, Find, Refund, Mark, Release, CommitAnswerLost, HookRollback,
   RefundAnswerLost, MarkAnswerLost, CallFails, ReleaseFails, Crash, RefundTarget

(* A busy handler's payment stays what it is until the handler is done.    *)
LEMMA PaymentStays ==
    ASSUME HInv, HookNext \/ UNCHANGED allVars, NEW g \in Handlers, ~At(g, "idle"),
           hook'[g].event = hook[g].event
    PROVE  PaymentOf(g)' = PaymentOf(g)
BY ServedIntent, FactsStay DEF PaymentOf, EventOf

(* A refund under way or made is of a payment that is owed for good.       *)
LEMMA RefundsOwedKept ==
    ASSUME HInv, HookNext \/ UNCHANGED allVars PROVE RefundsOwed'
<1>1. \A pi \in Intents : attempt[pi].status \in Owed => attempt'[pi].status \in Owed
  BY RowsRefined, DecidedStays DEF HInv
<1>2. \A pi \in refunded' : attempt'[pi].status \in Owed
  <2> SUFFICES ASSUME NEW pi \in refunded' PROVE attempt'[pi].status \in Owed
    OBVIOUS
  <2>1. CASE pi \in refunded
    BY <2>1, <1>1 DEF HInv, HookTypeOK, RefundsOwed
  <2>2. CASE pi \notin refunded
    BY <2>2, <1>1, Refunding, ServedIntent DEF HInv, RefundsOwed, At
  <2> QED
    BY <2>1, <2>2
<1>3. ASSUME NEW g \in Handlers, At(g, "refund")' \/ At(g, "mark")'
      PROVE  attempt'[PaymentOf(g)'].status \in Owed
  <2>1. CASE hook'[g] = hook[g]
    <3>1. At(g, "refund") \/ At(g, "mark")
      BY <1>3, <2>1 DEF At
    <3>2. PaymentOf(g)' = PaymentOf(g) /\ PaymentOf(g) \in Intents
      BY <2>1, <3>1, PaymentStays, ServedIntent DEF At
    <3> QED
      BY <1>1, <3>1, <3>2 DEF HInv, RefundsOwed
  <2>2. ASSUME NEW h \in Handlers, Acts(h), hook'[g] # hook[g]
        PROVE  attempt'[PaymentOf(g)'].status \in Owed
    <3>1. g = h /\ ~At(g, "idle")
      BY <2>2, OthersWait, Acting
    <3>2. PICK e \in Events : e = EventOf(g)
      BY <3>1, ServedIntent
    <3>3. hook'[g].event = e /\ (PendingRefund(PaymentOf(g)) \/ At(g, "refund"))
      BY <1>3, <2>2, <3>1, <3>2, Moves DEF At, Idle
    <3>4. PaymentOf(g)' = PaymentOf(g) /\ PaymentOf(g) \in Intents
      BY <3>1, <3>2, <3>3, PaymentStays, ServedIntent DEF EventOf
    <3>5. attempt[PaymentOf(g)].status \in Owed
      BY <3>3 DEF PendingRefund, Owed, HInv, RefundsOwed
    <3> QED
      BY <1>1, <3>4, <3>5
  <2>3. ASSUME NEW h \in Handlers, NEW e \in Events, Deliver(h, e) PROVE hook'[g] = hook[g]
    BY <1>3, <2>3, Wakes DEF At
  <2> QED
    BY <2>1, <2>2, <2>3, StepKinds DEF Waiting
<1> QED
  BY <1>2, <1>3 DEF RefundsOwed

(* A refund is recorded only by a handler that made it.                    *)
LEMMA RecordKept ==
    ASSUME HInv, HookNext \/ UNCHANGED allVars PROVE RefundRecordTrue'
<1> SUFFICES ASSUME NEW pi \in Intents, attempt'[pi].refundId PROVE pi \in refunded'
  BY DEF RefundRecordTrue
<1>1. CASE attempt[pi].refundId
  BY <1>1, FactsStay DEF HInv, RefundRecordTrue
<1>2. CASE ~attempt[pi].refundId
  <2>1. ~NoRefund
    BY <1>2, DecidedStays DEF HInv
  <2>2. PICK h \in Handlers : At(h, "mark") /\ MarkRefund(PaymentOf(h))
    BY <2>1, RowsStep DEF Recording
  <2>3. pi = PaymentOf(h)
    BY <1>2, <2>2, ServedIntent DEF MarkRefund, HInv, IInv, TypeOK, Attempts, At
  <2> QED
    BY <2>2, <2>3, FactsStay DEF HInv, Promises
<1> QED
  BY <1>1, <1>2

(* What each control state relies on, while others move and when it moves. *)
LEMMA PromisesKept ==
    ASSUME HInv, HookNext \/ UNCHANGED allVars PROVE Promises'
<1> SUFFICES ASSUME NEW g \in Handlers
             PROVE  /\ At(g, "find")' \/ At(g, "refund")' \/ At(g, "mark")' => EventOf(g)' \in processed'
                    /\ At(g, "mark")' => PaymentOf(g)' \in refunded'
                    /\ hook'[g].result = "ok" =>
                          At(g, "release")' /\ EventOf(g)' \in processed' /\ Settles(EventOf(g))'
  BY DEF Promises
<1>1. CASE hook'[g] = hook[g] /\ At(g, "idle")
  BY <1>1 DEF HInv, Promises, At
<1>2. CASE hook'[g] = hook[g] /\ ~At(g, "idle")
  <2>1. PICK e \in Events : e = EventOf(g) /\ charge[e] # NoCharge
    BY <1>2, ServedIntent
  <2>2. EventOf(g)' = e /\ PaymentOf(g)' = PaymentOf(g)
    BY <1>2, <2>1, PaymentStays DEF EventOf
  <2>3. Settles(e) => Settles(EventOf(g))'
    BY <2>1, <2>2, FactsStay DEF Settles
  <2> QED
    BY <1>2, <2>1, <2>2, <2>3, FactsStay DEF HInv, Promises, At
<1>3. ASSUME NEW h \in Handlers, NEW e \in Events, Deliver(h, e), hook'[g] # hook[g]
      PROVE  hook'[g].step = "check" /\ hook'[g].result = "error"
  BY <1>3, Wakes
<1>4. ASSUME NEW h \in Handlers, Acts(h), hook'[g] # hook[g], hook'[g] # Idle
      PROVE  /\ At(g, "find")' \/ At(g, "refund")' \/ At(g, "mark")' => EventOf(g)' \in processed'
             /\ At(g, "mark")' => PaymentOf(g)' \in refunded'
             /\ hook'[g].result = "ok" =>
                   At(g, "release")' /\ EventOf(g)' \in processed' /\ Settles(EventOf(g))'
  <2>1. g = h /\ ~At(g, "idle")
    BY <1>4, OthersWait, Acting
  <2>2. PICK e \in Events : e = EventOf(g) /\ charge[e] # NoCharge
    BY <2>1, ServedIntent
  <2>3. hook'[g].event = e
    BY <1>4, <2>1, <2>2, Moves
  <2>4. EventOf(g)' = e /\ PaymentOf(g)' = PaymentOf(g)
    BY <2>1, <2>2, <2>3, PaymentStays DEF EventOf
  <2>5. Settles(e)' => Settles(EventOf(g))'
    BY <2>4 DEF Settles
  <2>6. ~At(g, "release") => hook[g].result # "ok"
    BY DEF HInv, Promises
  <2>7. /\ At(g, "find")' \/ At(g, "refund")' \/ At(g, "mark")' => e \in processed'
        /\ At(g, "mark")' => PaymentOf(g) \in refunded'
        /\ hook'[g].result = "ok" => At(g, "release")' /\ e \in processed' /\ Settles(e)'
    BY <1>4, <2>1, <2>2, <2>6, Moves, FactsStay DEF At
  <2> QED
    BY <2>4, <2>5, <2>7
<1>5. CASE hook'[g] = Idle
  BY <1>5 DEF At, Idle
<1> QED
  BY <1>1, <1>2, <1>3, <1>4, <1>5, StepKinds DEF Waiting, At

(* A 200 goes out only for a settled event.                                *)
LEMMA AckedKept ==
    ASSUME HInv, HookNext \/ UNCHANGED allVars PROVE AckedProcessed'
<1> SUFFICES ASSUME NEW e \in acked' PROVE e \in processed' /\ Settles(e)'
  BY DEF AckedProcessed
<1>1. CASE e \in acked
  BY <1>1, FactsStay DEF HInv, AckedProcessed, MarkedExact, IInv, TypeOK
<1>2. CASE e \notin acked
  <2>1. PICK h \in Handlers :
          \/ Release(h) /\ AnswersOk(h) /\ e = EventOf(h)
          \/ (Find(h) \/ Mark(h)) /\ RefundSettled(h) /\ e = EventOf(h)
    <3>1. PICK h \in Handlers : Acts(h)
      BY <1>2 DEF HookNext, Acts, Buyers, Deliver, LeaseExpires, allVars, hookVars
    <3>2. Release(h) \/ Find(h) \/ Mark(h)
      BY <1>2, <3>1 DEF Acts, Work, Trouble, Check, HookOpen, HookPaid, HookLate, HookRejected, Refund,
         CommitAnswerLost, HookRollback, RefundAnswerLost, MarkAnswerLost, CallFails, ReleaseFails, Crash
    <3>3. acked' \subseteq acked \cup {EventOf(h)}
      BY <3>2 DEF Release, Find, Mark, RefundSettled
    <3>4. Release(h) => AnswersOk(h)
      BY <1>2 DEF Release
    <3>5. Find(h) \/ Mark(h) => RefundSettled(h)
      BY <1>2 DEF Find, Mark
    <3>6. e = EventOf(h)
      BY <1>2, <3>3
    <3> QED
      BY <3>2, <3>4, <3>5, <3>6
  <2>2. Acts(h) /\ ~At(h, "idle") /\ e \in Events /\ charge[e] # NoCharge
    BY <2>1, Acting, ServedIntent DEF Acts, Work
  <2>3. CASE Release(h) /\ AnswersOk(h)
    BY <2>1, <2>2, <2>3, FactsStay DEF HInv, Promises, AnswersOk
  <2>4. CASE (Find(h) \/ Mark(h)) /\ RefundSettled(h)
    <3>1. hook'[h].step = "release" /\ hook'[h].result = "ok"
      BY <2>4, HookShape DEF RefundSettled, Leave, Hooks
    <3> QED
      BY <2>1, <2>2, <3>1, Moves DEF Idle
  <2> QED
    BY <2>1, <2>3, <2>4
<1> QED
  BY <1>1, <1>2

-----------------------------------------------------------------------------
(* Theorems.                                                               *)

(* At first nothing is served, refunded or acknowledged.                   *)
LEMMA HookInitHolds == ASSUME HookInit PROVE HInv
<1>1. IInv
  BY InitHolds DEF HookInit
<1> QED
  BY <1>1, InitHolds DEF HookInit, Init, HInv, HookTypeOK, Hooks, Steps, Idle, Serving, LockOwner,
     OpenDecision, MarkerMeansDecision, MarkedExact, RefundsOwed, RefundRecordTrue, Promises,
     AckedProcessed, At, NoAttempt

(* HInv holds for ever: it holds at first and every step keeps it.        *)
THEOREM HookInvariance == HookSpec => []HInv
<1>1. HInv /\ [HookNext]_allVars => HInv'
  <2> SUFFICES ASSUME HInv, HookNext \/ UNCHANGED allVars PROVE HInv'
    OBVIOUS
  <2>1. IInv'
    BY RowsRefined, StepKeeps DEF HInv
  <2> QED
    BY <2>1, HookTypeKept, ServingKept, LockOwnerKept, OpenDecisionKept, MarkerKept, RefundsOwedKept,
       RecordKept, PromisesKept, AckedKept DEF HInv
<1>2. HookInit => HInv
  BY HookInitHolds
<1> QED
  BY <1>1, <1>2, PTL DEF HookSpec

(* The handlers do to the rows only what SeatInventory allows, so all that *)
(* is proved of the rows holds behind the webhook.                         *)
THEOREM HandlersKeepInventory == HookSpec => Spec
<1>1. HookInit => Init
  BY DEF HookInit
<1>2. HInv /\ [HookNext]_allVars => [Next]_vars
  BY RowsRefined
<1> QED
  BY <1>1, <1>2, HookInvariance, PTL DEF HookSpec, Spec

(* Behind any number of handlers, with lost answers, expired leases and    *)
(* dying replicas, the seat still lives as documented.                     *)
THEOREM HandlersKeepLifecycle == HookSpec => ImplementsLifecycle
BY HandlersKeepInventory, Refinement, PTL

(* And a refund it has made stays on record, as long as Stripe reports     *)
(* each charge by one event, however often it is delivered.                *)
THEOREM HandlersKeepRefunds == HookSpec => [][RefundKept]_vars
BY HandlersKeepInventory, RefundFinalForOneEvent, PTL

(* Every control state, lease and answer has its type.                     *)
THEOREM HookTypeCorrect == HookSpec => []HookTypeOK
<1>1. HInv => HookTypeOK
  BY DEF HInv
<1> QED
  BY <1>1, HookInvariance, PTL

(* A 200 is a promise that is kept: the event's charge was exact and has   *)
(* bought the seat or been refunded (handleStripeWebhook 41-95).           *)
THEOREM AcknowledgedIsSettled == HookSpec => []AckedSettled
<1>1. HInv => AckedSettled
  BY DEF HInv, AckedProcessed, AckedSettled, MarkedExact, Settles
<1> QED
  BY <1>1, HookInvariance, PTL

(* No payment that Stripe refunded, or that a handler goes on to refund on *)
(* an earlier read, is ever behind a sale (refundIfPending 14-24).         *)
THEOREM RefundsNeverSold == HookSpec => []RefundOnlyUnsold
<1>1. HInv => RefundOnlyUnsold
  BY DEF HInv, RefundsOwed, RefundOnlyUnsold, Owed, At
<1> QED
  BY <1>1, HookInvariance, PTL

(* The processed marker never outlives or precedes its decision.           *)
THEOREM MarkersDecided == HookSpec => []MarkerMeansDecision
<1>1. HInv => MarkerMeansDecision
  BY DEF HInv
<1> QED
  BY <1>1, HookInvariance, PTL

(* Every refund on record was made by Stripe.                              *)
THEOREM RecordsTrue == HookSpec => []RefundRecordTrue
<1>1. HInv => RefundRecordTrue
  BY DEF HInv
<1> QED
  BY <1>1, HookInvariance, PTL

(* No handler releases a lease but its own, so one that comes late leaves  *)
(* its successor's alone (handleStripeWebhook 90-93).                      *)
THEOREM SuccessorsKeepLease == HookSpec => LeaseOfSuccessorKept
<1> DEFINE Kept == \A e \in Events, h \in Handlers :
               lease[e] = h /\ lease'[e] # h => hook' = [hook EXCEPT ![h] = Idle] \/ hook' = hook
<1>1. HInv /\ [HookNext]_allVars => Kept
  <2> SUFFICES ASSUME HInv, HookNext \/ UNCHANGED allVars,
                      NEW e \in Events, NEW h \in Handlers, lease[e] = h, lease'[e] # h
               PROVE  hook' = [hook EXCEPT ![h] = Idle] \/ hook' = hook
    OBVIOUS
  <2>1. lease \in [Events -> Handlers \cup {NoHandler}] /\ NoHandler \notin Handlers
    BY HandlerAssumption DEF HInv, HookTypeOK
  <2>2. CASE UNCHANGED allVars \/ Buyers
    BY <2>2 DEF allVars, Buyers, hookVars
  <2>3. ASSUME NEW g \in Handlers, NEW f \in Events, Deliver(g, f)
        PROVE  FALSE
    BY <2>1, <2>3 DEF Deliver
  <2>4. ASSUME NEW f \in Events, LeaseExpires(f)
        PROVE  hook' = hook
    BY <2>4 DEF LeaseExpires
  <2>5. ASSUME NEW g \in Handlers, Release(g)
        PROVE  hook' = [hook EXCEPT ![h] = Idle]
    <3>1. OwnLease(g) /\ e = EventOf(g)
      BY <2>1, <2>5 DEF Release
    <3>2. g = h
      BY <3>1 DEF OwnLease
    <3> QED
      BY <2>5, <3>2 DEF Release
  <2>6. ASSUME NEW g \in Handlers, Work(g) \/ Trouble(g), ~Release(g)
        PROVE  UNCHANGED lease
    BY <2>6 DEF Work, Trouble, Check, HookOpen, HookPaid, HookLate, HookRejected, Find, Refund, Mark,
                CommitAnswerLost, HookRollback, RefundAnswerLost, MarkAnswerLost, CallFails,
                ReleaseFails, Crash
  <2> QED
    BY <2>2, <2>3, <2>4, <2>5, <2>6 DEF HookNext
<1>2. HInv /\ [HookNext]_allVars => [Kept]_allVars
  BY <1>1
<1> QED
  BY <1>2, HookInvariance, PTL DEF HookSpec, LeaseOfSuccessorKept
=============================================================================
