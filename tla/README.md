# MegaTicketing: models and proofs

TLA+ models of the MegaTicketing API, the TLC runs that check them on small
instances, and TLAPS proofs of what holds for every value of the constants.
All paths below are relative to the repository. `RS` stands for
`apps/api/src/services/reservation.service.ts`, `WC` for
`apps/api/src/controllers/webhook.controller.ts`.

## 1. The system

MegaTicketing sells numbered seats. Several replicas of one Fastify API share a
PostgreSQL database, a Redis server and a Stripe account; a React client reserves
seats and is handed a Stripe client secret to pay with. A reservation is a hold of
`SEAT_LOCK_TTL_MS`; a payment is confirmed by a Stripe webhook that may arrive
late, twice, or not before the hold has lapsed.

| Component | State it keeps | Operations | Talks to |
|---|---|---|---|
| Seat inventory (`RS`, `schema.prisma`) | `Seat.isLocked/lockedAt`, one `Ticket` per seat (recycled for each reservation), `PaymentAttempt` history, `ProcessedWebhookEvent`, `OutboxEvent` | `reserveSeat`, `bindPaymentIntent`, `confirmReservation`, `isEventProcessed`, `findPendingRefund`, `markRefundCompleted` | PostgreSQL (row lock on `Seat`) |
| Payment creation (`payment.controller.ts`, `payments.ts`) | none of its own; Stripe keeps one PaymentIntent per idempotency key | `createIntent`, `toMinorUnits` | reads the ticket, calls Stripe, then binds |
| Stripe webhook (`WC`) | `webhook:processed:<event>` lease in Redis (30 s) | `handleStripeWebhook`, `refundIfPending` | inventory, Redis, Stripe refunds |
| Seat lease and reservation requests (`redis.ts`, `reservation.controller.ts`) | `lock:<event>:<seat>` in Redis | `lockSeat`, `releaseSeat`, `handleReservation` | inventory, fraud check |
| Idempotency layer (`idempotency.ts`) | cached response (24 h) and lock (120 s) per key in Redis | the `preValidation`, `onSend`, `onError` hooks | wraps every mutating request |
| Outbox and stream consumer (`pubsub.service.ts`) | `publishingAt/publishingToken/publishedAt` of `OutboxEvent`, a Redis stream with a consumer group, `ProcessedOrderEvent` | `publishOutboxBatch`, `consumeLoop`, `recoverPending`, `start`, `stop` | inventory (reads its outbox), Redis |
| Fraud velocity (`fraud.service.ts`) | fixed-window counters in Redis | `detectFraud` | called by the reservation request |
| Seat map and event list (`seatmap.controller.ts`) | none; browsers keep answers and their ETags | `listEvents`, `listSeats` | reads the inventory |
| Booking client (`apps/web`) | idempotency keys per seat, the session; events, seats shown, selection | `reserve`, `connectAccess`, `loadEvents`, `refresh` | idempotency layer, seat map |
| Circuit breakers (`redis-enhanced.ts`, `redis-circuit-breaker.ts`) | failure counter and state | `execute` | not on an active route |
| Process lifecycle (`index.ts`, `graceful-shutdown.ts`, `health-check.ts`) | Redis connections, the background tasks, the shutdown's timer | start, listen, probes, drain, stop | everything |
| Auth, tracing, metrics, logging, deployment | nothing a property depends on | | |

What makes it hard:

* **One ticket row, many reservations.** A seat's row is reused for every
  reservation. Charges, bindings, refunds and events of an older generation arrive
  while a newer one owns the row. `createdAt` is the generation number, taken from
  a replica's clock.
* **Two orders of locking.** Reservation, binding and confirmation take the `Seat`
  row `FOR UPDATE`; `findPendingRefund`, `markRefundCompleted` and the ticket read of
  `createIntent` do not.
* **At-least-once everywhere.** Stripe redelivers, several event ids may report one
  payment, leases expire under slow handlers, answers of commits and of Stripe calls
  get lost, replicas die between two awaits.
* **Clocks.** Whether a hold lives is decided by each replica's `Date.now()`.
* **Late answers.** The page refreshes every five seconds while the user changes the event,
  reloads and reserves; the price may be edited between two calls of one reservation, and the seat
  sold anew between the two SELECTs of one call; calls
  through a circuit breaker outlive its state; start, probes and shutdown overlap.

What correctness means for each component:

* inventory: a seat is sold at most once, to the holder, for the holder's own
  payment; money that is owed is never behind a sale; every payable payment has a
  history row; the outbox agrees with the rows; a live hold is exclusive;
* webhook: a 200 means that the charge is settled; nothing kept is refunded; every
  exact charge ends as a sale or as a refund;
* outbox: a committed event reaches the stream and is recorded, whatever fails; nobody
  changes a row whose claim it has lost;
* requests (client, idempotency, seat lease): a 201 tells of a reservation made for this very
  key, user and bearer; a stored answer is not replaced; locks fall to their owner or to
  time; who is turned away by others leaves no lease;
* velocity: only an actor's own attempts deny it, and what passes within a window is bounded;
* payment creation: what can be paid is a price the seat had during that reservation, exact to
  the last unit, and on record with the amount Stripe will report; a holder is turned down for a
  reason of his own reservation only; every charge is decided;
* seat map and page: an answer is true of what has not changed since; the selection is of
  seats shown as available; a sale is seen in the end; the list of events is complete;
* circuit breakers: they shut for a row of failures and nothing else, and open again;
* process: PostgreSQL and Redis outlive every client that waits for an answer and every task that
  is waited for, no background task dies of an error, a signal and a probe are always answered.

`PROJECT.json` lists the hazards with their lines and the property that guards each.

## 2. Modules

    SeatLifecycle          what is promised about a seat and its money (abstract)
      ^ implemented by
    SeatInventory          the rows of one seat and ReservationService's transactions
      ^ extended by
    WebhookDelivery        the webhook handlers in front of them
      ^ extended by
    InventoryProofs  (TLAPS, of both)

    SeatLifecycle          (again)
      ^ implemented by
    PaymentAmounts         prices, minor units, Stripe's idempotency keys, the amount check
      ^ extended by
    PaymentProofs  (TLAPS)

    EventDelivery          what is promised about an outbox event (abstract)
      ^ implemented by
    OutboxRelay            PubSubService: publishers, consumers, recoverers
      ^ extended by
    OutboxRelayProofs  (TLAPS)

    BookingRequests        client keys, idempotency hooks, handler and seat lease
      ^ extended by
    BookingProofs  (TLAPS)

    VelocityWindow         the counters of the fraud check
      ^ extended by
    VelocityProofs  (TLAPS)

    FailureGate            what a circuit breaker promises (abstract)
      ^ implemented by
    CircuitBreaker         both breakers around concurrent calls
      ^ extended by
    CircuitBreakerProofs  (TLAPS)

    ProcessLifecycle       start, tasks, server, probes and shutdown of one process
      ^ extended by
    LifecycleProofs  (TLAPS)

    Storefront             the page, listEvents, listSeats and the browser's cache
      ^ extended by
    StorefrontProofs  (TLAPS)

    MCSeatInventory, MCWebhookDelivery, MCOutboxRelay, MCBookingRequests,
    MCVelocityWindow, MCPaymentAmounts, MCStorefront
                           symmetry sets and constant values for TLC

`BookingRequests` is the way to `SeatInventory`'s `Reserve`: it knows of the rows only which
request's hold is in force, and may meet any of the transaction's outcomes. `OutboxRelay`
stands beside the others: `SeatInventory` says which rows enter the
outbox and in which order, `OutboxRelay` how a row, whatever it says, travels on. They
share only `Commit`, the moment an inventory transaction adds a row. `PaymentAmounts` has the
inventory's transactions once more with amounts and without clocks, and both implement `SeatLifecycle`, which
is how they agree on what a hold, a sale and a debt are; `ProcessLifecycle` has
`OutboxRelay`'s loops as tasks that work, pause and end; `Storefront` has `BookingRequests`'
request as a grant that may be answered or not.

Conventions. Actions and variables have the names of the code where they can.
Definitions marked `slip` are not part of the system: each is a plausible mistake
in the definition that follows it (a dropped condition, a wrong row, a swapped
order). Replacing the definition by its slip makes TLC report the property it
guards, which shows that the property can fail; `PROJECT.json` lists the pairs under
`mutants`.

### SeatInventory

One seat; seats share no rows, so one is enough.

| Variable | Code |
|---|---|
| `lockedAt` | `Seat.isLocked` and `lockedAt` (always written together), `Unlocked` = not locked |
| `ticket` | the seat's only `Ticket` row; `status = "NONE"`: no row. `paidAt` and amount columns are left out: they are written together with `status` and `paymentIntentId` |
| `attempt` | `PaymentAttempt` by id; `refundId` only as present or absent |
| `processed`, `outbox` | `ProcessedWebhookEvent`, `OutboxEvent` in commit order |
| `tx` | the open `confirmReservation` and what it has decided; it holds the row lock |
| `intents`, `payable`, `charge` | Stripe's side: PaymentIntents, those whose client secret was returned, and what each event reports |

A PaymentIntent is named by its generation `<<user, createdAt>>`, because the Stripe
idempotency key is made of exactly that (`payments.ts:25`). `charge[e].exact` says
whether amount and currency match the attempt.

| Action | Code |
|---|---|
| `Reserve` | the transaction of `reserveSeat` (RS 38-60), with `preservePayment` |
| `CreateIntent` | `createIntent` up to Stripe's answer; it reads without the row lock |
| `Bind` | `bindPaymentIntent`, at any later moment; `payable` when it returns true |
| `Charge` | Stripe (external) |
| `ConfirmOpen` | `confirmReservation` up to the decision (RS 101-119) |
| `ConfirmDuplicate`, `ConfirmExpired`, `ConfirmPaid` | the writes of each outcome and the commit |
| `ConfirmAbort` | a thrown error, a lost connection or a crash: rollback |
| `MarkRefund` | `markRefundCompleted`, which may fall between `ConfirmOpen` and the commit |

`confirmReservation` is two steps because `markRefundCompleted` does not take the row
lock and can commit between its reads and its writes; PostgreSQL's read-committed
isolation lets the later `update ... where id` overwrite. The other transactions hold
the lock from their first statement and meet nobody, so they are one step. The Redis
seat lease is not there: the inventory is checked without it, which is what "PostgreSQL
remains the authority" (`redis.ts:9`) claims. Callers are unconstrained. In
particular `MarkRefund` is enabled for every pending refund and needs no webhook.

`Init` has a new seat or a seat whose reservation was bound by a release that wrote no
`PaymentAttempt` rows: that is the only state in which `preservePayment` creates one.

### WebhookDelivery

`EXTENDS SeatInventory` and puts `Handlers` in front of it: each is one run of
`handleStripeWebhook` in some replica, with a control state per await (`check`,
`confirm`, `commit`, `find`, `refund`, `mark`, `release`). `lease` is the Redis key with
its owner. Deliveries repeat and overlap at will; a call may fail, or take effect and
lose its answer; a lease may expire at any moment; a replica may die anywhere.
`Buyers` is everything else that can happen to the seat. On the replay path (the event
is already processed) the 200 is sent before the `finally`, on the other path after
it; `RefundSettled` and `Release` keep that order. Signature checks and malformed
events answer without touching state and are left out.

### OutboxRelay

`PubSubService` (`pubsub.service.ts`, below `PS`) of all replicas together.

| Variable | Code |
|---|---|
| `committed` | the `OutboxEvent` rows, numbered by `createdAt` |
| `published`, `claim`, `lapsed` | `publishedAt`; `publishingToken`; whether `publishingAt` is over 60 s old. `claim` names the publisher and not the random token, because a publisher has one batch at a time: its earlier token matches no row of a later batch |
| `pub` | a publisher's batch: the row it is at, the call it waits for, the rows to come |
| `stream`, `delivered`, `pending`, `idle` | the Redis stream, the group's last-delivered id, its pending entries, and those idle for over 60 s |
| `work` | the messages a consumer or a recoverer has in hand |
| `recorded` | `ProcessedOrderEvent` |

| Action | Code |
|---|---|
| `Scan` | the claim (PS 84-99): the oldest `ClaimLimit` rows, one statement |
| `Add`, `Mark`, `Unclaim` | XADD, the fenced update after it, the fenced update in the `catch` |
| `AddResent` | ioredis sends an unanswered command a second time |
| `Read`, `Record`, `Ack` | XREADGROUP, `processMessage`, XACK |
| `Idles`, `Recover` | XPENDING and XCLAIM of `recoverPending` |
| `Lapse` | 60 s have passed since the claim |
| `...Fails`, `...AnswerLost`, `PublisherDies`, `WorkerStops` | a call fails, or works and its answer is lost, or the task ends between two steps |

`SKIP LOCKED` makes two concurrent claims disjoint, so `Scan` is one step. The
claim's `RETURNING` promises no order, so a batch is a set. The initial stream may hold
a message without `outboxId`, which `processMessage` ignores. `start` is `Init` (the group is
created at id 0); `stop` is a task that ends between two steps. Redis itself is taken to be
durable.

### BookingRequests

`POST /reserve` for one seat, from the click to the answer: `reserve` and `connectAccess` of
`CyberArena.tsx`, the hooks of `idempotency.ts`, `handleReservation`, and `reserveSeat` with
the lease of `redis.ts`.

| Variable | Code |
|---|---|
| `key`, `call`, `token` | `keys.current` for this seat, the open `fetch`, the session's bearer |
| `req` | every request ever sent, with the step it has reached and the answer it will give; a client that gives up leaves its request running. `twice` is history: the commands of it that Redis executed twice |
| `cache`, `keyLock` | `idempotency:<key>` (status and fingerprint) and `idempotency:lock:<key>` (owner) |
| `lease` | `lock:<event>:<seat>` with its owner |
| `hold`, `reservations` | the request whose reservation is in force; all that were ever committed |
| `troubles` | calls failed, replicas died, locks or holds run out under a running request |

A new key is named by the request that it is made for, because UUIDs do not repeat. With one
seat and one route the fingerprint can only differ in the bearer, so it is the bearer.

| Action | Code |
|---|---|
| `Send`, `Receive`, `AnswerLost` | one round of `reserve`: the key is made or kept, and forgotten on every answer below 500 |
| `Connect` | a new session, after a disconnect (keys cleared) or after a 401 (keys kept) |
| `Replay`, `Claim`, `ClaimFails` | `preValidation`: look-up and lock are one script |
| `ClaimResent`, `LockResent` | ioredis sends an unanswered command again: its first execution took the lock, and the second one (`Claim`, `Lock`) meets it |
| `Refuse` | 400, 401 or 403 |
| `Lock`, `CheckFails` | `lockSeat`, outside the `try` of `reserveSeat` |
| `Reserve`, `ReserveFails` | the transaction; it may commit and its answer be lost |
| `Unlock`, `UnlockFails` | `releaseSeat` in the `catch`; the lease is kept after a success |
| `OnError`, `OnSend`, `OnSendFails` | the other two hooks: a 5xx drops the lock before it is sent |
| `KeyLockExpires`, `AnswerExpires`, `LeaseExpires`, `HoldExpires` | 120 s, 24 h, `SEAT_LOCK_TTL_MS` twice |
| `Die` | the replica dies |

The client shows a seat as available by a map up to 5 s old, so `Send` is not guarded by the
hold. The scripts that give a lock back compare its owner, so that one executed twice does nothing more
and needs no action. The transaction may answer a conflict although no hold is in force (a paid ticket, an
unknown seat or user), so a conflict has no guard either.

### VelocityWindow

`FraudService` for one event. `counter` is each address's, user's and the event's Redis
counter, `attempt` the calls of `detectFraud` with the time at which each increment took
effect. `CheckVelocity` is one script of `checkVelocity` (the address's, then the user's, which
is counted whatever the first says), `RecordEventPressure` the third one, `EvalFails` a call that rejects with
or without effect. `EvalResent` is a script that ioredis sends again: what its first execution counted is one more
entry of `attempt`, with the verdict `repeat`. A counter without an expiry can be there at the start: the
`ttl < 0` branch of the script is for those. `BookingRequests` has the verdict as `Refuse`, and
the failure as `CheckFails`.

### CircuitBreaker

`kind` chooses between `EnhancedRedisCircuitBreaker` and `RedisCircuitBreaker`; both are one module
because they promise the same, `FailureGate`. `call` is the number of retries of each open
`execute`, `age` the time since the last dated failure. `Enter`, `HalfOpen` and `TurnAway` are
`execute` up to its first `await`; `Succeed`, `Retry` and `Fail` are the ends of an attempt, which
may come when the breaker has long changed its state. Counts above the threshold are one value.
Failures that `isRetryable` does not name end a call at once, so `Fail` of the enhanced breaker does
not wait for the last retry. `streak` and `probed` are history.

### PaymentAmounts

| Variable | Code |
|---|---|
| `price`, `currency`, `edits`, `offered` | `Seat.price` and `Seat.currency`; `offered` is the history of prices during each reservation |
| `hold` | the reservation: its generation (`createdAt`) and what became of it: in force (`live`), lapsed with its ticket still LOCKED (`over`), cancelled by a late payment, sold |
| `bound` | `paymentIntentId`, `paymentAmountMinor` and `paymentCurrency` of the ticket |
| `call` | each open `createIntent`: the generation it has read, then the terms it asks Stripe for |
| `intents`, `payable`, `charged` | Stripe: intents by idempotency key, keys whose client secret was returned, paid ones |
| `attempts` | `PaymentAttempt` rows |

A price is a whole and a sequence of digits, as `toMinorUnits` gets it; `TooFine`, `Minor` (the
`Reading` of the `Padded` digits) and `Converts` are its branches, and `Exact` is the independent definition
that they are checked against: the same quantity, by cross-multiplication with powers of ten (`TenTo`). `SafeMax` and `IntMax` stand for
`Number.MAX_SAFE_INTEGER` and the largest 32-bit integer, in their order, with prices between and beyond
them. No code of the API edits a price; `EditPrice` is the organiser's change of the row. Stripe's part (an idempotency
key answers the same parameters with the same intent and others with an error) is external, as
the code relies on it (`payments.ts:33-36`).

| Action | Code |
|---|---|
| `ReadTicket`, `ReadSeat` | the read, the checks and the conversion (`payment.controller.ts` 23-35) |
| `Ask`, `AskAnswerLost`, `AskRefused` | `createPaymentIntent` and Stripe's answer |
| `Bind`, `BindAnswerLost` | `bindPaymentIntent` and the reply with the client secret |
| `Die` | an answer of 400 or 409 after the reads, an amount that the column cannot hold, a failed call, a crash |
| `Pay`, `Confirm` | the buyer, and `confirmReservation` with its amount check; it sells the seat, owes the money, and cancels the ticket of the payment's own lapsed hold (RS 106-133) |

The `findFirst` of `createIntent` has an `include` and no transaction, and Prisma makes two SELECTs of it: `Ticket`
first, `Seat` second. A ticket stays LOCKED after its hold has lapsed, so between the two the seat may be
reserved again at another price. The check of `lockedAt` then passes on the new hold, and Stripe is asked for the new
price under the old generation's key. That is why reading is two actions, and why the properties speak of what can
be paid and of the reservation in force: `Bindable` compares the generation, so no secret of such an intent is returned.

### ProcessLifecycle

The two Redis connections (`link`), PostgreSQL, `PubSubService.start` (`start`, `waiting`), the loops
(`task`), the server (`listening`, `request`), the health probes (`probe`, `check`), the callers that
still wait for their answer (`clients`) and
`setupGracefulShutdown` (`closing`, `awaited`, `exit`). Fastify is external, modelled from how
`index.ts` uses it: `listen` waits for `onReady`, `close` stops taking requests, waits for the connections
that still have one open (`Drained`: no client waits) and then runs `onClose`. It does not wait for handlers. A client, a proxy or a
kubelet whose own timeout is shorter than `bounded()`'s two seconds may hang up at any moment (`HangUp`), and its
handler runs on behind the closed connection; so does the other check of `/health/ready` after the first one has failed (`UnderWay`). The
shutdown cuts both off. Every step of the shutdown and every call may take for ever; only timers
are sure. `start()` does not look whether `stop()` has run meanwhile: TLC reaches states in
which tasks are launched after the drain, and nothing awaits these; they end with the process, and
what they began is repeated like after a crash. `awaited` keeps them out of `DrainsFirst`.

### Storefront

| Variable | Code |
|---|---|
| `row`, `passed` | the mapped status of each seat; how many events have begun |
| `stored` | the browser's copy of `listSeats` for each event (ETag and body, `max-age=2`) |
| `listed`, `eventId`, `shown`, `selected`, `ready` | `events`, `eventId`, `seats`, `selected`, `ready` of `CyberArena` |
| `message` | whether the page has something to say, which is when the reload button is there |
| `effect`, `fetch` | the runs of its second effect (`active` is true in the latest) and the refresh of each |
| `load` | `loadEvents`: cursor and collected events |
| `queue`, `asked` | the seats `reserve` still has to ask for, and the one under way |

`Restart` is the effect that empties the page; `Send`, `Respond`, `Deliver` and `RefreshFails` are one
refresh, also of an effect that is no longer active; `Respond` compares ETags and keeps the old
body on a 304. `LoadPage` follows the cursor, `LoadEnds` sets the list and maybe another event.
`Grant`, `Replay`, `Decline` and `Told` are one `POST /reserve` each: the seat is reserved and the answer may be lost; a
stored 201 of an earlier try comes back, whatever has become of the seat; it is turned down; the page hears of it.
`Replay` may happen to any seat asked for: which keys have a stored answer is `BookingRequests`' matter. `SeatChanges` is any change of a seat that is not
sold, from available to sold as well: a confirmation that found the hold live may commit after it has lapsed. `changed` and
`disturbed` are history: what has changed since an answer was computed, and whether an
event began while the list was loaded.

## 3. Runs

| Run | Instance | Question | Distinct states |
|---|---|---|---|
| `seat_rows` | 2 users, 2 events, TTL 5, time 0..9, replicas off by one, charges after binding | are the rows consistent after every interleaving of transactions, holds exclusive, and do the transactions implement `SeatLifecycle`? | 100,058 |
| `webhooks` | 2 users, 2 events, 2 handlers, TTL 1, time 0..1, charges possibly before binding | can a 200 lie, can kept money be refunded, can a lease be stolen? | 431,833 |
| `webhooks_settle` | 2 users, 1 event, 2 handlers, TTL 1 | does every exact charge end as a sale or as a refund? | 32,626 |
| `refund_lost_update` | as `webhooks`, charges after binding | is a refund final? (violated, section 6) | - |
| `outbox_relay` | 2 rows, 2 publishers, 1 consumer, 1 recoverer, batches and reads of 2, 2 troubles | can an event be lost, can a publisher touch a claim it has lost, is delivery after commit, is every event recorded in the end? | 266,027 |
| `booking_requests` | 2 clients, 2 bearers, 2 requests, 2 troubles | can a 201, first or replayed, tell of no reservation; can an answer be replaced or a lock be taken from another request; does who is turned away leave a lease? | 820,702 |
| `key_forgotten` | 1 client, 2 requests, no trouble | does a retry after a lost answer keep its key? (not always, section 6) | - |
| `velocity` | 1 address, 2 users, limit 2, window 2, time 0..2, 4 attempts, 1 call failed or executed twice | is who is denied over the limit, how much passes within a window? | 3,529,443 |
| `circuit_breakers` | 3 calls, threshold 3, 2 probes, 1 retry, reset 2 | does a breaker shut for anything but failures in a row, close on stale successes, stay shut for ever? | 133,548 |
| `payment_amounts` | 2 calls, 2 reservations, 1 edit; prices and currencies of `MCPaymentAmounts` | is what can be paid exact, offered and on record; is any charge left undecided; do its steps implement `SeatLifecycle`? | 942,203 |
| `lifecycle` | 2 requests, 1 probe, 2 tasks | are PostgreSQL and Redis let go under a client that waits or a task that is waited for, does a task die, does a signal or a probe hang? | 89,830 |
| `storefront` | 2 events on pages of 1, a seat each, 2 effects, 1 event begins | can a late answer spoil the selection, a 304 lie, the list lose an event, a sale stay unseen? | 572,892 |

Why the bounds suffice. Two users are the old and the new owner of the row; two events
are a redelivery under another id, or two charges; two handlers are the one whose lease
expired and its successor. With skew 1 a TTL of 5 is the smallest one the assumption
below allows, and time 0..9 still lets the first hold lapse and the row be recycled. TTL 1 and
time 0..1 in the webhook runs have a hold lapse and the seat sold to the next buyer.
`webhooks_settle` has one event, so that two handlers are on the same event, which is
the case where they can starve each other; it uses no symmetry. In `outbox_relay` two
rows may be claimed as one batch or, when the second is committed later, as two; two publishers are the slow
one and its successor, and a consumer and a recoverer can hold the same message. Two
troubles are a failure and the failure of its repair, such as an XADD whose answer is lost
and then the release of the row. In `booking_requests` two requests, of two clients or of one, are the slow owner of a lock and
its successor, the first answer and its retry, or the winner of the seat and the loser; two
troubles let the owner be late and its repair fail. More requests are the business of
`BookingProofs`. In `velocity` the first counter expires at the last tick, four attempts are one
more than `BoundedPass` allows, and the two users share the address, so each counter may be the one that denies.
Three calls with a threshold of three let a breaker shut while calls are still under way, and a half-open period fail
with one probe already counted. In `payment_amounts` two calls are a retry beside the call it retries, two reservations the owner of a key and his successor (and what a call reads on either side of the change), and the prices lie on
either side of each limit. Two effects and two events of a page each are the answer that comes late and the
event it must not touch, and a list that needs its cursor. `CHECK_DEADLOCK FALSE` in all but `circuit_breakers`: the clock,
the events, the charges, the rows, the effects and the process are bounded, so a run may stop.

Assumptions on the constants, both needed:

* `4 * MaxSkew < TTL`. With skew 1 and TTL 4 TLC finds a hold that one replica takes
  for live and another recycles into the same generation (`OwedNotHeld`).
* `EarlyCharge => MaxSkew = 0`. A charge before the binding is committed needs a
  client secret nobody was given. It is allowed in `webhooks` and in the proofs anyway,
  to see that nothing depends on its absence; with skewed clocks something does
  (`OwedNotHeld`), so `seat_rows` charges only what `createIntent` returned.

### What the properties say

`PaidAgreement` single sale; `OwedNotHeld` owed or returned money is behind no sale and no
live hold; `CancelledOwesRefund`; `OutboxFaithful` the last outbox event is the row's
state, and nothing follows a sale; `HistoryKept` every client secret handed out has its
own history row; `HoldExclusive` nobody, not even a confirmation that has already
decided, takes a live hold; `ImplementsLifecycle` refinement of
`SeatLifecycle`, in `SeatInventory` and in `PaymentAmounts`; `AckedSettled` a 200 means sold or refunded; `RefundOnlyUnsold`;
`MarkerMeansDecision`; `RefundRecordTrue`; `LeaseOfSuccessorKept`; `ChargeSettled` liveness.
`NothingForgotten` a committed event is unpublished, on its way in the group, or recorded;
`ClaimFenced` nobody but its batch ends a claim that has not lapsed, and a batch that has
lost one changes nothing; `ImplementsDelivery` refinement of `EventDelivery`;
`EveryEventRecorded` liveness. `AcceptedReserved` a 201, also a replayed one, has a reservation
committed for its key, user and bearer; `AnswerStable` a stored answer is not replaced before
it expires; `LocksFenced` a lease or key lock falls to its owner or to time; `NoOrphanLease`
who is told 'unavailable' or is refused does not hold the lease, unless its own `SET NX` was executed twice. `NoFalseAlarm` a denied attempt's
address or user did exceed the limit within one window; `BoundedPass` fewer than twice the limit
pass within any window. It is not the limit itself: the counter is a fixed window opened by its first
attempt (`fraud.service.ts:39`), so attempts late under one counter and early under the next pass together.
`ImplementsGate` refinement of `FailureGate`; `ClosedByProbes` an earlier half-open period counts for
nothing; `Recovers` liveness. `ChargedAsOffered` what can be paid is a price the seat had during that very
reservation, exact to the unit; `PayableOnRecord` what can be paid is recorded as Stripe will report it;
`RefusedOnlyIfEdited` while a reservation is in force, its key is refused only for an edit of the price within it or a price of zero; `ChargeDecided`
liveness: the amount check turns no charge away for ever; `TypeOK` of `PaymentAmounts` says among others that no row holds more than its
column. `DrainsFirst` PostgreSQL and Redis are let go only when no client waits any more and no task that `stop()` waits for is at work; `TasksServe`, `SignalExits`, `ProbeAnswered`: see the process in section 1. `SelectionShown` the selection is of shown,
available seats of the selected event; `AnswersTrue` answers, 304s and copies included, are true of what has not
changed since; `CatalogueComplete` pages lose and repeat nothing unless an event begins meanwhile; `SoldIsSeen`
liveness.

The type invariants of the proved modules are theorems (section 4) and not repeated in the runs.

### Fairness

Six specifications assume any. In `FairHookSpec`, Stripe retries an event until it has a 2xx (strong
fairness of a delivery that meets a free lease), Redis expires its keys (weak), and
Stripe and PostgreSQL calls do not fail for ever (strong fairness of each call, because
between two attempts the handler may die or lose the row to another). Fairness is by
event, not by handler: it never says that a particular delivery succeeds. `Trouble` has no
fairness. Retrying is not unbounded in reality (Stripe stops after days), so the
property speaks of the time Stripe keeps trying.

In `FairSpec` (`OutboxRelay`) every task's next successful call is weakly fair: the loops
of `start` run for ever and catch every error. Time is weakly fair too, but only for claims
and messages that nobody is working on: that a busy owner is slow is a trouble and need not
happen. Troubles are not fair; they are bounded by `MaxTroubles`, which stands for
"failures end", the condition under which at-least-once delivery can be promised at all.

`CircuitBreaker`: time passes, attempts end, and somebody keeps calling (a breaker that nobody calls cannot
close). `PaymentAmounts`: Stripe repeats an event until it is accepted, so `Confirm` is weakly fair.
`ProcessLifecycle`: only timers are fair, the shutdown's and the probes', and the step that answers a
probe whose checks are settled; handlers, tasks and `$disconnect` may hang. `Storefront`: the page's
timer and the delivery of an answer are weakly fair, copies age, and of requests sent again and again some
get through (strong fairness of `Respond`).

## 4. Proofs

### InventoryProofs, part 1: SeatInventory

The first part proves, for all `Users`, `Events`, `TTL`, `MaxSkew`, `MaxTime` under
the two assumptions and the null-value assumption:

| Theorem | Property |
|---|---|
| `TypeCorrect` | `TypeOK` |
| `SingleSale` | `PaidAgreement` |
| `OwedNeverHeld` | `OwedNotHeld` |
| `CancellationOwes` | `CancelledOwesRefund` |
| `OutboxAgrees` | `OutboxFaithful` |
| `HistorySurvives` | `HistoryKept` |
| `HoldsExclusive` | `HoldExclusive` |
| `GenerationsIncrease` | `GenerationsGrow` |
| `Refinement` | `ImplementsLifecycle` |
| `RefundFinalForOneEvent` | `RefundKept`, see below |

None of these is inductive alone. `IInv` is their conjunction strengthened by

* `TicketShape`, `AttemptShape`: which columns go with which status;
* `Clocks`, `Ages`: how far `lockedAt`, `createdAt`, the clock and a lapsed hold can lie
  apart. This is where `4 * MaxSkew < TTL` is used: it makes the next `createdAt` larger
  than every earlier one;
* `Known`, `Bindings`: whatever is bound, charged or recorded belongs to an existing
  intent of its own generation;
* `Decision`: what an open confirmation has decided is still true of the rows when it
  commits, apart from the refund that may slip in. The two-step `confirmReservation`
  makes this the central conjunct;
* `OwedCancelled`: an owed payment's reservation is no longer LOCKED under it, which the
  refinement needs.

One lemma per action (`ReserveKeeps`, `BindKeeps`, ...) shows that it preserves `IInv`, on
top of lemmas about `PreservedAttempt` and about recycled generations; `Invariance` puts
them together. `Refinement` maps every transaction to one step of `SeatLifecycle` or to
a stutter (`ReserveHolds`, `BindStutters`, `DuplicateStutters`, `ExpiredOwes`, `PaidSells`,
`MarkRefunds`). TLC checked `IInv` on the instance of `seat_rows` first.

`RefundedIsFinal` is not a theorem, it is false (section 6). `RefundFinalForOneEvent` says how much of
it is true: `RefundKept`, that no step touches the row of a refunded payment as long as
`OneEventPerPayment` holds, that is, as long as no charge has been reported under two event ids. So
repeated deliveries of the same event, late bindings, new holds and crashes cannot undo a refund; a second event can.
`RefundInv` is `IInv` with `OwedByEvent` (money is owed by the decision on an event, which left its marker) and
`OpenUnprocessed` (an open confirmation that will owe money found no marker), both checked by TLC on the
instance of `refund_lost_update` first.

### InventoryProofs, part 2: WebhookDelivery

For any number of handlers, on top of part 1:

| Theorem | Property |
|---|---|
| `HandlersKeepInventory` | `HookSpec => Spec`: every theorem above holds behind the handlers |
| `HandlersKeepLifecycle` | `ImplementsLifecycle`, of the handlers |
| `HandlersKeepRefunds` | `RefundKept`, of the handlers |
| `HookTypeCorrect` | `HookTypeOK` |
| `AcknowledgedIsSettled` | `AckedSettled` |
| `RefundsNeverSold` | `RefundOnlyUnsold` |
| `MarkersDecided` | `MarkerMeansDecision` |
| `RecordsTrue` | `RefundRecordTrue` |
| `SuccessorsKeepLease` | `LeaseOfSuccessorKept` |

`HInv` is `IInv` with what a handler may rely on between two awaits: `Serving` (it serves
an event that Stripe sent), `LockOwner` (the open confirmation is that of the one handler
waiting for its commit), `OpenDecision` (what that confirmation found is true of the rows),
`MarkedExact` (a processed event is exact), `RefundsOwed` (what is refunded, or about to be,
is owed: the reason why two handlers on one event cannot refund a sale),
`Promises` (by control state) and `AckedProcessed`. One lemma per action again.

### OutboxRelayProofs

For any numbers of rows, tasks, batch sizes and troubles (`RelayAssumption`):

| Theorem | Property |
|---|---|
| `RelayTypeCorrect` | `TypeOK` |
| `EventsNotForgotten` | `NothingForgotten` |
| `ClaimsFenced` | `ClaimFenced` |
| `DeliveryRefined` | `ImplementsDelivery` |

`NothingForgotten` is about rows and not inductive. `RInv` states it by message
(`MessagesKept`: every message is recorded, undelivered or pending) and adds `OnRecord` (what is
published or recorded has a message), `BatchAdded` (a row about to be marked has one),
`AckRecorded` (only a recorded message is acknowledged) and the shapes of batches and
tasks. The proof treats the two halves, publishers and group, apart: they meet only in
XADD (`StreamGrows`, `AddKeepsGroup`). TLC checked `RInv` on the instance of `outbox_relay`
first.

### BookingProofs

For any clients, bearers, numbers of requests and troubles (`BookingAssumption`):

| Theorem | Property |
|---|---|
| `BookingTypeCorrect` | `TypeOK` |
| `AcceptedWasReserved` | `AcceptedReserved` |
| `TurnedAwayLeavesNoLease` | `NoOrphanLease` |
| `AnswersStay` | `AnswerStable` |
| `LocksStayFenced` | `LocksFenced` |
| `OnlyRetriesAreBusy` | the 409 'still being processed' is for a key that another request has too, or whose own look-up was executed twice |

`BInv` adds `KeysOwned` (a key is its client's), `LockOrAnswer` (a key has a lock or an answer,
never both: the reason why no answer is replaced), `Backed` (a 201 in a request or in the cache
has its reservation), `LeaseEarned` (the lease's owner has asked for it and was not turned away
since, unless it asked twice) and `AnswersSettled` (which answers go with which step). `Proper` says what a step of
one request must do right; `ProperKeeps` shows once that this preserves `BInv`, and a lemma
per action shows that the action is proper. `OnlyRetriesAreBusy` adds `LockTaken` (a key's lock is of a request with that
key which is past the look-up); it says where the second finding of section 6 can happen.

### VelocityProofs

For any addresses, users, limit, window, attempts and failures (`VelocityAssumption`):

| Theorem | Property |
|---|---|
| `VelocityTypes` | `TypeOK` |
| `OnlyOwnAttemptsDeny` | `NoFalseAlarm` |
| `WindowBounds` | `BoundedPass` |

The properties count attempts, so the proof is about finite sets of attempts and their
cardinalities. `VelocityInv` ties each counter to the attempts it has counted since it was opened: the count is at most their number
plus what an old counter brought along (so a denial has enough attempts behind it), and what
passed under one counter is at most the limit. A window meets at most two counters, because each lives for a whole window.

### PaymentProofs

For any prices (of any number of digits), currencies, calls, reservations, edits and limits (`AmountAssumption`):

| Theorem | Property |
|---|---|
| `ConversionExact` | a price that converts converts to exactly the same quantity (`Exact`) |
| `PaymentTypes` | `TypeOK` |
| `ChargesAsOffered` | `ChargedAsOffered` |
| `PayableIsRecorded` | `PayableOnRecord` |
| `RefusalsHaveReasons` | `RefusedOnlyIfEdited` |
| `SalesAsOffered` | `SoldAsOffered`: a kept payment was charged, is that of the one reservation which has bought the seat, and is exactly a price of that reservation |
| `PaymentsRefine` | `ImplementsLifecycle` |

`ConversionExact` is an induction over the digits. The induction theorems of the library take an operator as
parameter, which the provers cannot instantiate; `WFMin` speaks of sets instead, and with `NatLessThanWellFounded` it
gives `NatSetInduction`: a set that has 0 and with `n` also `n + 1` has every natural number. The recursive functions
are `CHOOSE` expressions, so their equations are proved first (`ReadingFunction`, `TenToFunction`: functions on
longer and longer prefixes agree). Then `ReadingSame` (a reading depends on its digits only) and
`ZeroTail` (zeros at the end multiply by a power of ten) leave two cases, fewer digits than the exponent and more.

The invariant `IInv` of the transitions is `TypeOK` with `Offers` (the price in force is among those
offered in this reservation), `Quotes` (what a call or an intent asks for is the conversion of some price of the seat;
as long as its reservation is in force, `InForce`, it is sure to be one of that reservation, `Offered`; and what is payable is
`Offered` for good, because `Bindable` requires the reservation to be in force when the secret is given out), `Keyed` (intents lie under their own key, attempts record their intent, what is payable is recorded)
and `Refusals` (a refused call whose reservation is in force has two prices in it, or zero). `ChargedAsOffered` follows from `Quotes` by `ConversionExact`. `SalesAsOffered` adds `Sales`: only
charged money is decided on, and what is kept is behind the sale that is in force. TLC checked
`IInv` and `SoldAsOffered` on the instance of `payment_amounts` first. In the refinement a
binding, a read, a price edit and every lost answer are stutters; `Reserve` holds, and `Confirm` sells or owes, and frees the seat
when it cancels the ticket.

### CircuitBreakerProofs

For any callers, thresholds, retries and reset time (`BreakerAssumption`): `BreakerTypes` (`TypeOK`), `ClosesByProbes`
(`ClosedByProbes`) and `BreakerIsGate` (`ImplementsGate`). The invariant behind them says that the failure count is the history's
row of failures, and that `successCount` of a half-open breaker is the number of probes of this period.

### LifecycleProofs

For any requests, probes and tasks (`CallersAssumption`: a request is not a probe): `LifecycleTypes` (`TypeOK`), `ShutdownDrains` (`DrainsFirst`) and
`TasksStayAlive` (`TasksServe`). The invariant says how far the shutdown must be for each connection to be gone (`LetGo`),
that a client waits only for a handler at work and only until `stop()` (`ServedBeforeStop`), that the awaited tasks have ended
from then on (`AwaitedEnd`), and that tasks launched before the shutdown end only after
`running` is false.

### StorefrontProofs

For any seats, events, page size and number of effects (`StorefrontAssumption`):

| Theorem | Property |
|---|---|
| `StorefrontTypes` | `TypeOK` |
| `PageFollowsSelection` | `SelectionShown` |
| `AnswersAreTrue` | `AnswersTrue` |
| `ListIsComplete` | `CatalogueComplete` |

Not inductive alone: the active refresh must be of the selected event and its body of that event's seats; the
browser's copies must be true of what has not changed since (a 304 gives them back); and an undisturbed load has
collected exactly the upcoming events up to its cursor. The last one rests on lemmas about `PageRows` and `Firsts`, which
speak of cardinalities of finite sets.

## 5. Only model-checked

* Liveness (`ChargeSettled`, `EveryEventRecorded`, `Recovers`, `ChargeDecided`, `SignalExits`, `ProbeAnswered`,
  `SoldIsSeen`): fairness and ENABLED are out of the prover's reach.
* No other property: every invariant, action property and refinement of the passing runs is a theorem of section 4.
* The counterexamples of section 6, which need no proof.

## 6. Findings

**A recorded refund can be forgotten** (`refund_lost_update`, RS:121). `markRefundCompleted`
does not lock the seat row. Two Stripe events report one late payment; the first is refunded,
and its `REFUNDED` is committed between the second confirmation's read of the attempt (RS 108)
and its `update ... where id` (RS 121), which writes `REFUND_PENDING` again. The row then has
a `refundId` and is no longer found by `findPendingRefund`. No money moves twice; the row is wrong
for ever, and it is one operators are told to watch (`docs/DEPLOYMENT_PREFLIGHT.md:50`).
`RefundFinalForOneEvent` (section 4) proves that the second event is needed.
The comment at RS 8 says that every payment transition is serialised on the seat row,
and `docs/ARCHITECTURE.md:37` has no way back from `Reembolsado`.

**A retry may lose its key** (`key_forgotten`, `CyberArena.tsx:126`). `docs/USO.md:21` and
`docs/ARCHITECTURE.md:19`: after a lost answer the retry keeps its key. The client forgets the key
on every answer below 500, so also on the 409 that only says that the request is still being
processed. Its outcome is still unknown; the next try is a new request, and is told 409 if the
first one did reserve the seat.

### Limits that the models show

No run is kept for these; each is a short trace of the modules named.

* *A row can have two publishers* (`OutboxRelay`, PS:103). A claim is dated once per batch, up to 50 rows with up
  to 5 s per XADD, and not looked at again before XADD, so a slow batch outlives its 60 s and both
  publishers send the row, although the comment at PS 81-82 reads otherwise. `ClaimFenced` still
  holds and `ProcessedOrderEvent` discards the duplicate.
* *An accepted answer may be stale* (`BookingRequests`, `idempotency.ts:76`). A stored 201 is replayed for 24 hours, the
  hold lasts 30 s by default; `docs/USO.md:25` reads as if it were in force. `AcceptedReserved` still holds: there
  was a reservation.
* *A request can be turned away by its own lock* (`BookingRequests`, `redis.ts:31`). If the connection breaks before the answer, ioredis
  sends the command again. A claim executed twice is told 'still being processed', and its key stays locked for 120 s; a
  `SET NX` executed twice is told that the seat is not available, and the seat stays leased for `SEAT_LOCK_TTL_MS`.
  A script of the fraud check executed twice counts one attempt as two (`VelocityWindow`).
* *The event can change during a reservation* (`Storefront`, `CyberArena.tsx:54`). A list that arrives late selects another event while
  `reserve` is at work, against `docs/USO.md:21`. The remaining requests still carry the old event's id.
* *A task may start after the stop* (`ProcessLifecycle`, PS:59), see section 2.
* *A handler may be cut off by the shutdown* (`ProcessLifecycle`, `graceful-shutdown.ts:29`). `close()` waits for connections. A
  handler whose client has hung up is not waited for: `$disconnect`, `redis.disconnect` and `process.exit(0)` come while it is at
  work, and what it has begun stops as in a crash, which `WebhookDelivery`, `BookingRequests` and `PaymentAmounts` allow at every step.
* *An intent for a price of the next reservation* (`PaymentAmounts`, `payment.controller.ts:23`). The two SELECTs of one call
  may see the ticket of a lapsed hold and the seat of the next one, at an edited price. Stripe then makes an intent that was never
  offered under the lapsed generation's key, or refuses the call although that reservation had one price. The intent
  is never bound and cannot be paid (`ChargedAsOffered`), and the holder in force is not affected (`RefusedOnlyIfEdited`).
* *An amount beyond 32 bits* (`PaymentAmounts`, `payments.ts:21`) passes the conversion, makes a Stripe intent and fails at the
  binding. `PayableOnRecord` still holds: its secret is never returned.

## 7. Plan

What would come next: `BookingRequests` composed with `SeatInventory`, so that its `Commit` is the
inventory's `Reserve`;
`ProcessLifecycle`'s tasks composed with `OutboxRelay`, so that the steps repeated after a late start are the relay's own.

## 8. Not modelled

* The Cloudflare worker: `infra/cloudflare/main.tf` routes `/api/seatmap/*` to it, and the worker
  passes everything but `/api/events/<id>/seats` on untouched.
* Authentication, the error handler's wording, tracing, metrics, logging, configuration, the rate
  limiter (a Fastify plugin): no property depends on their state.
* `game-state.ts`, `health.controller.ts`, `health.service.ts` (no route uses them), and the hooks
  `useLocalStateSync`, `usePerformanceOptimization`, `useErrorBoundary` and `useMemoDeep` (no component of the page
  imports them).
* Search, filter, totals and wording in `apps/web`, and the deployment manifests.
* Several seats in one selection share no key, lock or row; that they are asked for one by one is in `Storefront`.
* Prices on the page: the ETag is made of ids and statuses (`seatmap.controller.ts` 57-59), so a page may show an old price until
  some status changes. What is charged is read from the row.
* Durability of Redis (a failover that loses a lease, a key or part of the stream) and
  of PostgreSQL; clocks of one process that step back.
* The concurrency inside the claim's `SKIP LOCKED` statement, taken as one step.
