---------------------------- MODULE PaymentAmounts ----------------------------
(***************************************************************************)
(* What a buyer is charged for one seat: PaymentController.createIntent,   *)
(* the conversion of the decimal price to minor units, Stripe's            *)
(* idempotency keys, the columns the amount is stored in, and the amount   *)
(* check of confirmReservation.                                            *)
(*                                                                         *)
(* SeatInventory has the same transactions with exact clocks and many      *)
(* buyers and leaves amounts out; here the amounts are the subject, the    *)
(* seat is reserved again and again, the organiser edits its price in      *)
(* PostgreSQL whenever he likes, and calls die at every await.             *)
(***************************************************************************)
EXTENDS Integers, Sequences, FiniteSets

CONSTANTS
    Calls,           \* concurrent POST /payments/intents of the holder
    Prices,          \* decimals: [whole, fraction], fraction a sequence of digits
    Currencies,
    ZeroDecimal, ThreeDecimal,   \* the currencies without the usual two
    SafeMax,         \* Number.MAX_SAFE_INTEGER
    IntMax,          \* the largest value of an INTEGER column
    MaxHolds,        \* bound: reservations of the seat
    MaxEdits,        \* bound: edits of the price
    NoIntent

ASSUME AmountAssumption ==
    /\ SafeMax \in Nat /\ IntMax \in Nat
    /\ MaxHolds \in Nat /\ MaxEdits \in Nat
    /\ \A p \in Prices : p.whole \in Nat /\ p.fraction \in Seq(0..9)
    /\ ZeroDecimal \cap ThreeDecimal = {}

VARIABLES
    price, currency,  \* of the Seat row
    hold,             \* the reservation: its generation and what became of it
    bound,            \* the ticket's paymentIntentId, paymentAmountMinor, paymentCurrency
    call,             \* what each call is about to do, with what it has read
    intents,          \* Stripe's intents by idempotency key
    payable,          \* keys whose client secret was returned
    charged,          \* keys whose intent the buyer has paid
    attempts,         \* PaymentAttempt rows, by the intent's key
    offered,          \* history: the prices the seat had during each reservation
    edits

seat    == <<price, currency, edits, offered>>
ticket  == <<hold, bound>>
stripe  == <<intents, payable, charged>>
vars    == <<seat, ticket, call, stripe, attempts>>

Holds  == 0..MaxHolds
Stages == {"none", "live", "over", "cancelled", "paid"}
Idle   == [at |-> "idle"]

-----------------------------------------------------------------------------
(* toMinorUnits.                                                           *)

Exponent(c) ==
    CASE c \in ZeroDecimal  -> 0
      [] c \in ThreeDecimal -> 3
      [] OTHER              -> 2

TooFine(p, c) ==
    \E i \in DOMAIN p.fraction : i > Exponent(c) /\ p.fraction[i] # 0

(* The number that the digits after whole make of it, read one by one.     *)
Reading(whole, digits, n) ==
    LET read[k \in 0..n] == IF k = 0 THEN whole ELSE 10 * read[k - 1] + digits[k]
    IN  read[n]

Padded(p, n) == [i \in 1..n |-> IF i \in DOMAIN p.fraction THEN p.fraction[i] ELSE 0]

(* Slip: the fraction is not padded to the currency's exponent.            *)
Unpadded(p, c) ==
    LET read == IF Len(p.fraction) < Exponent(c) THEN Len(p.fraction) ELSE Exponent(c)
    IN  Reading(p.whole, p.fraction, read)

Minor(p, c) == Reading(p.whole, Padded(p, Exponent(c)), Exponent(c))

Converts(p, c) == ~TooFine(p, c) /\ Minor(p, c) =< SafeMax

(* What a correct conversion gives: the same quantity, without fractions.  *)
TenTo[n \in Nat] == IF n = 0 THEN 1 ELSE 10 * TenTo[n - 1]

Exact(p, c, minor) ==
    LET places == Len(p.fraction)
    IN  minor * TenTo[places] = Reading(p.whole, p.fraction, places) * TenTo[Exponent(c)]

-----------------------------------------------------------------------------
Keys == [generation : Holds]
Terms == [generation : Holds, amount : Nat, currency : Currencies]

TypeOK ==
    /\ price \in Prices
    /\ currency \in Currencies
    /\ hold \in [generation : Holds, is : Stages]
    /\ call \in [Calls -> {Idle} \cup [at : {"seat"}, generation : Holds]
                                \cup [at : {"ask", "bind", "refused"}, terms : Terms]]
    /\ bound = NoIntent \/ bound \in [key : Keys, amount : 0..IntMax, currency : Currencies]
    /\ payable \subseteq DOMAIN intents
    /\ charged \subseteq payable
    /\ \A k \in DOMAIN intents : intents[k] \in Terms /\ intents[k].amount \in 1..SafeMax
    /\ \A k \in DOMAIN attempts :
          attempts[k] \in [generation : Holds, amount : 0..IntMax, currency : Currencies,
                           status : {"PENDING", "PAID", "REFUND_PENDING"}]
    /\ edits \in 0..MaxEdits

Init ==
    /\ price \in Prices
    /\ currency \in Currencies
    /\ hold = [generation |-> 0, is |-> "none"]
    /\ bound = NoIntent
    /\ call = [c \in Calls |-> Idle]
    /\ intents = << >>
    /\ payable = {}
    /\ charged = {}
    /\ attempts = << >>
    /\ offered = [g \in Holds |-> {}]
    /\ edits = 0

With(f, k, v) == [x \in DOMAIN f \cup {k} |-> IF x = k THEN v ELSE f[x]]
Finish(c)     == call' = [call EXCEPT ![c] = Idle]

(* reserveSeat recycles the ticket row under a new createdAt.              *)
Reserve ==
    /\ hold.is \in {"none", "over", "cancelled"}
    /\ hold.generation < MaxHolds
    /\ hold' = [generation |-> hold.generation + 1, is |-> "live"]
    /\ bound' = NoIntent
    /\ offered' = [offered EXCEPT ![hold'.generation] = {<<price, currency>>}]
    /\ UNCHANGED <<price, currency, edits, call, stripe, attempts>>

(* SEAT_LOCK_TTL_MS has passed.                                            *)
Lapse ==
    /\ hold.is = "live"
    /\ hold' = [hold EXCEPT !.is = "over"]
    /\ UNCHANGED <<seat, bound, call, stripe, attempts>>

(* The organiser's edit of the Seat row; no code of the API makes one.     *)
EditPrice ==
    /\ edits < MaxEdits
    /\ edits' = edits + 1
    /\ \E p \in Prices, c \in Currencies :
          /\ <<p, c>> # <<price, currency>>
          /\ price' = p
          /\ currency' = c
    /\ offered' = IF hold.is = "live"
                  THEN [offered EXCEPT ![hold.generation] = @ \cup {<<price', currency'>>}]
                  ELSE offered
    /\ UNCHANGED <<ticket, call, stripe, attempts>>

-----------------------------------------------------------------------------
(* createIntent.                                                           *)

(* findFirst with include is two SELECTs outside a transaction: the ticket *)
(* first, which is LOCKED until it is sold or cancelled, however long ago  *)
(* its hold has lapsed,                                                    *)
ReadTicket(c) ==
    /\ call[c].at \in {"idle", "refused"}
    /\ hold.is \in {"live", "over"}
    /\ call' = [call EXCEPT ![c] = [at |-> "seat", generation |-> hold.generation]]
    /\ UNCHANGED <<seat, ticket, stripe, attempts>>

(* then the seat, which may meanwhile be held by a later reservation or    *)
(* sold (a sale leaves lockedAt as it is).  The price that this SELECT     *)
(* sees is converted for the generation that the first one saw.            *)
ReadSeat(c) ==
    /\ call[c].at = "seat"
    /\ hold.is \in {"live", "paid"}
    /\ Converts(price, currency)
    /\ call' = [call EXCEPT ![c] =
         [at |-> "ask", terms |-> [generation |-> call[c].generation,
                                   amount     |-> Minor(price, currency),
                                   currency   |-> currency]]]
    /\ UNCHANGED <<seat, ticket, stripe, attempts>>

KeyOfSeat(terms) == [generation |-> 0]   \* slip: the reservation is left out
IntentKey(terms) == [generation |-> terms.generation]

(* Stripe, asked under a key: the first request makes an intent, one with  *)
(* the same parameters gets that intent again, one with others an error.   *)
(* An amount of zero is an error as well.                                  *)
Accepts(terms) ==
    IF IntentKey(terms) \in DOMAIN intents
    THEN intents[IntentKey(terms)] = terms
    ELSE terms.amount > 0

Created(terms) == intents' = With(intents, IntentKey(terms), terms)

(* The client secret goes out only with the answer of Bind.                *)
SecretAtOnce(terms) == payable \cup {IntentKey(terms)}   \* slip: before the binding
SecretKept(terms)   == payable

Ask(c) ==
    /\ call[c].at = "ask"
    /\ Accepts(call[c].terms)
    /\ Created(call[c].terms)
    /\ payable' = SecretKept(call[c].terms)
    /\ call' = [call EXCEPT ![c].at = "bind"]
    /\ UNCHANGED <<seat, ticket, charged, attempts>>

(* Stripe's answer is lost, also after the one retry of its client.        *)
AskAnswerLost(c) ==
    /\ call[c].at = "ask"
    /\ Accepts(call[c].terms)
    /\ Created(call[c].terms)
    /\ Finish(c)
    /\ UNCHANGED <<seat, ticket, payable, charged, attempts>>

AskRefused(c) ==
    /\ call[c].at = "ask"
    /\ ~Accepts(call[c].terms)
    /\ call' = [call EXCEPT ![c].at = "refused"]
    /\ UNCHANGED <<seat, ticket, stripe, attempts>>

(* bindPaymentIntent: the attempt is kept whatever became of the hold; an  *)
(* amount the column cannot hold aborts the transaction.                   *)
Unbounded(amount) == TRUE     \* slip: no column bounds the amount
Fits(amount)      == amount =< IntMax

StillLocked(terms) ==         \* slip: the generation is not compared
    /\ hold.is = "live"
    /\ bound = NoIntent \/ bound.key = IntentKey(terms)

Bindable(terms) ==
    /\ hold = [generation |-> terms.generation, is |-> "live"]
    /\ bound = NoIntent \/ bound.key = IntentKey(terms)

Recorded(terms) ==
    IF IntentKey(terms) \in DOMAIN attempts THEN attempts
    ELSE With(attempts, IntentKey(terms),
              [generation |-> terms.generation, amount |-> terms.amount,
               currency |-> terms.currency, status |-> "PENDING"])

BindRow(terms) ==
    /\ Fits(terms.amount)
    /\ attempts' = Recorded(terms)
    /\ bound' = IF Bindable(terms)
                THEN [key |-> IntentKey(terms), amount |-> terms.amount, currency |-> terms.currency]
                ELSE bound

Bind(c) ==
    /\ call[c].at = "bind"
    /\ BindRow(call[c].terms)
    /\ payable' = IF Bindable(call[c].terms)
                  THEN payable \cup {IntentKey(call[c].terms)} ELSE payable
    /\ Finish(c)
    /\ UNCHANGED <<seat, hold, intents, charged>>

(* The commit's answer or the reply to the client is lost.                 *)
BindAnswerLost(c) ==
    /\ call[c].at = "bind"
    /\ BindRow(call[c].terms)
    /\ Finish(c)
    /\ UNCHANGED <<seat, hold, stripe>>

(* An answer of 409 or 400 (the seat's lockedAt is null or old, the price  *)
(* does not convert, the currency asked for is another), an overflow, a    *)
(* failed call or the death of the process.                                *)
Die(c) ==
    /\ call[c].at \in {"seat", "ask", "bind"}
    /\ Finish(c)
    /\ UNCHANGED <<seat, ticket, stripe, attempts>>

-----------------------------------------------------------------------------
(* The buyer pays with the client secret; Stripe reports the amount.       *)
Pay(k) ==
    /\ k \in payable \ charged
    /\ charged' = charged \cup {k}
    /\ UNCHANGED <<seat, ticket, call, intents, payable, attempts>>

(* confirmReservation's checks: a mismatch throws, and Stripe tries again. *)
Matches(k) ==
    /\ k \in DOMAIN attempts
    /\ attempts[k].amount = intents[k].amount
    /\ attempts[k].currency = intents[k].currency

(* Whether the ticket is still that of the payment's reservation.          *)
SameReservation(k) ==
    hold.generation = attempts[k].generation /\ bound # NoIntent /\ bound.key = k

HeldByAnyone(k) == hold.is = "live"          \* slip: whose hold it is is not asked
HeldForIt(k)    == hold.is = "live" /\ SameReservation(k)

(* A late payment cancels the ticket of its own lapsed hold.               *)
LapsedForIt(k)  == hold.is = "over" /\ SameReservation(k)

Confirm(k) ==
    /\ k \in charged
    /\ Matches(k)
    /\ attempts[k].status = "PENDING"
    /\ attempts' = [attempts EXCEPT ![k].status =
                       IF HeldForIt(k) THEN "PAID" ELSE "REFUND_PENDING"]
    /\ hold' = CASE HeldForIt(k)   -> [hold EXCEPT !.is = "paid"]
                 [] LapsedForIt(k) -> [hold EXCEPT !.is = "cancelled"]
                 [] OTHER          -> hold
    /\ UNCHANGED <<seat, bound, call, stripe>>

Next ==
    \/ Reserve \/ Lapse \/ EditPrice
    \/ \E c \in Calls : \/ ReadTicket(c) \/ ReadSeat(c)
                        \/ Ask(c) \/ AskAnswerLost(c) \/ AskRefused(c)
                        \/ Bind(c) \/ BindAnswerLost(c) \/ Die(c)
    \/ \E k \in Keys : Pay(k) \/ Confirm(k)

Spec == Init /\ [][Next]_vars

(* Stripe repeats an event until it is answered with success.              *)
FairSpec == Spec /\ \A k \in Keys : WF_vars(Confirm(k))

-----------------------------------------------------------------------------
(* Properties.                                                             *)

(* What a buyer can be charged is, to the last unit, a price the seat had  *)
(* during that very reservation.  Stripe may have been asked for a later   *)
(* price under an earlier reservation's key (ReadSeat); no secret of such  *)
(* an intent is ever returned (payments.ts 12-29, payment.controller       *)
(* 23-54, bindPaymentIntent 85-93).                                        *)
ChargedAsOffered ==
    \A k \in payable :
        \E o \in offered[intents[k].generation] :
            o[2] = intents[k].currency /\ Exact(o[1], o[2], intents[k].amount)

(* What a buyer can pay is on record with the amount that Stripe will      *)
(* report, however often the call was retried, the price edited and the    *)
(* answer lost (payment.controller 44-54, bindPaymentIntent 76-84).        *)
PayableOnRecord ==
    \A k \in payable : Matches(k) /\ attempts[k].generation = intents[k].generation

(* While a reservation is in force, Stripe turns its holder's call down    *)
(* only if the price was edited during this very reservation, or is zero:  *)
(* neither an earlier reservation nor a call that read the two rows at     *)
(* different times stands in its way (payments.ts 33-36).                  *)
RefusedOnlyIfEdited ==
    \A c \in Calls :
        /\ call[c].at = "refused"
        /\ hold = [generation |-> call[c].terms.generation, is |-> "live"]
        => \/ Cardinality(offered[hold.generation]) > 1
           \/ call[c].terms.amount = 0

(* The money of each reservation: the calls that overlap, the answers that *)
(* are lost and the edited prices never let the seat be sold twice, for    *)
(* another reservation's payment, or for money that is owed back           *)
(* (bindPaymentIntent 69-95, confirmReservation 115-133).                  *)
Generations == 1..MaxHolds

Phase ==
    CASE hold.is \in {"none", "cancelled"} -> "free"
      [] hold.is = "paid"                  -> "sold"
      [] OTHER                             -> "held"

Holder == IF Phase = "free" THEN 0 ELSE hold.generation

MoneyOf(g) ==
    LET key == [generation |-> g]
    IN  IF key \notin DOMAIN attempts \/ attempts[key].status = "PENDING" THEN "none"
        ELSE IF attempts[key].status = "PAID" THEN "kept" ELSE "owed"

Money == [g \in Generations |-> MoneyOf(g)]

Lifecycle == INSTANCE SeatLifecycle WITH
    NoGeneration <- 0, phase <- Phase, holder <- Holder, money <- Money

ImplementsLifecycle == Lifecycle!Spec

(* Whatever a buyer has paid is eventually kept for a seat or owed back:   *)
(* the amount check never turns a charge away for ever                     *)
(* (confirmReservation 109-114).                                           *)
ChargeDecided ==
    \A k \in Keys :
        k \in charged ~> k \in DOMAIN attempts /\ attempts[k].status # "PENDING"
=============================================================================
