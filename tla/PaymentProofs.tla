---------------------------- MODULE PaymentProofs ----------------------------
(***************************************************************************)
(* Proofs about PaymentAmounts for any prices, currencies, numbers of      *)
(* calls, reservations and edits, and any limits of the two number types.  *)
(*                                                                         *)
(* The conversion to minor units is proved exact by induction over the     *)
(* digits.  The library's induction theorems take an operator, which the   *)
(* provers cannot instantiate; WFMin speaks of sets, and NatSetInduction   *)
(* makes an induction principle for sets of naturals of it.                *)
(***************************************************************************)
EXTENDS PaymentAmounts, FiniteSetTheorems, WellFoundedInduction, TLAPS

-----------------------------------------------------------------------------
(* Induction, and the functions that are defined by recursion.             *)

LEMMA NatSetInduction ==
  ASSUME NEW S \in SUBSET Nat, 0 \in S, \A n \in S : n + 1 \in S
  PROVE  S = Nat
<1> DEFINE R == OpToRel(<, Nat)
<1> SUFFICES ASSUME Nat \ S # {}
             PROVE  FALSE
  OBVIOUS
<1>1. IsWellFoundedOn(R, Nat)
  BY NatLessThanWellFounded
<1>2. PICK x \in Nat \ S : \A y \in Nat \ S : ~(<<y, x>> \in R)
  <2> HIDE DEF R
  <2> QED
    BY <1>1, WFMin
<1>3. x - 1 \in Nat /\ x - 1 + 1 = x
  OBVIOUS
<1>4. <<x - 1, x>> \in R
  BY <1>3 DEF OpToRel
<1>5. x - 1 \in S
  BY <1>2, <1>3, <1>4
<1> QED
  BY <1>3, <1>5

AreDigits(d, n) == \A k \in 1..n : d[k] \in Nat
Agree(d, e, n)  == \A k \in 1..n : d[k] = e[k]

IsReading(f, whole, d, n) ==
    /\ f \in [0..n -> Nat]
    /\ f[0] = whole
    /\ \A k \in 1..n : f[k] = 10 * f[k - 1] + d[k]

(* A recursive definition over 0..n has the function that it describes.    *)
LEMMA ReadingFunction ==
  ASSUME NEW whole \in Nat, NEW n \in Nat, NEW digits, AreDigits(digits, n)
  PROVE  \E f : IsReading(f, whole, digits, n) /\ Reading(whole, digits, n) = f[n]
<1> USE DEF AreDigits
<1> DEFINE Reads(f, m) == f = [k \in 0..m |-> IF k = 0 THEN whole ELSE 10 * f[k - 1] + digits[k]]
           Readable == {m \in Nat : \E f : Reads(f, m)}
           r == CHOOSE f : Reads(f, n)
           Typed == {m \in Nat : m =< n => r[m] \in Nat}
<1>1. 0 \in Readable
  <2>1. Reads([k \in 0..0 |-> whole], 0)
    OBVIOUS
  <2> QED
    BY <2>1
<1>2. ASSUME NEW m \in Readable
      PROVE  m + 1 \in Readable
  <2>1. PICK f : Reads(f, m)
    OBVIOUS
  <2> DEFINE g == [k \in 0..m + 1 |-> IF k = m + 1 THEN 10 * f[m] + digits[m + 1] ELSE f[k]]
  <2>2. \A k \in 0..m : g[k] = f[k]
    OBVIOUS
  <2>3. \A k \in 1..m : f[k] = 10 * f[k - 1] + digits[k]
    BY <2>1
  <2>4. \A k \in 1..m + 1 : k # m + 1 => k - 1 \in 0..m /\ k \in 1..m
    OBVIOUS
  <2>5. f[0] = whole
    BY <2>1
  <2>6. \A k \in 0..m + 1 : g[k] = IF k = 0 THEN whole ELSE 10 * g[k - 1] + digits[k]
    BY <2>2, <2>3, <2>4, <2>5
  <2>7. Reads(g, m + 1)
    BY <2>6
  <2>8. m + 1 \in Nat
    OBVIOUS
  <2> HIDE DEF Reads, g
  <2> QED
    BY <2>7, <2>8
<1>3. Readable = Nat
  <2> HIDE DEF Reads
  <2>1. Readable \in SUBSET Nat
    OBVIOUS
  <2> HIDE DEF Readable
  <2> QED
    BY <2>1, <1>1, <1>2, NatSetInduction
<1>4. Reads(r, n)
  <2>1. \E f : Reads(f, n)
    BY <1>3
  <2> HIDE DEF Reads
  <2> QED
    BY <2>1
<1>5. Reading(whole, digits, n) = r[n]
  BY DEF Reading
<1> HIDE DEF r
<1>6. r[0] = whole /\ \A k \in 1..n : r[k] = 10 * r[k - 1] + digits[k]
  BY <1>4
<1>7. Typed = Nat
  <2>1. 0 \in Typed
    BY <1>6
  <2>2. ASSUME NEW m \in Typed
        PROVE  m + 1 \in Typed
    BY <1>6
  <2>3. Typed \in SUBSET Nat
    OBVIOUS
  <2> HIDE DEF Typed
  <2> QED
    BY <2>1, <2>2, <2>3, NatSetInduction
<1>8. r \in [0..n -> Nat]
  <2>1. \A k \in 0..n : r[k] \in Nat
    BY <1>7
  <2>2. r = [k \in 0..n |-> r[k]]
    BY <1>4
  <2> QED
    BY <2>1, <2>2
<1>9. IsReading(r, whole, digits, n)
  BY <1>6, <1>8 DEF IsReading
<1> QED
  BY <1>5, <1>9

(* Two readings agree as far as their digits do.                           *)
LEMMA ReadingAgrees ==
  ASSUME NEW whole \in Nat, NEW m \in Nat, NEW n \in Nat, m =< n,
         NEW d, NEW e, Agree(d, e, m),
         NEW f, IsReading(f, whole, d, m),
         NEW g, IsReading(g, whole, e, n)
  PROVE  f[m] = g[m]
<1> DEFINE Same == {k \in Nat : k =< m => f[k] = g[k]}
<1> USE DEF IsReading, Agree
<1>1. 0 \in Same
  OBVIOUS
<1>2. ASSUME NEW k \in Same
      PROVE  k + 1 \in Same
  <2> SUFFICES ASSUME k + 1 =< m
               PROVE  f[k + 1] = g[k + 1]
    OBVIOUS
  <2>1. k + 1 \in 1..m /\ k + 1 \in 1..n /\ k + 1 - 1 = k
    OBVIOUS
  <2>2. f[k + 1] = 10 * f[k] + d[k + 1] /\ g[k + 1] = 10 * g[k] + e[k + 1]
    BY <2>1
  <2> QED
    BY <2>1, <2>2
<1>3. Same \in SUBSET Nat
  OBVIOUS
<1>4. m \in Same
  <2> HIDE DEF Same, IsReading, Agree
  <2> QED
    BY <1>1, <1>2, <1>3, NatSetInduction
<1> QED
  BY <1>4

LEMMA ReadingSame ==
  ASSUME NEW whole \in Nat, NEW n \in Nat, NEW d, NEW e, AreDigits(d, n),
         Agree(d, e, n)
  PROVE  Reading(whole, d, n) = Reading(whole, e, n)
<1>1. AreDigits(e, n)
  BY DEF AreDigits, Agree
<1>2. PICK f : IsReading(f, whole, d, n) /\ Reading(whole, d, n) = f[n]
  BY ReadingFunction
<1>3. PICK g : IsReading(g, whole, e, n) /\ Reading(whole, e, n) = g[n]
  BY <1>1, ReadingFunction
<1>4. n =< n
  OBVIOUS
<1>5. f[n] = g[n]
  BY <1>2, <1>3, <1>4, ReadingAgrees
<1> QED
  BY <1>2, <1>3, <1>5

(* Reading, digit by digit.                                                *)
LEMMA ReadingIsNat ==
  ASSUME NEW whole \in Nat, NEW n \in Nat, NEW digits, AreDigits(digits, n)
  PROVE  Reading(whole, digits, n) \in Nat
<1>1. PICK f : IsReading(f, whole, digits, n) /\ Reading(whole, digits, n) = f[n]
  BY ReadingFunction
<1> QED
  BY <1>1 DEF IsReading

LEMMA ReadingStarts ==
  ASSUME NEW whole \in Nat, NEW digits
  PROVE  Reading(whole, digits, 0) = whole
<1>1. AreDigits(digits, 0)
  BY DEF AreDigits
<1>2. PICK f : IsReading(f, whole, digits, 0) /\ Reading(whole, digits, 0) = f[0]
  BY <1>1, ReadingFunction
<1> QED
  BY <1>2 DEF IsReading

LEMMA ReadingStep ==
  ASSUME NEW whole \in Nat, NEW n \in Nat, NEW digits, AreDigits(digits, n + 1)
  PROVE  Reading(whole, digits, n + 1) = 10 * Reading(whole, digits, n) + digits[n + 1]
<1>1. AreDigits(digits, n) /\ n + 1 \in Nat /\ n =< n + 1
  BY DEF AreDigits
<1>2. PICK f : IsReading(f, whole, digits, n) /\ Reading(whole, digits, n) = f[n]
  BY <1>1, ReadingFunction
<1>3. PICK g : IsReading(g, whole, digits, n + 1) /\ Reading(whole, digits, n + 1) = g[n + 1]
  BY <1>1, ReadingFunction
<1>4. f[n] = g[n]
  <2>1. Agree(digits, digits, n)
    BY DEF Agree
  <2> QED
    BY <1>1, <1>2, <1>3, <2>1, ReadingAgrees
<1>5. g[n + 1] = 10 * g[n] + digits[n + 1]
  BY <1>3 DEF IsReading
<1> QED
  BY <1>2, <1>3, <1>4, <1>5

(* Powers of ten are the readings of zeros after a one.                    *)
LEMMA TenToFunction ==
  /\ TenTo \in [Nat -> Nat]
  /\ TenTo[0] = 1
  /\ \A n \in Nat : TenTo[n + 1] = 10 * TenTo[n]
<1> DEFINE zeros == [k \in Nat |-> 0]
           Is(f) == f = [n \in Nat |-> IF n = 0 THEN 1 ELSE 10 * f[n - 1]]
           powers == [n \in Nat |-> Reading(1, zeros, n)]
           Typed == {n \in Nat : TenTo[n] \in Nat}
<1>1. \A n \in Nat : powers[n + 1] = 10 * powers[n]
  <2> SUFFICES ASSUME NEW n \in Nat
               PROVE  Reading(1, zeros, n + 1) = 10 * Reading(1, zeros, n)
    OBVIOUS
  <2>1. AreDigits(zeros, n + 1) /\ AreDigits(zeros, n) /\ zeros[n + 1] = 0
    BY DEF AreDigits
  <2> HIDE DEF zeros
  <2>2. Reading(1, zeros, n) \in Nat
    BY <2>1, ReadingIsNat
  <2>3. Reading(1, zeros, n + 1) = 10 * Reading(1, zeros, n) + zeros[n + 1]
    BY <2>1, ReadingStep
  <2> QED
    BY <2>1, <2>2, <2>3
<1>2. powers[0] = 1
  <2> HIDE DEF zeros
  <2>1. Reading(1, zeros, 0) = 1
    BY ReadingStarts
  <2> QED
    BY <2>1
<1>3. Is(powers)
  <2>1. \A n \in Nat : powers[n] = IF n = 0 THEN 1 ELSE 10 * powers[n - 1]
    <3> HIDE DEF powers
    <3> SUFFICES ASSUME NEW n \in Nat, n # 0
                 PROVE  powers[n] = 10 * powers[n - 1]
      BY <1>2
    <3>1. n - 1 \in Nat /\ n - 1 + 1 = n
      OBVIOUS
    <3> QED
      BY <1>1, <3>1
  <2>2. powers = [n \in Nat |-> powers[n]]
    OBVIOUS
  <2> HIDE DEF powers
  <2> QED
    BY <2>1, <2>2
<1>4. Is(TenTo)
  <2>1. TenTo = CHOOSE f : Is(f)
    BY DEF TenTo
  <2> HIDE DEF Is
  <2> QED
    BY <1>3, <2>1
<1>5. TenTo[0] = 1 /\ \A n \in Nat : TenTo[n + 1] = 10 * TenTo[n]
  BY <1>4
<1>6. Typed = Nat
  <2>1. 0 \in Typed /\ \A n \in Typed : n + 1 \in Typed
    BY <1>5
  <2>2. Typed \in SUBSET Nat
    OBVIOUS
  <2> HIDE DEF Typed
  <2> QED
    BY <2>1, <2>2, NatSetInduction
<1>7. TenTo \in [Nat -> Nat]
  BY <1>4, <1>6
<1> QED
  BY <1>5, <1>7

(* Zeros at the end do not change the quantity.                            *)
LEMMA ZeroTail ==
  ASSUME NEW whole \in Nat, NEW m \in Nat, NEW n \in Nat, m =< n,
         NEW digits, AreDigits(digits, n),
         \A k \in m + 1..n : digits[k] = 0
  PROVE  Reading(whole, digits, n) * TenTo[m] = Reading(whole, digits, m) * TenTo[n]
<1> DEFINE read(k) == Reading(whole, digits, k)
           Equal == {j \in Nat : m + j =< n => read(m + j) * TenTo[m] = read(m) * TenTo[m + j]}
<1>1. 0 \in Equal
  OBVIOUS
<1>2. ASSUME NEW j \in Equal
      PROVE  j + 1 \in Equal
  <2> SUFFICES ASSUME m + (j + 1) =< n
               PROVE  read(m + (j + 1)) * TenTo[m] = read(m) * TenTo[m + (j + 1)]
    OBVIOUS
  <2>1. m + j \in Nat /\ m + (j + 1) = (m + j) + 1 /\ m + j =< n /\ (m + j) + 1 \in m + 1..n
    OBVIOUS
  <2>2. read(m + j) \in Nat /\ read(m + (j + 1)) = 10 * read(m + j)
    <3>1. AreDigits(digits, (m + j) + 1) /\ AreDigits(digits, m + j)
      BY <2>1 DEF AreDigits
    <3>2. digits[(m + j) + 1] = 0
      BY <2>1
    <3>3. read(m + j) \in Nat
      BY <2>1, <3>1, ReadingIsNat
    <3>4. read((m + j) + 1) = 10 * read(m + j) + digits[(m + j) + 1]
      BY <2>1, <3>1, ReadingStep
    <3> QED
      BY <2>1, <3>2, <3>3, <3>4
  <2>3. TenTo[m + (j + 1)] = 10 * TenTo[m + j] /\ TenTo[m + j] \in Nat /\ TenTo[m] \in Nat
    BY <2>1, TenToFunction
  <2>4. read(m) \in Nat
    <3>1. AreDigits(digits, m)
      BY DEF AreDigits
    <3> QED
      BY <3>1, ReadingIsNat
  <2>5. read(m + j) * TenTo[m] = read(m) * TenTo[m + j]
    BY <2>1
  <2> HIDE DEF read
  <2>6. (10 * read(m + j)) * TenTo[m] = 10 * (read(m + j) * TenTo[m])
    BY <2>2, <2>3
  <2>7. read(m) * (10 * TenTo[m + j]) = 10 * (read(m) * TenTo[m + j])
    BY <2>3, <2>4
  <2> QED
    BY <2>2, <2>3, <2>5, <2>6, <2>7
<1>3. Equal = Nat
  <2>1. Equal \in SUBSET Nat
    OBVIOUS
  <2> HIDE DEF Equal
  <2> QED
    BY <1>1, <1>2, <2>1, NatSetInduction
<1>4. n - m \in Nat /\ m + (n - m) = n /\ n =< n
  OBVIOUS
<1>5. n - m \in Equal
  BY <1>3, <1>4
<1>6. read(m + (n - m)) * TenTo[m] = read(m) * TenTo[m + (n - m)]
  BY <1>4, <1>5
<1> QED
  BY <1>4, <1>6

-----------------------------------------------------------------------------
(* The conversion to minor units.                                          *)

LEMMA PriceDigits ==
  ASSUME NEW p \in Prices, NEW n \in Nat
  PROVE  /\ p.whole \in Nat
         /\ Len(p.fraction) \in Nat
         /\ DOMAIN p.fraction = 1..Len(p.fraction)
         /\ AreDigits(p.fraction, Len(p.fraction))
         /\ AreDigits(Padded(p, n), n)
<1>1. p.whole \in Nat /\ p.fraction \in Seq(0..9)
  BY AmountAssumption
<1>2. DOMAIN p.fraction = 1..Len(p.fraction) /\ Len(p.fraction) \in Nat
  BY <1>1
<1>3. \A k \in 1..Len(p.fraction) : p.fraction[k] \in Nat
  BY <1>1
<1> QED
  BY <1>1, <1>2, <1>3 DEF AreDigits, Padded

LEMMA ExponentIsNat == \A c : Exponent(c) \in Nat
  BY DEF Exponent

LEMMA MinorIsNat == \A p \in Prices, c \in Currencies : Minor(p, c) \in Nat
  BY PriceDigits, ExponentIsNat, ReadingIsNat DEF Minor

(* toMinorUnits is exact: what it accepts it converts to the same          *)
(* quantity, for prices with any number of digits before and after the     *)
(* point and a currency of any exponent (payments.ts 12-23).               *)
THEOREM ConversionExact ==
  ASSUME NEW p \in Prices, NEW c \in Currencies, Converts(p, c)
  PROVE  Exact(p, c, Minor(p, c))
<1> DEFINE E      == Exponent(c)
           L      == Len(p.fraction)
           padded == Padded(p, E)
<1>1. E \in Nat /\ L \in Nat /\ p.whole \in Nat
  BY PriceDigits, ExponentIsNat
<1>2. AreDigits(p.fraction, L) /\ AreDigits(padded, E)
  BY <1>1, PriceDigits
<1>3. \A i \in DOMAIN p.fraction : i > E => p.fraction[i] = 0
  BY DEF Converts, TooFine
<1>4. DOMAIN p.fraction = 1..L
  BY <1>1, PriceDigits
<1>5. Minor(p, c) = Reading(p.whole, padded, E)
  BY DEF Minor
<1>6. CASE L =< E
  <2>1. AreDigits(padded, L) /\ Agree(padded, p.fraction, L)
    BY <1>1, <1>2, <1>4, <1>6 DEF AreDigits, Agree, Padded
  <2>2. \A k \in L + 1..E : padded[k] = 0
    BY <1>1, <1>4 DEF Padded
  <2> HIDE DEF E, L, padded
  <2>3. Reading(p.whole, padded, E) * TenTo[L] = Reading(p.whole, padded, L) * TenTo[E]
    BY <1>1, <1>2, <1>6, <2>2, ZeroTail
  <2>4. Reading(p.whole, padded, L) = Reading(p.whole, p.fraction, L)
    BY <1>1, <2>1, ReadingSame
  <2> QED
    BY <1>5, <2>3, <2>4 DEF Exact, E, L
<1>7. CASE E =< L
  <2>1. AreDigits(padded, E) /\ Agree(padded, p.fraction, E)
    BY <1>1, <1>2, <1>4, <1>7 DEF Agree, Padded
  <2>2. \A k \in E + 1..L : p.fraction[k] = 0
    BY <1>1, <1>3, <1>4
  <2> HIDE DEF E, L, padded
  <2>3. Reading(p.whole, p.fraction, L) * TenTo[E] = Reading(p.whole, p.fraction, E) * TenTo[L]
    BY <1>1, <1>2, <1>7, <2>2, ZeroTail
  <2>4. Reading(p.whole, padded, E) = Reading(p.whole, p.fraction, E)
    BY <1>1, <2>1, ReadingSame
  <2> QED
    BY <1>5, <2>3, <2>4 DEF Exact, E, L
<1> QED
  BY <1>1, <1>6, <1>7

-----------------------------------------------------------------------------
(* The inductive invariant, part by part.                                  *)

(* The history of prices, and that the price in force is in it.            *)
Offers ==
    /\ offered \in [Holds -> SUBSET (Prices \X Currencies)]
    /\ \A g \in Holds : IsFiniteSet(offered[g])
    /\ hold.is # "none" => hold.generation \in Generations
    /\ hold.is = "live" => <<price, currency>> \in offered[hold.generation]

(* Terms that were offered: the conversion of a price that the seat had    *)
(* during the reservation they name.                                       *)
Offered(terms) ==
    \E o \in offered[terms.generation] :
        /\ o[2] = terms.currency
        /\ Converts(o[1], o[2])
        /\ terms.amount = Minor(o[1], o[2])

InForce(terms) == hold.is = "live" /\ hold.generation = terms.generation

(* What a call or an intent asks for is the conversion of some price, for  *)
(* a reservation that has begun.  Only if that reservation is still in     *)
(* force is it sure to be a price of it: the two SELECTs of a call that    *)
(* read different reservations are past the first one's end.               *)
Quoted(terms) ==
    /\ terms.generation \in Generations
    /\ terms.generation =< hold.generation
    /\ \E p \in Prices : Converts(p, terms.currency) /\ terms.amount = Minor(p, terms.currency)
    /\ InForce(terms) => Offered(terms)

Reads(c)  == call[c].at = "seat"
Quoting(c) == call[c].at \in {"ask", "bind", "refused"}

Quotes ==
    /\ \A c \in Calls : Reads(c) =>
          call[c].generation \in Generations /\ call[c].generation =< hold.generation
    /\ \A c \in Calls : Quoting(c) => Quoted(call[c].terms)
    /\ \A k \in DOMAIN intents : Quoted(intents[k])
    /\ \A k \in payable : Offered(intents[k])

(* An intent is kept under its own key; a call that is about to bind has   *)
(* its intent; an attempt records its intent; what is payable is recorded. *)
Keyed ==
    /\ \A k \in DOMAIN intents : k = IntentKey(intents[k])
    /\ \A c \in Calls : call[c].at = "bind" =>
          /\ IntentKey(call[c].terms) \in DOMAIN intents
          /\ intents[IntentKey(call[c].terms)] = call[c].terms
    /\ \A k \in DOMAIN attempts :
          /\ k \in DOMAIN intents
          /\ attempts[k].generation = intents[k].generation
          /\ attempts[k].amount = intents[k].amount
          /\ attempts[k].currency = intents[k].currency
    /\ payable \subseteq DOMAIN attempts

(* A refusal within the reservation has its reason.                        *)
Reasoned(terms) ==
    InForce(terms) => \/ terms.amount = 0
                      \/ \E o, q \in offered[terms.generation] : o # q

Refusals == \A c \in Calls : call[c].at = "refused" => Reasoned(call[c].terms)

IInv == TypeOK /\ Offers /\ Quotes /\ Keyed /\ Refusals

LEMMA InitHolds == Init => IInv
<1> SUFFICES ASSUME Init
             PROVE  IInv
  OBVIOUS
<1> USE AmountAssumption DEF Init, Idle, Holds
<1>1. DOMAIN intents = {} /\ DOMAIN attempts = {}
  OBVIOUS
<1>2. TypeOK
  BY <1>1 DEF TypeOK, Stages
<1>3. Offers
  BY FS_EmptySet DEF Offers
<1>4. Quotes /\ Keyed /\ Refusals
  BY <1>1 DEF Quotes, Reads, Quoting, Keyed, Refusals
<1> QED
  BY <1>2, <1>3, <1>4 DEF IInv

(* What was offered and quoted stays so while no reservation's prices are  *)
(* lost and no reservation comes into force but a new one.                 *)
Forward ==
    /\ hold.generation \in Holds /\ hold'.generation \in Holds
    /\ hold'.generation >= hold.generation
    /\ hold'.is = "live" =>
          (hold.is = "live" /\ hold'.generation = hold.generation) \/ hold'.generation > hold.generation
    /\ \A g \in Generations : g =< hold.generation => offered[g] \subseteq offered'[g]

LEMMA OfferedStays ==
  ASSUME Forward
  PROVE  \A terms : Offered(terms) /\ terms.generation \in Generations
                       /\ terms.generation =< hold.generation => Offered(terms)'
<1> SUFFICES ASSUME NEW terms, Offered(terms), terms.generation \in Generations,
                    terms.generation =< hold.generation
             PROVE  Offered(terms)'
  OBVIOUS
<1>1. PICK o \in offered[terms.generation] :
          o[2] = terms.currency /\ Converts(o[1], o[2]) /\ terms.amount = Minor(o[1], o[2])
  BY DEF Offered
<1>2. o \in offered'[terms.generation]
  BY <1>1 DEF Forward
<1> QED
  BY <1>1, <1>2 DEF Offered, Converts, Minor, TooFine, Exponent, Padded, Reading

LEMMA InForceStays ==
  ASSUME Forward
  PROVE  \A terms : Quoted(terms) /\ InForce(terms)' => InForce(terms)
  BY AmountAssumption DEF Forward, Quoted, InForce, Generations, Holds

LEMMA QuotedStays ==
  ASSUME Forward
  PROVE  \A terms : Quoted(terms) => Quoted(terms)'
<1> SUFFICES ASSUME NEW terms, Quoted(terms)
             PROVE  Quoted(terms)'
  OBVIOUS
<1>1. terms.generation =< hold'.generation
  BY AmountAssumption DEF Quoted, Generations, Holds, Forward
<1>2. InForce(terms)' => Offered(terms)'
  BY OfferedStays, InForceStays DEF Quoted
<1>3. /\ terms.generation \in Generations
      /\ \E p \in Prices : Converts(p, terms.currency) /\ terms.amount = Minor(p, terms.currency)
  BY DEF Quoted
<1>4. (\E p \in Prices : Converts(p, terms.currency) /\ terms.amount = Minor(p, terms.currency))'
  BY <1>3 DEF Converts, Minor, TooFine, Exponent, Padded, Reading
<1> QED
  BY <1>1, <1>2, <1>3, <1>4 DEF Quoted

LEMMA ReasonStays ==
  ASSUME Forward
  PROVE  \A terms : Quoted(terms) /\ Reasoned(terms) => Reasoned(terms)'
  BY InForceStays DEF Reasoned, InForce, Forward, Quoted

(* A step that moves no call and makes no intent keeps what calls and      *)
(* intents are about.                                                      *)
LEMMA CallsStay ==
  ASSUME IInv, Forward, UNCHANGED <<call, intents, payable>>
  PROVE  Quotes' /\ Refusals'
<1>1. \A k \in payable : k \in DOMAIN intents
  BY DEF IInv, TypeOK
<1>2. \A k \in payable : Offered(intents[k])'
  BY <1>1, OfferedStays DEF IInv, Quotes, Quoted
<1>3. \A c \in Calls : Reads(c)' =>
          call'[c].generation \in Generations /\ call'[c].generation =< hold'.generation
  BY AmountAssumption DEF IInv, Quotes, Reads, Forward, Generations, Holds
<1>4. Quotes'
  BY <1>2, <1>3, QuotedStays DEF IInv, Quotes, Quoting
<1>5. Refusals'
  BY ReasonStays DEF IInv, Quotes, Quoting, Refusals
<1> QED
  BY <1>4, <1>5

LEMMA ReserveKeeps == IInv /\ Reserve => IInv'
<1> SUFFICES ASSUME IInv, Reserve
             PROVE  IInv'
  OBVIOUS
<1> USE AmountAssumption DEF Holds, Generations
<1>1. /\ hold.generation \in Holds /\ hold'.generation = hold.generation + 1
      /\ hold'.generation \in Generations /\ hold'.is = "live"
  BY DEF Reserve, IInv, TypeOK
<1>2. TypeOK'
  BY <1>1 DEF Reserve, IInv, TypeOK, Idle, Stages, stripe
<1>3. <<price, currency>> \in Prices \X Currencies
  BY DEF IInv, TypeOK
<1>4. Offers'
  <2>1. IsFiniteSet({<<price, currency>>})
    BY FS_Singleton
  <2>2. offered' = [offered EXCEPT ![hold'.generation] = {<<price, currency>>}]
    BY DEF Reserve
  <2>3. offered' \in [Holds -> SUBSET (Prices \X Currencies)]
    BY <1>3, <2>2 DEF IInv, Offers
  <2>4. \A g \in Holds : IsFiniteSet(offered'[g])
    BY <2>1, <2>2 DEF IInv, Offers
  <2>5. <<price', currency'>> \in offered'[hold'.generation]
    BY <1>1, <2>2 DEF Reserve, IInv, Offers
  <2> QED
    BY <1>1, <2>3, <2>4, <2>5 DEF Offers
<1>5. \A g \in Generations : g =< hold.generation => offered'[g] = offered[g]
  BY <1>1 DEF Reserve, IInv, Offers
<1>6. Forward
  BY <1>1, <1>5 DEF Forward
<1>7. Quotes' /\ Refusals'
  BY <1>6, CallsStay DEF Reserve, stripe
<1>8. Keyed'
  BY DEF Reserve, IInv, Keyed, stripe, IntentKey
<1> QED
  BY <1>2, <1>4, <1>7, <1>8 DEF IInv

LEMMA LapseKeeps == IInv /\ Lapse => IInv'
<1> SUFFICES ASSUME IInv, Lapse
             PROVE  IInv'
  OBVIOUS
<1> USE DEF Lapse, seat, stripe
<1>1. hold \in [generation : Holds, is : Stages]
  BY DEF IInv, TypeOK
<1>2. hold'.generation = hold.generation /\ hold'.is = "over" /\ hold' \in [generation : Holds, is : Stages]
  BY <1>1 DEF Stages
<1>3. TypeOK'
  BY <1>2 DEF IInv, TypeOK
<1>4. Offers'
  BY <1>2 DEF IInv, Offers
<1>5. Forward
  BY <1>1, <1>2, AmountAssumption DEF Forward, Holds
<1>6. Quotes' /\ Refusals'
  BY <1>5, CallsStay
<1>7. Keyed'
  BY DEF IInv, Keyed, IntentKey
<1> QED
  BY <1>3, <1>4, <1>6, <1>7 DEF IInv

LEMMA EditPriceKeeps == IInv /\ EditPrice => IInv'
<1> SUFFICES ASSUME IInv, EditPrice
             PROVE  IInv'
  OBVIOUS
<1>1. price' \in Prices /\ currency' \in Currencies
  BY DEF EditPrice
<1>2. hold' = hold /\ UNCHANGED <<bound, call, intents, payable, charged, attempts>>
  BY DEF EditPrice, ticket, stripe
<1>3. hold \in [generation : Holds, is : Stages]
  BY DEF IInv, TypeOK
<1>4. TypeOK'
  BY <1>1, <1>2, AmountAssumption DEF EditPrice, IInv, TypeOK
<1>5. /\ offered' \in [Holds -> SUBSET (Prices \X Currencies)]
      /\ \A g \in Holds : offered'[g] \in {offered[g], offered[g] \cup {<<price', currency'>>}}
      /\ hold.is = "live" => <<price', currency'>> \in offered'[hold.generation]
  <2>1. CASE hold.is = "live"
    <3>1. offered' = [offered EXCEPT ![hold.generation] = @ \cup {<<price', currency'>>}]
      BY <2>1 DEF EditPrice
    <3>2. <<price', currency'>> \in Prices \X Currencies
      BY <1>1
    <3> QED
      BY <1>3, <3>1, <3>2 DEF IInv, Offers
  <2>2. CASE hold.is # "live"
    BY <2>2 DEF EditPrice, IInv, Offers
  <2> QED
    BY <2>1, <2>2
<1>6. \A g \in Holds : IsFiniteSet(offered'[g])
  <2> SUFFICES ASSUME NEW g \in Holds
               PROVE  IsFiniteSet(offered'[g])
    OBVIOUS
  <2>1. IsFiniteSet(offered[g])
    BY DEF IInv, Offers
  <2>2. IsFiniteSet(offered[g] \cup {<<price', currency'>>})
    BY <2>1, FS_AddElement
  <2> QED
    BY <1>5, <2>1, <2>2
<1>7. Offers'
  BY <1>2, <1>5, <1>6 DEF IInv, Offers
<1>8. \A g \in Holds : offered[g] \subseteq offered'[g]
  BY <1>5
<1>9. Forward
  BY <1>2, <1>3, <1>8, AmountAssumption DEF Forward, Holds, Generations
<1>10. Quotes' /\ Refusals'
  BY <1>2, <1>9, CallsStay
<1>11. Keyed'
  BY <1>2 DEF IInv, Keyed, IntentKey
<1> QED
  BY <1>4, <1>7, <1>10, <1>11 DEF IInv

(* The steps of a call leave the seat and its reservation alone.           *)
LEMMA CallsKeepOffers ==
  ASSUME IInv, UNCHANGED <<seat, hold>>
  PROVE  Offers' /\ Forward
<1>1. Offers'
  BY DEF IInv, Offers, seat
<1>2. hold.generation \in Holds /\ hold.generation \in Int
  BY AmountAssumption DEF IInv, TypeOK, Holds
<1> QED
  BY <1>1, <1>2 DEF Forward, seat

(* A call that has something to do has read its terms.                     *)
LEMMA BusyCall ==
  ASSUME IInv, NEW c \in Calls, Quoting(c)
  PROVE  /\ call[c] \in [at : {"ask", "bind", "refused"}, terms : Terms]
         /\ call[c].terms \in Terms
         /\ Quoted(call[c].terms)
  BY DEF IInv, TypeOK, Idle, Quotes, Quoting

(* A step of one call that changes no intent, attempt or secret.           *)
LEMMA CallMoves ==
  ASSUME IInv, NEW c \in Calls, UNCHANGED <<seat, ticket, stripe, attempts>>,
         NEW next, call' = [call EXCEPT ![c] = next],
         \/ next = Idle
         \/ /\ next \in [at : {"seat"}, generation : Generations]
            /\ next.generation =< hold.generation
         \/ /\ next \in [at : {"ask", "refused"}, terms : Terms]
            /\ Quoted(next.terms)
            /\ next.at = "refused" => Reasoned(next.terms)
  PROVE  IInv'
<1> USE DEF ticket, stripe
<1>1. Offers' /\ Forward
  BY CallsKeepOffers
<1>2. TypeOK'
  <2>1. next \in {Idle} \cup [at : {"seat"}, generation : Holds]
                       \cup [at : {"ask", "bind", "refused"}, terms : Terms]
    BY AmountAssumption DEF Generations, Holds
  <2>2. call' \in [Calls -> {Idle} \cup [at : {"seat"}, generation : Holds]
                                  \cup [at : {"ask", "bind", "refused"}, terms : Terms]]
    BY <2>1 DEF IInv, TypeOK
  <2> QED
    BY <2>2 DEF IInv, TypeOK, seat
<1>3. \A b \in Calls : call'[b] = IF b = c THEN next ELSE call[b]
  BY DEF IInv, TypeOK
<1>4. Quotes'
  <2>1. \A k \in DOMAIN intents : Quoted(intents[k])'
    BY <1>1, QuotedStays DEF IInv, Quotes
  <2>2. \A k \in payable : Offered(intents[k])'
    BY <1>1, OfferedStays DEF IInv, TypeOK, Quotes, Quoted
  <2>3. \A b \in Calls : Reads(b)' =>
            call'[b].generation \in Generations /\ call'[b].generation =< hold'.generation
    BY <1>3 DEF IInv, Quotes, Reads, Idle
  <2>4. \A b \in Calls : Quoting(b)' => Quoted(call'[b].terms)
    BY <1>3 DEF IInv, Quotes, Quoting, Idle
  <2>5. \A b \in Calls : Quoting(b)' => Quoted(call[b].terms)'
    BY <1>1, <2>4, QuotedStays
  <2> QED
    BY <2>1, <2>2, <2>3, <2>5 DEF Quotes
<1>5. Keyed'
  BY <1>3 DEF IInv, Keyed, Idle, IntentKey
<1>6. Refusals'
  BY <1>3 DEF IInv, Refusals, Reasoned, InForce, Idle, seat
<1> QED
  BY <1>1, <1>2, <1>4, <1>5, <1>6 DEF IInv

LEMMA ReadTicketKeeps == IInv /\ (\E c \in Calls : ReadTicket(c)) => IInv'
<1> SUFFICES ASSUME IInv, NEW c \in Calls, ReadTicket(c)
             PROVE  IInv'
  OBVIOUS
<1> DEFINE next == [at |-> "seat", generation |-> hold.generation]
<1>1. hold.generation \in Generations /\ hold.generation =< hold.generation
  BY AmountAssumption DEF ReadTicket, IInv, Offers, Generations
<1>2. next \in [at : {"seat"}, generation : Generations] /\ next.generation =< hold.generation
  BY <1>1
<1>3. call' = [call EXCEPT ![c] = next]
  BY DEF ReadTicket
<1> HIDE DEF next
<1> QED
  BY <1>2, <1>3, CallMoves DEF ReadTicket

(* The price of the second SELECT is offered in the reservation of the     *)
(* first one if that is the one in force.                                  *)
LEMMA ReadSeatKeeps == IInv /\ (\E c \in Calls : ReadSeat(c)) => IInv'
<1> SUFFICES ASSUME IInv, NEW c \in Calls, ReadSeat(c)
             PROVE  IInv'
  OBVIOUS
<1> DEFINE terms == [generation |-> call[c].generation, amount |-> Minor(price, currency),
                     currency |-> currency]
<1>1. /\ price \in Prices /\ currency \in Currencies
      /\ call[c].generation \in Generations /\ call[c].generation =< hold.generation
      /\ Converts(price, currency)
  BY DEF ReadSeat, IInv, TypeOK, Quotes, Reads
<1>2. terms \in Terms
  BY <1>1, MinorIsNat, AmountAssumption DEF Terms, Generations, Holds
<1>3. InForce(terms) => Offered(terms)
  <2> DEFINE o == <<price, currency>>
  <2> SUFFICES ASSUME InForce(terms)
               PROVE  Offered(terms)
    OBVIOUS
  <2>1. o \in offered[terms.generation]
    BY DEF IInv, Offers, InForce
  <2>2. o[1] = price /\ o[2] = currency
    OBVIOUS
  <2> QED
    BY <1>1, <2>1, <2>2 DEF Offered
<1>4. Quoted(terms)
  BY <1>1, <1>3 DEF Quoted
<1>5. call' = [call EXCEPT ![c] = [at |-> "ask", terms |-> terms]]
  BY DEF ReadSeat
<1> HIDE DEF terms
<1> QED
  BY <1>2, <1>4, <1>5, CallMoves DEF ReadSeat

(* Two different terms of one reservation are two prices of it.            *)
LEMMA TwoTermsTwoPrices ==
  ASSUME NEW s \in Terms, NEW t \in Terms, Offered(s), Offered(t),
         s.generation = t.generation, s # t
  PROVE  \E o, q \in offered[s.generation] : o # q
<1>1. PICK o \in offered[s.generation] : o[2] = s.currency /\ s.amount = Minor(o[1], o[2])
  BY DEF Offered
<1>2. PICK q \in offered[t.generation] : q[2] = t.currency /\ t.amount = Minor(q[1], q[2])
  BY DEF Offered
<1>3. s.amount # t.amount \/ s.currency # t.currency
  BY DEF Terms
<1> QED
  BY <1>1, <1>2, <1>3

LEMMA AskRefusedKeeps == IInv /\ (\E c \in Calls : AskRefused(c)) => IInv'
<1> SUFFICES ASSUME IInv, NEW c \in Calls, AskRefused(c)
             PROVE  IInv'
  OBVIOUS
<1> DEFINE terms == call[c].terms
<1>1. call[c].at = "ask" /\ ~Accepts(terms)
  BY DEF AskRefused
<1>2. call[c] \in [at : {"ask", "bind", "refused"}, terms : Terms] /\ terms \in Terms /\ Quoted(terms)
  BY <1>1, BusyCall DEF Quoting
<1>3. Reasoned(terms)
  <2> SUFFICES ASSUME InForce(terms)
               PROVE  terms.amount = 0 \/ \E o, q \in offered[terms.generation] : o # q
    BY DEF Reasoned
  <2>1. CASE IntentKey(terms) \in DOMAIN intents
    <3> DEFINE made == intents[IntentKey(terms)]
    <3>1. made \in Terms /\ Quoted(made) /\ IntentKey(terms) = IntentKey(made)
      BY <2>1 DEF IInv, TypeOK, Quotes, Keyed
    <3>2. made.generation = terms.generation
      BY <3>1 DEF IntentKey
    <3>3. made # terms
      BY <1>1, <2>1 DEF Accepts
    <3>4. Offered(made) /\ Offered(terms)
      BY <1>2, <3>1, <3>2 DEF Quoted, InForce
    <3> HIDE DEF made, terms
    <3> QED
      BY <1>2, <3>1, <3>2, <3>3, <3>4, TwoTermsTwoPrices
  <2>2. CASE IntentKey(terms) \notin DOMAIN intents
    <3>1. ~(terms.amount > 0)
      BY <1>1, <2>2 DEF Accepts
    <3>2. terms.amount \in Nat
      BY <1>2 DEF Terms
    <3> QED
      BY <3>1, <3>2
  <2> QED
    BY <2>1, <2>2
<1> DEFINE next == [at |-> "refused", terms |-> terms]
<1>4. call' = [call EXCEPT ![c] = next]
  <2>1. call' = [call EXCEPT ![c] = [call[c] EXCEPT !.at = "refused"]]
    BY DEF AskRefused
  <2>2. [call[c] EXCEPT !.at = "refused"] = next
    BY <1>2
  <2> HIDE DEF next
  <2> QED
    BY <2>1, <2>2
<1>5. next \in [at : {"ask", "refused"}, terms : Terms] /\ next.terms = terms
  BY <1>2
<1> HIDE DEF terms, next
<1> QED
  BY <1>2, <1>3, <1>4, <1>5, CallMoves DEF AskRefused

LEMMA DieKeeps == IInv /\ (\E c \in Calls : Die(c)) => IInv'
  BY CallMoves DEF Die, Finish

(* Stripe has made the intent or had it already.                           *)
LEMMA IntentMade ==
  ASSUME IInv, NEW c \in Calls, call[c].at = "ask", Accepts(call[c].terms),
         Created(call[c].terms), UNCHANGED <<seat, ticket, payable, charged, attempts>>,
         NEW next, call' = [call EXCEPT ![c] = next],
         next \in {Idle, [at |-> "bind", terms |-> call[c].terms]}
  PROVE  IInv'
<1> DEFINE terms == call[c].terms
           key   == IntentKey(terms)
<1> USE DEF ticket
<1>1. call[c] \in [at : {"ask", "bind", "refused"}, terms : Terms] /\ terms \in Terms /\ Quoted(terms)
  BY BusyCall DEF Quoting
<1>2. Offers' /\ Forward
  BY CallsKeepOffers
<1>3. /\ DOMAIN intents' = DOMAIN intents \cup {key}
      /\ \A k \in DOMAIN intents' : intents'[k] = IF k = key THEN terms ELSE intents[k]
  BY DEF Created, With
<1>4. key \in DOMAIN intents => intents[key] = terms
  BY DEF Accepts
<1>5. \A b \in Calls : call'[b] = IF b = c THEN next ELSE call[b]
  BY DEF IInv, TypeOK
<1>6. terms.amount \in 1..SafeMax
  <2>1. CASE key \in DOMAIN intents
    BY <1>4, <2>1 DEF IInv, TypeOK
  <2>2. CASE key \notin DOMAIN intents
    <3>1. terms.amount > 0
      BY <2>2 DEF Accepts
    <3>2. terms.amount =< SafeMax
      BY <1>1 DEF Quoted, Converts
    <3>3. terms.amount \in Nat
      BY <1>1 DEF Terms
    <3> QED
      BY <3>1, <3>2, <3>3, AmountAssumption
  <2> QED
    BY <2>1, <2>2
<1>7. \/ next = Idle
      \/ next \in [at : {"bind"}, terms : Terms] /\ next.at = "bind" /\ next.terms = terms
  BY <1>1
<1> HIDE DEF terms, key
<1>8. TypeOK'
  <2>1. \A k \in DOMAIN intents' : intents'[k] \in Terms /\ intents'[k].amount \in 1..SafeMax
    BY <1>1, <1>3, <1>6 DEF IInv, TypeOK
  <2>2. next \in {Idle} \cup [at : {"ask", "bind", "refused"}, terms : Terms]
    BY <1>7
  <2>3. call' \in [Calls -> {Idle} \cup [at : {"seat"}, generation : Holds]
                                  \cup [at : {"ask", "bind", "refused"}, terms : Terms]]
    BY <2>2 DEF IInv, TypeOK
  <2>4. payable' \subseteq DOMAIN intents'
    BY <1>3 DEF IInv, TypeOK
  <2> QED
    BY <2>1, <2>3, <2>4 DEF IInv, TypeOK, seat
<1>9. Quotes'
  <2>1. \A k \in DOMAIN intents' : Quoted(intents'[k])
    BY <1>1, <1>3 DEF IInv, Quotes
  <2>2. \A k \in DOMAIN intents' : Quoted(intents[k])'
    BY <1>2, <2>1, QuotedStays
  <2>3. \A k \in payable' : Offered(intents[k])'
    <3>1. \A k \in payable : k \in DOMAIN intents /\ intents'[k] = intents[k]
      BY <1>3, <1>4 DEF IInv, TypeOK
    <3>2. \A k \in payable : Offered(intents'[k]) /\ Quoted(intents'[k])
      BY <3>1 DEF IInv, Quotes
    <3> QED
      BY <1>2, <3>2, OfferedStays DEF Quoted
  <2>4. \A b \in Calls : Reads(b)' =>
            call'[b].generation \in Generations /\ call'[b].generation =< hold'.generation
    BY <1>5, <1>7 DEF IInv, Quotes, Reads, Idle
  <2>5. \A b \in Calls : Quoting(b)' => Quoted(call'[b].terms)
    BY <1>1, <1>5, <1>7 DEF IInv, Quotes, Quoting, Idle
  <2>6. \A b \in Calls : Quoting(b)' => Quoted(call[b].terms)'
    BY <1>2, <2>5, QuotedStays
  <2> QED
    BY <2>2, <2>3, <2>4, <2>6 DEF Quotes
<1>10. Keyed'
  <2>1. \A k \in DOMAIN intents' : k = IntentKey(intents'[k])
    BY <1>3 DEF IInv, Keyed, key
  <2>2. \A k \in DOMAIN intents : k \in DOMAIN intents' /\ intents'[k] = intents[k]
    BY <1>3, <1>4
  <2>3. \A b \in Calls : call'[b].at = "bind" =>
          /\ IntentKey(call'[b].terms) \in DOMAIN intents'
          /\ intents'[IntentKey(call'[b].terms)] = call'[b].terms
    BY <1>3, <1>5, <1>7, <2>2 DEF IInv, Keyed, Idle, key
  <2>4. \A k \in DOMAIN attempts :
          /\ k \in DOMAIN intents'
          /\ attempts[k].generation = intents'[k].generation
          /\ attempts[k].amount = intents'[k].amount
          /\ attempts[k].currency = intents'[k].currency
    BY <2>2 DEF IInv, Keyed
  <2> QED
    BY <2>1, <2>3, <2>4 DEF IInv, Keyed, IntentKey
<1>11. Refusals'
  BY <1>5, <1>7 DEF IInv, Refusals, Reasoned, InForce, Idle, seat
<1> QED
  BY <1>2, <1>8, <1>9, <1>10, <1>11 DEF IInv

LEMMA AskKeeps == IInv /\ (\E c \in Calls : Ask(c) \/ AskAnswerLost(c)) => IInv'
<1> SUFFICES ASSUME IInv, NEW c \in Calls, Ask(c) \/ AskAnswerLost(c)
             PROVE  IInv'
  OBVIOUS
<1>1. CASE Ask(c)
  <2>1. call[c] \in [at : {"ask", "bind", "refused"}, terms : Terms]
    BY <1>1, BusyCall DEF Ask, Quoting
  <2>2. call' = [call EXCEPT ![c] = [call[c] EXCEPT !.at = "bind"]]
    BY <1>1 DEF Ask
  <2>3. [call[c] EXCEPT !.at = "bind"] = [at |-> "bind", terms |-> call[c].terms]
    BY <2>1
  <2> QED
    BY <1>1, <2>2, <2>3, IntentMade DEF Ask, SecretKept
<1>2. CASE AskAnswerLost(c)
  BY <1>2, IntentMade DEF AskAnswerLost, Finish
<1> QED
  BY <1>1, <1>2

(* The row of the binding is written; the secret may or may not go out.    *)
LEMMA BindKeeps == IInv /\ (\E c \in Calls : Bind(c) \/ BindAnswerLost(c)) => IInv'
<1> SUFFICES ASSUME IInv, NEW c \in Calls, Bind(c) \/ BindAnswerLost(c)
             PROVE  IInv'
  OBVIOUS
<1> DEFINE terms == call[c].terms
           key   == IntentKey(terms)
<1>1. /\ call[c].at = "bind" /\ BindRow(terms) /\ call' = [call EXCEPT ![c] = Idle]
      /\ UNCHANGED <<seat, hold, intents, charged>>
      /\ payable' = payable \/ (payable' = payable \cup {key} /\ Bindable(terms))
  BY DEF Bind, BindAnswerLost, Finish, stripe
<1>2. terms \in Terms /\ Quoted(terms)
  BY <1>1, BusyCall DEF Quoting
<1>3. key \in DOMAIN intents /\ intents[key] = terms /\ key \in Keys
  BY <1>1, <1>2 DEF IInv, Keyed, IntentKey, Terms, Keys
<1>4. Offers' /\ Forward
  BY <1>1, CallsKeepOffers
<1>5. \A b \in Calls : call'[b] = IF b = c THEN Idle ELSE call[b]
  BY <1>1 DEF IInv, TypeOK
<1>6. terms.amount \in 0..IntMax
  BY <1>1, <1>2, AmountAssumption DEF BindRow, Fits, Terms
<1>7. /\ DOMAIN attempts' = DOMAIN attempts \cup {key}
      /\ \A k \in DOMAIN attempts : attempts'[k] = attempts[k]
      /\ key \notin DOMAIN attempts =>
            attempts'[key] = [generation |-> terms.generation, amount |-> terms.amount,
                              currency |-> terms.currency, status |-> "PENDING"]
  <2>1. attempts' = Recorded(terms)
    BY <1>1 DEF BindRow
  <2>2. CASE key \in DOMAIN attempts
    BY <2>1, <2>2 DEF Recorded
  <2>3. CASE key \notin DOMAIN attempts
    BY <2>1, <2>3 DEF Recorded, With
  <2> QED
    BY <2>2, <2>3
<1>8. bound' \in {bound, [key |-> key, amount |-> terms.amount, currency |-> terms.currency]}
  BY <1>1 DEF BindRow
<1> HIDE DEF terms, key
<1>9. TypeOK'
  <2>1. bound' = NoIntent \/ bound' \in [key : Keys, amount : 0..IntMax, currency : Currencies]
    BY <1>2, <1>3, <1>6, <1>8 DEF IInv, TypeOK, Terms
  <2>2. \A k \in DOMAIN attempts' :
          attempts'[k] \in [generation : Holds, amount : 0..IntMax, currency : Currencies,
                            status : {"PENDING", "PAID", "REFUND_PENDING"}]
    BY <1>2, <1>6, <1>7 DEF IInv, TypeOK, Terms
  <2>3. payable' \subseteq DOMAIN intents' /\ charged' \subseteq payable'
    BY <1>1, <1>3 DEF IInv, TypeOK
  <2>4. call' \in [Calls -> {Idle} \cup [at : {"seat"}, generation : Holds]
                                  \cup [at : {"ask", "bind", "refused"}, terms : Terms]]
    BY <1>1 DEF IInv, TypeOK
  <2> QED
    BY <1>1, <2>1, <2>2, <2>3, <2>4 DEF IInv, TypeOK, seat
<1>10. Quotes'
  <2>1. \A k \in DOMAIN intents : Quoted(intents[k])'
    BY <1>1, <1>4, QuotedStays DEF IInv, Quotes
  <2>2. \A k \in payable' : Offered(intents[k]) /\ Quoted(intents[k])
    <3>1. \A k \in payable : Offered(intents[k]) /\ Quoted(intents[k])
      BY DEF IInv, TypeOK, Quotes
    <3>2. Bindable(terms) => Offered(terms)
      BY <1>2 DEF Bindable, Quoted, InForce
    <3> QED
      BY <1>1, <1>2, <1>3, <3>1, <3>2
  <2>3. \A k \in payable' : Offered(intents[k])'
    BY <1>1, <1>4, <2>2, OfferedStays DEF Quoted
  <2>4. \A b \in Calls : Reads(b)' =>
            call'[b].generation \in Generations /\ call'[b].generation =< hold'.generation
    BY <1>1, <1>5 DEF IInv, Quotes, Reads, Idle
  <2>5. \A b \in Calls : Quoting(b)' => Quoted(call'[b].terms)
    BY <1>5 DEF IInv, Quotes, Quoting, Idle
  <2>6. \A b \in Calls : Quoting(b)' => Quoted(call[b].terms)'
    BY <1>4, <2>5, QuotedStays
  <2> QED
    BY <1>1, <2>1, <2>3, <2>4, <2>6 DEF Quotes
<1>11. Keyed'
  <2>1. \A k \in DOMAIN attempts' :
          /\ k \in DOMAIN intents
          /\ attempts'[k].generation = intents[k].generation
          /\ attempts'[k].amount = intents[k].amount
          /\ attempts'[k].currency = intents[k].currency
    BY <1>3, <1>7 DEF IInv, Keyed
  <2>2. payable' \subseteq DOMAIN attempts'
    BY <1>1, <1>7 DEF IInv, Keyed
  <2>3. \A b \in Calls : call'[b].at = "bind" =>
          /\ IntentKey(call'[b].terms) \in DOMAIN intents
          /\ intents[IntentKey(call'[b].terms)] = call'[b].terms
    BY <1>5 DEF IInv, Keyed, Idle
  <2> QED
    BY <1>1, <2>1, <2>2, <2>3 DEF IInv, Keyed, IntentKey
<1>12. Refusals'
  BY <1>1, <1>5 DEF IInv, Refusals, Reasoned, InForce, Idle, seat
<1> QED
  BY <1>4, <1>9, <1>10, <1>11, <1>12 DEF IInv

LEMMA PayKeeps == IInv /\ (\E k \in Keys : Pay(k)) => IInv'
<1> SUFFICES ASSUME IInv, NEW k \in Keys, Pay(k)
             PROVE  IInv'
  OBVIOUS
<1> USE DEF Pay
<1>1. Offers' /\ Forward
  BY CallsKeepOffers DEF ticket
<1>2. TypeOK'
  BY DEF IInv, TypeOK, seat, ticket
<1>3. Quotes' /\ Refusals'
  BY <1>1, CallsStay
<1>4. Keyed'
  BY DEF IInv, Keyed, IntentKey
<1> QED
  BY <1>1, <1>2, <1>3, <1>4 DEF IInv

(* What a confirmation does to the attempts and the reservation.           *)
LEMMA ConfirmWrites ==
  ASSUME IInv, NEW k \in Keys, Confirm(k)
  PROVE  /\ k \in DOMAIN attempts /\ DOMAIN attempts' = DOMAIN attempts
         /\ \A j \in DOMAIN attempts : j # k => attempts'[j] = attempts[j]
         /\ attempts'[k] = [attempts[k] EXCEPT !.status =
                               IF HeldForIt(k) THEN "PAID" ELSE "REFUND_PENDING"]
         /\ hold'.generation = hold.generation
         /\ hold' \in [generation : Holds, is : Stages]
         /\ \/ HeldForIt(k) /\ hold.is = "live" /\ hold'.is = "paid"
            \/ ~HeldForIt(k) /\ hold.is = "over" /\ hold'.is = "cancelled"
            \/ ~HeldForIt(k) /\ hold' = hold
<1>1. k \in DOMAIN attempts
  BY DEF Confirm, Matches
<1>2. hold \in [generation : Holds, is : Stages]
  BY DEF IInv, TypeOK
<1>3. CASE HeldForIt(k)
  <2>1. hold.is = "live" /\ ~LapsedForIt(k)
    BY <1>3 DEF HeldForIt, LapsedForIt
  <2>2. hold' = [hold EXCEPT !.is = "paid"]
    BY <1>3, <2>1 DEF Confirm
  <2> QED
    BY <1>1, <1>2, <1>3, <2>1, <2>2 DEF Confirm, Stages
<1>4. CASE ~HeldForIt(k) /\ LapsedForIt(k)
  <2>1. hold.is = "over"
    BY <1>4 DEF LapsedForIt
  <2>2. hold' = [hold EXCEPT !.is = "cancelled"]
    BY <1>4 DEF Confirm
  <2> QED
    BY <1>1, <1>2, <1>4, <2>1, <2>2 DEF Confirm, Stages
<1>5. CASE ~HeldForIt(k) /\ ~LapsedForIt(k)
  <2>1. hold' = hold
    BY <1>5 DEF Confirm
  <2> QED
    BY <1>1, <1>2, <1>5, <2>1 DEF Confirm
<1> QED
  BY <1>3, <1>4, <1>5

LEMMA ConfirmKeeps == IInv /\ (\E k \in Keys : Confirm(k)) => IInv'
<1> SUFFICES ASSUME IInv, NEW k \in Keys, Confirm(k)
             PROVE  IInv'
  OBVIOUS
<1>1. UNCHANGED <<seat, bound, call, stripe>>
  BY DEF Confirm
<1>2. /\ k \in DOMAIN attempts /\ DOMAIN attempts' = DOMAIN attempts
      /\ \A j \in DOMAIN attempts : j # k => attempts'[j] = attempts[j]
      /\ attempts'[k] = [attempts[k] EXCEPT !.status =
                            IF HeldForIt(k) THEN "PAID" ELSE "REFUND_PENDING"]
  BY ConfirmWrites
<1>3. /\ hold'.generation = hold.generation
      /\ hold' \in [generation : Holds, is : Stages]
      /\ \/ hold.is = "live" /\ hold'.is = "paid"
         \/ hold.is = "over" /\ hold'.is = "cancelled"
         \/ hold' = hold
  BY ConfirmWrites
<1>4. attempts[k] \in [generation : Holds, amount : 0..IntMax, currency : Currencies,
                       status : {"PENDING", "PAID", "REFUND_PENDING"}]
  BY <1>2 DEF IInv, TypeOK
<1>5. /\ attempts'[k] \in [generation : Holds, amount : 0..IntMax, currency : Currencies,
                            status : {"PENDING", "PAID", "REFUND_PENDING"}]
      /\ attempts'[k].generation = attempts[k].generation
      /\ attempts'[k].amount = attempts[k].amount
      /\ attempts'[k].currency = attempts[k].currency
  BY <1>2, <1>4
<1>6. TypeOK'
  <2>1. \A j \in DOMAIN attempts' :
          attempts'[j] \in [generation : Holds, amount : 0..IntMax, currency : Currencies,
                            status : {"PENDING", "PAID", "REFUND_PENDING"}]
    BY <1>2, <1>5 DEF IInv, TypeOK
  <2> QED
    BY <1>1, <1>3, <2>1 DEF IInv, TypeOK, seat, stripe
<1>7. Offers'
  BY <1>1, <1>3 DEF IInv, Offers, seat
<1>8. Forward
  <2>1. hold.generation \in Holds /\ hold.generation \in Int
    BY AmountAssumption DEF IInv, TypeOK, Holds
  <2> QED
    BY <1>1, <1>3, <2>1 DEF Forward, seat
<1>9. Quotes' /\ Refusals'
  BY <1>1, <1>8, CallsStay DEF stripe
<1>10. Keyed'
  BY <1>1, <1>2, <1>5 DEF IInv, Keyed, IntentKey, stripe
<1> QED
  BY <1>6, <1>7, <1>9, <1>10 DEF IInv

LEMMA StutterKeeps == IInv /\ UNCHANGED vars => IInv'
<1> SUFFICES ASSUME IInv, UNCHANGED vars
             PROVE  IInv'
  OBVIOUS
<1> USE DEF vars, ticket, stripe
<1>1. Offers' /\ Forward
  BY CallsKeepOffers
<1>2. TypeOK'
  BY DEF IInv, TypeOK, seat
<1>3. Quotes' /\ Refusals'
  BY <1>1, CallsStay
<1>4. Keyed'
  BY DEF IInv, Keyed, IntentKey
<1> QED
  BY <1>1, <1>2, <1>3, <1>4 DEF IInv

LEMMA PaymentInvariance == Spec => []IInv
<1>1. IInv /\ [Next]_vars => IInv'
  BY ReserveKeeps, LapseKeeps, EditPriceKeeps, ReadTicketKeeps, ReadSeatKeeps, AskKeeps,
     AskRefusedKeeps, BindKeeps, DieKeeps, PayKeeps, ConfirmKeeps, StutterKeeps DEF Next
<1> QED
  BY <1>1, InitHolds, PTL DEF Spec

-----------------------------------------------------------------------------
(* The theorems.                                                           *)

(* Every variable stays within its type: in particular no row holds an     *)
(* amount beyond its column, and Stripe is asked for no amount of zero or  *)
(* beyond the safe integers, whatever prices are edited when.              *)
THEOREM PaymentTypes == Spec => []TypeOK
<1>1. IInv => TypeOK
  BY DEF IInv
<1> QED
  BY <1>1, PaymentInvariance, PTL

(* Whatever a buyer has the secret to pay is for a price that the seat had *)
(* during the very reservation that the intent's key names, and exactly    *)
(* for it, though the calls read ticket and seat at different times        *)
(* (payments.ts 12-29, payment.controller 23-54).                          *)
THEOREM ChargesAsOffered == Spec => []ChargedAsOffered
<1>1. IInv => ChargedAsOffered
  <2> SUFFICES ASSUME IInv, NEW k \in payable
               PROVE  \E o \in offered[intents[k].generation] :
                         o[2] = intents[k].currency /\ Exact(o[1], o[2], intents[k].amount)
    BY DEF ChargedAsOffered
  <2>1. Quoted(intents[k]) /\ Offered(intents[k])
    BY DEF IInv, TypeOK, Quotes
  <2>2. PICK o \in offered[intents[k].generation] :
            o[2] = intents[k].currency /\ Converts(o[1], o[2]) /\ intents[k].amount = Minor(o[1], o[2])
    BY <2>1 DEF Offered
  <2>3. offered[intents[k].generation] \subseteq Prices \X Currencies
    BY <2>1 DEF IInv, Offers, Quoted, Generations, Holds
  <2>4. o[1] \in Prices /\ o[2] \in Currencies
    BY <2>3
  <2>5. Exact(o[1], o[2], intents[k].amount)
    BY <2>2, <2>4, ConversionExact
  <2> QED
    BY <2>2, <2>5
<1> QED
  BY <1>1, PaymentInvariance, PTL

(* Whatever can be paid is recorded with what Stripe will report, for any  *)
(* number of overlapping calls (bindPaymentIntent 76-84).                  *)
THEOREM PayableIsRecorded == Spec => []PayableOnRecord
<1>1. IInv => PayableOnRecord
  BY DEF IInv, Keyed, PayableOnRecord, Matches
<1> QED
  BY <1>1, PaymentInvariance, PTL

(* The holder of a reservation in force has his idempotency key refused    *)
(* only if the seat really had two prices in that reservation, or is free  *)
(* of charge: no intent of an earlier reservation and no late call's       *)
(* stands in his way (payments.ts 33-36).                                  *)
THEOREM RefusalsHaveReasons == Spec => []RefusedOnlyIfEdited
<1>1. IInv => RefusedOnlyIfEdited
  <2> SUFFICES ASSUME IInv, NEW c \in Calls, call[c].at = "refused", call[c].terms.amount # 0,
                      hold = [generation |-> call[c].terms.generation, is |-> "live"]
               PROVE  Cardinality(offered[hold.generation]) > 1
    BY DEF RefusedOnlyIfEdited
  <2> DEFINE prices == offered[hold.generation]
  <2>1. IsFiniteSet(prices)
    BY DEF IInv, TypeOK, Offers
  <2>2. PICK o \in prices, q \in prices : o # q
    <3>1. hold.is = "live" /\ hold.generation = call[c].terms.generation
      OBVIOUS
    <3> QED
      BY <3>1 DEF IInv, Refusals, Reasoned, InForce
  <2> HIDE DEF prices
  <2>3. Cardinality(prices) \in Nat
    BY <2>1, FS_CardinalityType
  <2>4. Cardinality(prices) # 0
    BY <2>1, <2>2, FS_EmptySet
  <2>5. Cardinality(prices) # 1
    BY <2>1, <2>2, FS_Singleton
  <2>6. Cardinality(prices) > 1
    BY <2>3, <2>4, <2>5
  <2> QED
    BY <2>6 DEF prices
<1> QED
  BY <1>1, PaymentInvariance, PTL

-----------------------------------------------------------------------------
(* What a sale is made of.  PaymentInvariance knows what is asked and      *)
(* recorded; these know what a decision on it leaves behind.               *)

(* Only money that Stripe has taken is decided on, and what is kept is     *)
(* behind the sale of its own reservation, which nothing undoes.           *)
Sales ==
    \A k \in DOMAIN attempts :
        /\ attempts[k].status # "PENDING" => k \in charged
        /\ attempts[k].status = "PAID" =>
              hold.is = "paid" /\ hold.generation = attempts[k].generation

(* A kept payment was charged, is that of the reservation that has bought  *)
(* the seat, and is to the last unit a price of that reservation.          *)
SoldAsOffered ==
    \A k \in DOMAIN attempts :
        attempts[k].status = "PAID" =>
            /\ k \in charged
            /\ hold.is = "paid" /\ hold.generation = attempts[k].generation
            /\ \E o \in offered[attempts[k].generation] :
                  o[2] = attempts[k].currency /\ Exact(o[1], o[2], attempts[k].amount)

LEMMA SalesKept == ASSUME IInv, Sales, [Next]_vars PROVE Sales'
<1>1. hold \in [generation : Holds, is : Stages]
  BY DEF IInv, TypeOK
<1>2. CASE UNCHANGED <<attempts, hold>> /\ charged \subseteq charged'
  BY <1>2 DEF Sales
<1>3. CASE Reserve \/ Lapse
  <2>1. UNCHANGED <<attempts, charged>> /\ hold.is # "paid"
    BY <1>3 DEF Reserve, Lapse, stripe
  <2> QED
    BY <2>1 DEF Sales
<1>4. ASSUME NEW c \in Calls, Bind(c) \/ BindAnswerLost(c) PROVE Sales'
  <2> DEFINE terms == call[c].terms
  <2>1. attempts' = Recorded(terms) /\ UNCHANGED <<hold, charged>>
    BY <1>4 DEF Bind, BindAnswerLost, BindRow, stripe
  <2> HIDE DEF terms
  <2>2. \A k \in DOMAIN attempts' :
           attempts'[k].status = "PENDING" \/ (k \in DOMAIN attempts /\ attempts'[k] = attempts[k])
    BY <2>1 DEF Recorded, With
  <2> QED
    BY <2>1, <2>2 DEF Sales
<1>5. ASSUME NEW k \in Keys, Confirm(k) PROVE Sales'
  <2>1. k \in charged /\ charged' = charged
    BY <1>5 DEF Confirm, stripe
  <2>2. /\ k \in DOMAIN attempts /\ DOMAIN attempts' = DOMAIN attempts
        /\ \A j \in DOMAIN attempts : j # k => attempts'[j] = attempts[j]
        /\ attempts'[k] = [attempts[k] EXCEPT !.status =
                              IF HeldForIt(k) THEN "PAID" ELSE "REFUND_PENDING"]
    BY <1>5, ConfirmWrites
  <2>3. attempts[k] \in [generation : Holds, amount : 0..IntMax, currency : Currencies,
                         status : {"PENDING", "PAID", "REFUND_PENDING"}]
    BY <2>2 DEF IInv, TypeOK
  <2>4. CASE HeldForIt(k)
    <3>1. hold.is = "live" /\ hold.generation = attempts[k].generation
      BY <2>4 DEF HeldForIt, SameReservation
    <3>2. hold'.is = "paid" /\ hold'.generation = attempts[k].generation
      BY <1>5, <2>4, <3>1, ConfirmWrites
    <3>3. attempts'[k].generation = attempts[k].generation
      BY <2>2, <2>3
    <3>4. \A j \in DOMAIN attempts : attempts[j].status # "PAID"
      BY <3>1 DEF Sales
    <3> QED
      BY <2>1, <2>2, <3>2, <3>3, <3>4 DEF Sales
  <2>5. CASE ~HeldForIt(k)
    <3>1. hold' = hold \/ hold.is # "paid"
      BY <1>5, <2>5, ConfirmWrites
    <3>2. attempts'[k].status = "REFUND_PENDING"
      BY <2>2, <2>3, <2>5
    <3> QED
      BY <2>1, <2>2, <3>1, <3>2 DEF Sales
  <2> QED
    BY <2>4, <2>5
<1> QED
  BY <1>2, <1>3, <1>4, <1>5
     DEF Next, vars, ticket, stripe, EditPrice, ReadTicket, ReadSeat, Ask, AskAnswerLost, AskRefused, Die, Pay

(* The seat is sold at most once, to the reservation whose payment is      *)
(* kept, and for exactly a price that it had while that reservation        *)
(* lasted: overlapping calls, edited prices, lost answers and late         *)
(* payments change none of it (payments.ts 12-29, confirmReservation       *)
(* 109-133).                                                               *)
THEOREM SalesAsOffered == Spec => []SoldAsOffered
<1>1. Init => Sales
  <2>1. Init => DOMAIN attempts = {}
    BY DEF Init
  <2> QED
    BY <2>1 DEF Sales
<1>2. IInv /\ ChargedAsOffered /\ Sales => SoldAsOffered
  <2> SUFFICES ASSUME IInv, ChargedAsOffered, Sales,
                      NEW k \in DOMAIN attempts, attempts[k].status = "PAID"
               PROVE  \E o \in offered[attempts[k].generation] :
                         o[2] = attempts[k].currency /\ Exact(o[1], o[2], attempts[k].amount)
    BY DEF SoldAsOffered, Sales
  <2>0. k \in payable
    BY DEF Sales, IInv, TypeOK
  <2>1. /\ k \in DOMAIN intents
        /\ attempts[k].generation = intents[k].generation
        /\ attempts[k].amount = intents[k].amount
        /\ attempts[k].currency = intents[k].currency
    BY DEF IInv, Keyed
  <2> QED
    BY <2>0, <2>1 DEF ChargedAsOffered
<1> QED
  BY <1>1, <1>2, SalesKept, PaymentInvariance, ChargesAsOffered, PTL DEF Spec

-----------------------------------------------------------------------------
(* Refinement of SeatLifecycle.                                            *)

LEMMA SameLifecycle ==
  ASSUME UNCHANGED <<Phase, Holder>>,
         \A g \in Generations : MoneyOf(g)' = MoneyOf(g)
  PROVE  UNCHANGED Lifecycle!vars
<1>1. Money' = Money
  BY DEF Money
<1> QED
  BY <1>1 DEF Lifecycle!vars

LEMMA MoneyFromAttempts ==
  ASSUME NEW g \in Generations,
         LET key == [generation |-> g]
         IN  /\ key \in DOMAIN attempts' <=> key \in DOMAIN attempts
             /\ key \in DOMAIN attempts => attempts'[key] = attempts[key]
  PROVE  MoneyOf(g)' = MoneyOf(g)
  BY DEF MoneyOf

(* A new reservation's generation has met no money.                        *)
LEMMA ReserveHolds == IInv /\ Reserve => Lifecycle!Next
<1> SUFFICES ASSUME IInv, Reserve
             PROVE  Lifecycle!Next
  OBVIOUS
<1> DEFINE g == hold'.generation
<1>1. /\ hold.generation \in Holds /\ g = hold.generation + 1 /\ g \in Generations
      /\ hold'.is = "live" /\ hold.is \in {"none", "over", "cancelled"}
  BY AmountAssumption DEF Reserve, IInv, TypeOK, Holds, Generations
<1>2. [generation |-> g] \notin DOMAIN attempts
  <2> SUFFICES ASSUME [generation |-> g] \in DOMAIN attempts
               PROVE  FALSE
    OBVIOUS
  <2>1. PICK k \in DOMAIN intents : k = [generation |-> g] /\ k = IntentKey(intents[k])
    BY DEF IInv, Keyed
  <2>2. intents[k].generation = g /\ intents[k].generation =< hold.generation
    BY <2>1 DEF IntentKey, IInv, Quotes, Quoted
  <2> QED
    BY <1>1, <2>2, AmountAssumption DEF Holds
<1>3. Money[g] = "none"
  BY <1>1, <1>2 DEF Money, MoneyOf
<1>4. Money' = Money
  BY DEF Reserve, Money, MoneyOf
<1>5. Phase \in {"free", "held"} /\ Phase' = "held" /\ Holder' = g
  BY <1>1 DEF Phase, Holder
<1> HIDE DEF g
<1>6. Lifecycle!Hold(g)
  BY <1>3, <1>4, <1>5 DEF Lifecycle!Hold, g
<1> QED
  BY <1>1, <1>6 DEF Lifecycle!Next

LEMMA BindStutters ==
  IInv /\ (\E c \in Calls : Bind(c) \/ BindAnswerLost(c)) => UNCHANGED Lifecycle!vars
<1> SUFFICES ASSUME IInv, NEW c \in Calls, Bind(c) \/ BindAnswerLost(c)
             PROVE  UNCHANGED Lifecycle!vars
  OBVIOUS
<1> DEFINE terms == call[c].terms
           key   == IntentKey(terms)
<1>1. UNCHANGED hold /\ attempts' = Recorded(terms)
  BY DEF Bind, BindAnswerLost, BindRow
<1>2. \A g \in Generations : MoneyOf(g)' = MoneyOf(g)
  <2>1. CASE key \in DOMAIN attempts
    BY <1>1, <2>1 DEF Recorded, MoneyOf
  <2>2. CASE key \notin DOMAIN attempts
    <3>1. /\ DOMAIN attempts' = DOMAIN attempts \cup {key}
          /\ \A k \in DOMAIN attempts : attempts'[k] = attempts[k]
          /\ attempts'[key].status = "PENDING"
      BY <1>1, <2>2 DEF Recorded, With
    <3> HIDE DEF key
    <3> QED
      BY <2>2, <3>1 DEF MoneyOf
  <2> QED
    BY <2>1, <2>2
<1> QED
  BY <1>1, <1>2, SameLifecycle DEF Phase, Holder

(* A confirmation sells the seat to its holder or owes the money back.     *)
LEMMA ConfirmDecides == IInv /\ (\E k \in Keys : Confirm(k)) => Lifecycle!Next
<1> SUFFICES ASSUME IInv, NEW k \in Keys, Confirm(k)
             PROVE  Lifecycle!Next
  OBVIOUS
<1>1. /\ k \in DOMAIN attempts /\ DOMAIN attempts' = DOMAIN attempts
      /\ \A j \in DOMAIN attempts : j # k => attempts'[j] = attempts[j]
      /\ attempts'[k] = [attempts[k] EXCEPT !.status =
                            IF HeldForIt(k) THEN "PAID" ELSE "REFUND_PENDING"]
  BY ConfirmWrites
<1>2. attempts[k] \in [generation : Holds, amount : 0..IntMax, currency : Currencies,
                       status : {"PENDING", "PAID", "REFUND_PENDING"}]
  BY <1>1 DEF IInv, TypeOK
<1>3. PICK g \in Generations : g = attempts[k].generation /\ k = [generation |-> g]
  <2>1. k = IntentKey(intents[k]) /\ intents[k].generation = attempts[k].generation
    BY <1>1 DEF IInv, Keyed
  <2>2. intents[k].generation \in Generations
    BY <1>1 DEF IInv, Keyed, Quotes, Quoted
  <2> QED
    BY <2>1, <2>2 DEF IntentKey
<1>4. MoneyOf(g) = "none"
  BY <1>3 DEF Confirm, MoneyOf
<1>5. /\ HeldForIt(k)  => MoneyOf(g)' = "kept"
      /\ ~HeldForIt(k) => MoneyOf(g)' = "owed"
  <2>1. /\ HeldForIt(k)  => attempts'[k].status = "PAID"
        /\ ~HeldForIt(k) => attempts'[k].status = "REFUND_PENDING"
    <3>1. CASE HeldForIt(k)
      BY <1>1, <1>2, <3>1
    <3>2. CASE ~HeldForIt(k)
      BY <1>1, <1>2, <3>2
    <3> QED
      BY <3>1, <3>2
  <2>2. [generation |-> g] \in DOMAIN attempts'
    BY <1>1, <1>3
  <2>3. attempts'[[generation |-> g]].status = attempts'[k].status
    BY <1>3
  <2>4. CASE HeldForIt(k)
    <3>1. attempts'[[generation |-> g]].status = "PAID"
      BY <2>1, <2>3, <2>4
    <3>2. MoneyOf(g)' = "kept"
      BY <2>2, <3>1 DEF MoneyOf
    <3> QED
      BY <2>4, <3>2
  <2>5. CASE ~HeldForIt(k)
    <3>1. attempts'[[generation |-> g]].status = "REFUND_PENDING"
      BY <2>1, <2>3, <2>5
    <3>2. MoneyOf(g)' = "owed"
      BY <2>2, <3>1 DEF MoneyOf
    <3> QED
      BY <2>5, <3>2
  <2> QED
    BY <2>4, <2>5
<1>6. \A h \in Generations : h # g => MoneyOf(h)' = MoneyOf(h)
  <2> SUFFICES ASSUME NEW h \in Generations, h # g
               PROVE  MoneyOf(h)' = MoneyOf(h)
    OBVIOUS
  <2>1. [generation |-> h] # k
    BY <1>3
  <2> QED
    BY <1>1, <2>1, MoneyFromAttempts
<1>7. /\ HeldForIt(k)  => Money' = [Money EXCEPT ![g] = "kept"]
      /\ ~HeldForIt(k) => Money' = [Money EXCEPT ![g] = "owed"]
  <2>1. CASE HeldForIt(k)
    <3>1. MoneyOf(g)' = "kept"
      BY <1>5, <2>1
    <3>2. Money' = [Money EXCEPT ![g] = "kept"]
      BY <1>3, <1>6, <3>1 DEF Money
    <3> QED
      BY <2>1, <3>2
  <2>2. CASE ~HeldForIt(k)
    <3>1. MoneyOf(g)' = "owed"
      BY <1>5, <2>2
    <3>2. Money' = [Money EXCEPT ![g] = "owed"]
      BY <1>3, <1>6, <3>1 DEF Money
    <3> QED
      BY <2>2, <3>2
  <2> QED
    BY <2>1, <2>2
<1>8. Money[g] = "none"
  BY <1>3, <1>4 DEF Money
<1>9. CASE HeldForIt(k)
  <2>1. hold.is = "live" /\ hold.generation = g /\ hold'.is = "paid" /\ hold'.generation = g
    BY <1>3, <1>9, ConfirmWrites DEF HeldForIt, SameReservation
  <2>2. Phase = "held" /\ Phase' = "sold" /\ Holder = g /\ Holder' = g
    BY <2>1 DEF Phase, Holder
  <2>3. Lifecycle!Sell(g)
    BY <1>7, <1>8, <1>9, <2>1, <2>2 DEF Lifecycle!Sell
  <2> QED
    BY <1>3, <2>3 DEF Lifecycle!Next
<1>10. CASE ~HeldForIt(k)
  <2>1. CASE LapsedForIt(k)
    <3>1. hold.is = "over" /\ hold.generation = g /\ hold'.is = "cancelled"
      BY <1>3, <1>10, <2>1, ConfirmWrites DEF LapsedForIt, SameReservation, Confirm
    <3>2. Phase = "held" /\ Holder = g /\ Phase' = "free" /\ Holder' = 0
      BY <3>1 DEF Phase, Holder
    <3>3. Lifecycle!Owe(g)
      BY <1>7, <1>8, <1>10, <3>2 DEF Lifecycle!Owe
    <3> QED
      BY <1>3, <3>3 DEF Lifecycle!Next
  <2>2. CASE ~LapsedForIt(k)
    <3>1. hold' = hold
      BY <1>10, <2>2 DEF Confirm
    <3>2. UNCHANGED <<Phase, Holder>>
      BY <3>1 DEF Phase, Holder
    <3>3. Lifecycle!Owe(g)
      BY <1>7, <1>8, <1>10, <3>2 DEF Lifecycle!Owe
    <3> QED
      BY <1>3, <3>3 DEF Lifecycle!Next
  <2> QED
    BY <2>1, <2>2
<1> QED
  BY <1>9, <1>10

(* The seat and its money live as documented, with amounts, edited prices, *)
(* retried and lost calls as without: each step is one of SeatLifecycle.   *)
THEOREM PaymentsRefine == Spec => ImplementsLifecycle
<1>1. Init => Lifecycle!Init
  <2> SUFFICES ASSUME Init
               PROVE  Lifecycle!Init
    OBVIOUS
  <2>1. DOMAIN attempts = {}
    BY DEF Init
  <2>2. Money = [g \in Generations |-> "none"]
    BY <2>1 DEF Money, MoneyOf
  <2> QED
    BY <2>2 DEF Init, Lifecycle!Init, Phase, Holder
<1>2. IInv /\ [Next]_vars => [Lifecycle!Next]_(Lifecycle!vars)
  <2> SUFFICES ASSUME IInv, [Next]_vars
               PROVE  Lifecycle!Next \/ UNCHANGED Lifecycle!vars
    OBVIOUS
  <2>1. CASE UNCHANGED <<hold, attempts>>
    BY <2>1, SameLifecycle DEF Phase, Holder, MoneyOf
  <2>2. CASE Lapse
    <3>1. Phase = "held" /\ Phase' = "held" /\ Holder' = Holder /\ attempts' = attempts
      BY <2>2 DEF Lapse, Phase, Holder, IInv, TypeOK
    <3>2. Money' = Money
      BY <3>1 DEF Money, MoneyOf
    <3> QED
      BY <3>1, <3>2 DEF Lifecycle!vars
  <2> QED
    BY <2>1, <2>2, ReserveHolds, BindStutters, ConfirmDecides
       DEF Next, vars, ticket, stripe, EditPrice, ReadTicket, ReadSeat, Ask, AskAnswerLost, AskRefused, Die, Pay
<1> QED
  BY <1>1, <1>2, PaymentInvariance, PTL DEF Spec, ImplementsLifecycle, Lifecycle!Spec
=============================================================================
