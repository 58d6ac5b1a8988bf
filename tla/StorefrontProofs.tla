--------------------------- MODULE StorefrontProofs ---------------------------
(***************************************************************************)
(* Proofs about the booking page and the answers that feed it, for every   *)
(* number of seats, events, pages and runs of the page's effect.           *)
(***************************************************************************)
EXTENDS Storefront, FiniteSetTheorems, TLAPS

(* What a body of Bodies is.                                               *)
LEMMA BodyShape ==
    ASSUME NEW b \in Bodies
    PROVE  /\ b = [x \in DOMAIN b |-> b[x]]
           /\ \A x \in DOMAIN b : b[x] \in Statuses
           /\ DOMAIN b \in {SeatsOf(e) : e \in Events} \cup {{}}
<1>1. PICK S \in {SeatsOf(e) : e \in Events} \cup {{}} : b \in [S -> Statuses]
  BY DEF Bodies
<1> QED  BY <1>1

LEMMA BodyMade ==
    ASSUME NEW S \in {SeatsOf(e) : e \in Events} \cup {{}}, NEW b \in [S -> Statuses]
    PROVE  b \in Bodies
BY DEF Bodies

LEMMA NothingIsBody == Nothing \in Bodies /\ DOMAIN Nothing = {}
<1>1. Nothing \in [{} -> Statuses]  BY DEF Nothing
<1>2. {} \in {SeatsOf(e) : e \in Events} \cup {{}}  OBVIOUS
<1>3. Nothing \in Bodies  BY <1>1, <1>2, BodyMade
<1>4. DOMAIN Nothing = {}  BY DEF Nothing
<1> QED  BY <1>3, <1>4

(* The types of the parts that nest records in functions.                  *)
Fetches == [at : {"none", "due", "sent", "answered"}, event : Events \cup {NoEvent},
            body : Bodies, changed : SUBSET Seats]
Copies  == [body : Bodies, fresh : BOOLEAN, changed : SUBSET Seats]

LEMMA DueTyped == \A e \in Events \cup {NoEvent} : Due(e) \in Fetches /\ NoFetch \in Fetches
BY NothingIsBody DEF Due, NoFetch, Fetches

LEMMA OutdateTyped ==
    ASSUME TypeOK, NEW s \in Seats, Outdate(s)
    PROVE  stored' \in [Events -> Copies] /\ fetch' \in [Effects -> Fetches]
BY DEF TypeOK, Outdate, Copies, Fetches

LEMMA RestartTyped ==
    ASSUME TypeOK, NEW e \in Events \cup {NoEvent}, Restart(e)
    PROVE  /\ effect' \in 1..MaxEffects /\ eventId' \in Events \cup {NoEvent}
           /\ shown' \in Bodies /\ selected' \subseteq Seats
           /\ ready' \in BOOLEAN /\ message' \in BOOLEAN
           /\ fetch' \in [Effects -> Fetches]
<1>1. effect \in 1..MaxEffects /\ effect' = effect + 1 /\ effect < MaxEffects
  BY DEF TypeOK, Restart
<1>2. effect' \in 1..MaxEffects
  BY <1>1, StorefrontAssumption
<1>3. fetch \in [Effects -> Fetches]
  BY DEF TypeOK, Fetches
<1>4. fetch' \in [Effects -> Fetches]
  <2>1. Due(e) \in Fetches  BY DueTyped
  <2> QED  BY <1>3, <2>1 DEF Restart
<1> QED  BY <1>2, <1>4, NothingIsBody DEF Restart

(* A refresh that is not over asks for the seats of an event.              *)
RefreshOfEvent == \A n \in Effects : fetch[n].at # "none" => fetch[n].event \in Events

LEMMA TypesStart == Init => TypeOK
<1> SUFFICES ASSUME Init PROVE TypeOK
  OBVIOUS
<1>1. fetch \in [Effects -> Fetches]
  BY DueTyped, StorefrontAssumption DEF Init, Events, NoEvent
<1>2. stored \in [Events -> Copies]
  BY NothingIsBody DEF Init, Copies
<1>3. eventId \in Events \cup {NoEvent}
  BY StorefrontAssumption DEF Init, Events, NoEvent
<1>4. effect \in 1..MaxEffects /\ passed \in 0..MaxPassed
  BY StorefrontAssumption DEF Init
<1> QED
  BY <1>1, <1>2, <1>3, <1>4, NothingIsBody
  DEF Init, TypeOK, Statuses, NewLoad, NoLoad, NoSeat, Fetches, Copies

LEMMA TypesKept == TypeOK /\ RefreshOfEvent /\ [Next]_vars => TypeOK'
<1> SUFFICES ASSUME TypeOK, RefreshOfEvent, [Next]_vars PROVE TypeOK'
  OBVIOUS
<1>f. fetch \in [Effects -> Fetches]  BY DEF TypeOK, Fetches
<1>s. stored \in [Events -> Copies]  BY DEF TypeOK, Copies
<1>1. ASSUME NEW s \in Seats, SeatChanges(s) PROVE TypeOK'
  BY <1>1, OutdateTyped DEF SeatChanges, TypeOK, Statuses, page, book, Fetches, Copies
<1>2. ASSUME NEW s \in Seats, Toggle(s) PROVE TypeOK'
  BY <1>2 DEF Toggle, TypeOK, server, book
<1>3. ASSUME NEW s \in Seats, Grant(s) PROVE TypeOK'
  BY <1>3, OutdateTyped DEF Grant, TypeOK, Statuses, page, Fetches, Copies
<1>4. ASSUME NEW s \in Seats, Replay(s) \/ Decline(s) PROVE TypeOK'
  BY <1>4 DEF Replay, Decline, TypeOK, server, page
<1>5. ASSUME NEW s \in Seats, Told(s) PROVE TypeOK'
  <2>1. shown' \in Bodies
    <3>1. CASE asked.to = "accepted"
      <4>1. shown \in Bodies  BY DEF TypeOK
      <4>2. shown' \in [DOMAIN shown -> Statuses]
        BY <1>5, <3>1, <4>1, BodyShape DEF Told, Statuses
      <4> QED  BY <4>1, <4>2, BodyShape, BodyMade
    <3>2. CASE asked.to # "accepted"
      BY <1>5, <3>2 DEF Told, TypeOK
    <3> QED  BY <3>1, <3>2
  <2>2. selected' \subseteq Seats /\ queue' \subseteq Seats
    BY <1>5 DEF Told, TypeOK
  <2> QED  BY <1>5, <2>1, <2>2 DEF Told, TypeOK, server, NoSeat
<1>6. CASE EventPasses
  <2>1. passed' \in 0..MaxPassed
    BY <1>6, StorefrontAssumption DEF EventPasses, TypeOK
  <2> QED  BY <1>6, <2>1 DEF EventPasses, TypeOK, page, book
<1>7. ASSUME NEW e \in Events, CacheAges(e) PROVE TypeOK'
  <2>1. stored' \in [Events -> Copies]
    BY <1>7, <1>s DEF CacheAges, Copies
  <2>2. UNCHANGED <<server, page, fetch, load, book>>
    BY <1>7 DEF CacheAges
  <2> QED  BY <2>1, <2>2 DEF TypeOK, server, page, book, Copies
<1>8. ASSUME NEW e \in Events, PickEvent(e) PROVE TypeOK'
  BY <1>8, RestartTyped DEF PickEvent, TypeOK, server, book, Fetches
<1>9. CASE Reload
  <2>1. eventId \in Events \cup {NoEvent}  BY DEF TypeOK
  <2>2. Restart(eventId)  BY <1>9 DEF Reload
  <2> QED  BY <1>9, <2>1, <2>2, RestartTyped DEF Reload, TypeOK, server, book, Fetches, NewLoad, NoLoad
<1>10. CASE LoadPage
  <2>1. Firsts(PageRows(load.cursor)) \subseteq PageRows(load.cursor)
    BY DEF Firsts
  <2>2. PageRows(load.cursor) \subseteq Events
    BY StorefrontAssumption DEF PageRows, Upcoming, Events, TypeOK
  <2>3. load' \in [on : BOOLEAN, cursor : Events \cup {NoEvent},
                   collected : SUBSET Events, disturbed : BOOLEAN]
    BY <1>10, <2>1, <2>2 DEF LoadPage, TypeOK
  <2> QED  BY <1>10, <2>3 DEF LoadPage, TypeOK, server, page, book
<1>11. CASE LoadEnds
  <2>1. PageRows(load.cursor) \subseteq Events
    BY StorefrontAssumption DEF PageRows, Upcoming, Events, TypeOK
  <2>2. listed' \subseteq Events
    BY <1>11, <2>1 DEF LoadEnds, TypeOK
  <2>3. /\ effect' \in 1..MaxEffects /\ eventId' \in Events \cup {NoEvent}
        /\ shown' \in Bodies /\ selected' \subseteq Seats
        /\ ready' \in BOOLEAN /\ message' \in BOOLEAN
        /\ fetch' \in [Effects -> Fetches]
    <3>1. CASE UNCHANGED <<eventId, shown, selected, ready, message, effect, fetch>>
      BY <3>1, <1>f DEF TypeOK
    <3>2. CASE \E e \in listed' \cup {NoEvent} : Restart(e)
      BY <3>2, <2>2, RestartTyped
    <3> QED  BY <1>11, <3>1, <3>2 DEF LoadEnds
  <2> QED  BY <1>11, <2>2, <2>3 DEF LoadEnds, TypeOK, server, book, NoLoad, Fetches
<1>12. CASE LoadFails
  BY <1>12 DEF LoadFails, TypeOK, server, page, book, NoLoad
<1>13. ASSUME NEW n \in Effects, Send(n) PROVE TypeOK'
  <2> DEFINE e == fetch[n].event
  <2>1. e \in Events  BY <1>13 DEF Send, RefreshOfEvent
  <2>2. stored[e] \in Copies  BY <1>s, <2>1
  <2>3. fetch' \in [Effects -> Fetches]
    <3>1. CASE stored[e].fresh
      <4>1. fetch' = [fetch EXCEPT ![n] = [@ EXCEPT !.at = "answered", !.body = stored[e].body,
                                                   !.changed = stored[e].changed]]
        BY <1>13, <3>1 DEF Send
      <4> QED  BY <4>1, <1>f, <2>2 DEF Fetches, Copies
    <3>2. CASE ~stored[e].fresh
      <4>1. fetch' = [fetch EXCEPT ![n] = [@ EXCEPT !.at = "sent", !.changed = {}]]
        BY <1>13, <3>2 DEF Send
      <4> QED  BY <4>1, <1>f DEF Fetches
    <3> QED  BY <3>1, <3>2
  <2> QED  BY <1>13, <2>3 DEF Send, TypeOK, server, page, book, Fetches
<1>14. ASSUME NEW n \in Effects, Respond(n) PROVE TypeOK'
  <2> DEFINE e == fetch[n].event
             now == [s \in SeatsOf(e) |-> row[s]]
  <2>1. e \in Events  BY <1>14 DEF Respond, RefreshOfEvent
  <2>2. now \in Bodies
    <3>1. now \in [SeatsOf(e) -> Statuses]  BY DEF TypeOK, SeatsOf
    <3> HIDE DEF now, e
    <3>2. SeatsOf(e) \in {SeatsOf(f) : f \in Events} \cup {{}}  BY <2>1
    <3> QED  BY <3>1, <3>2, BodyMade
  <2>3. fetch' = [fetch EXCEPT ![n].at = "answered", ![n].body = now]
    BY <1>14 DEF Respond, SameEtag
  <2>4. stored' = [stored EXCEPT ![e] = [body |-> now, fresh |-> TRUE, changed |-> fetch[n].changed]]
    BY <1>14 DEF Respond, SameEtag
  <2> HIDE DEF now, e
  <2>5. fetch' \in [Effects -> Fetches]
    <3>1. fetch[n] \in Fetches  BY <1>f
    <3> DEFINE g == [fetch[n] EXCEPT !.at = "answered", !.body = now]
    <3>2. g \in Fetches  BY <2>2, <3>1 DEF Fetches
    <3>3. fetch' = [fetch EXCEPT ![n] = g]  BY <2>3, <1>f, <3>1 DEF Fetches
    <3> HIDE DEF g
    <3> QED  BY <3>2, <3>3, <1>f
  <2>6. stored' \in [Events -> Copies]  BY <2>1, <2>2, <2>4, <1>f, <1>s DEF Fetches, Copies
  <2> QED  BY <1>14, <2>5, <2>6 DEF Respond, TypeOK, server, page, book, Fetches, Copies
<1>a. \A n \in Effects : Again(n) => fetch' \in [Effects -> Fetches]
  <2>1. \A n \in Effects : Due(fetch[n].event) \in Fetches /\ NoFetch \in Fetches
    BY <1>f, DueTyped DEF Fetches
  <2> QED  BY <1>f, <2>1 DEF Again
<1>15. ASSUME NEW n \in Effects, Deliver(n) PROVE TypeOK'
  <2>0. fetch[n].body \in Bodies  BY <1>f DEF Fetches
  <2>1. shown' \in Bodies /\ selected' \subseteq Seats /\ ready' \in BOOLEAN
    <3>1. CASE Active(n)
      <4>1. shown' = fetch[n].body /\ selected' \subseteq selected /\ ready' = TRUE
        BY <1>15, <3>1 DEF Deliver
      <4> QED  BY <4>1, <2>0 DEF TypeOK
    <3>2. CASE ~Active(n)
      BY <1>15, <3>2 DEF Deliver, TypeOK
    <3> QED  BY <3>1, <3>2
  <2> QED  BY <1>15, <1>a, <2>1 DEF Deliver, TypeOK, server, book, Fetches
<1>16. ASSUME NEW n \in Effects, RefreshFails(n) PROVE TypeOK'
  <2>1. selected' \subseteq Seats /\ ready' \in BOOLEAN
    BY <1>16 DEF RefreshFails, TypeOK
  <2> QED  BY <1>16, <1>a, <2>1 DEF RefreshFails, Retry, TypeOK, server, book, Fetches
<1>17. CASE Reserve
  BY <1>17 DEF Reserve, TypeOK, server, page
<1>18. CASE UNCHANGED vars
  BY <1>18 DEF TypeOK, vars, server, page, book
<1> QED
  BY <1>1, <1>2, <1>3, <1>4, <1>5, <1>6, <1>7, <1>8, <1>9, <1>10, <1>11, <1>12,
     <1>13, <1>14, <1>15, <1>16, <1>17, <1>18 DEF Next

-----------------------------------------------------------------------------
(* What the page shows.                                                    *)

(* Effects that have not run have no refresh; the active one asks for the  *)
(* selected event; a body is about the event it was asked for.             *)
PageInv ==
    /\ \A n \in Effects : n > effect => fetch[n] = NoFetch
    /\ fetch[effect].at # "none" => fetch[effect].event = eventId
    /\ \A n \in Effects : DOMAIN fetch[n].body \subseteq SeatsOf(fetch[n].event)
    /\ \A e \in Events : DOMAIN stored[e].body \subseteq SeatsOf(e)
    /\ RefreshOfEvent
    /\ SelectionShown

LEMMA PageStart == Init => PageInv
<1> SUFFICES ASSUME Init PROVE PageInv
  OBVIOUS
<1>1. 1 \in Effects /\ effect = 1
  BY StorefrontAssumption DEF Init, Effects
<1>2. /\ \A n \in Effects : n > 1 => fetch[n] = NoFetch
      /\ \A n \in Effects : DOMAIN fetch[n].body = {}
      /\ \A n \in Effects : fetch[n].at # "none" => fetch[n].event = InitialEvent /\ InitialEvent # NoEvent
  BY NothingIsBody DEF Init, Due, NoFetch
<1>3. InitialEvent # NoEvent => InitialEvent \in Events
  BY StorefrontAssumption DEF Events, NoEvent
<1>4. \A n \in Effects : n > effect => fetch[n] = NoFetch
  BY <1>1, <1>2
<1>5. fetch[effect].at # "none" => fetch[effect].event = eventId
  BY <1>1, <1>2 DEF Init
<1>6. \A e \in Events : DOMAIN stored[e].body = {}
  BY NothingIsBody DEF Init
<1>7. SelectionShown
  BY NothingIsBody DEF Init, SelectionShown
<1>8. RefreshOfEvent
  BY <1>2, <1>3 DEF RefreshOfEvent
<1> QED
  BY <1>2, <1>4, <1>5, <1>6, <1>7, <1>8 DEF PageInv

LEMMA EmptyFetches ==
    /\ NoFetch.at = "none" /\ DOMAIN NoFetch.body = {}
    /\ \A e \in Events \cup {NoEvent} : Due(e).event = e /\ DOMAIN Due(e).body = {}
BY NothingIsBody DEF Due, NoFetch

LEMMA RestartKeepsPage ==
    ASSUME TypeOK, PageInv, NEW e \in Events \cup {NoEvent}, Restart(e), UNCHANGED stored
    PROVE  PageInv'
<1>1. /\ effect \in Effects /\ effect' \in Effects /\ effect' = effect + 1
      /\ effect \in Int /\ \A n \in Effects : n \in Int
  BY StorefrontAssumption DEF TypeOK, Restart, Effects
<1>2. fetch \in [Effects -> Fetches] /\ fetch[effect'] = NoFetch
  BY <1>1 DEF TypeOK, Fetches, PageInv
<1>3. /\ \A n \in Effects : n # effect' => fetch'[n] = fetch[n]
      /\ e = NoEvent => fetch'[effect'] = NoFetch
      /\ e # NoEvent => fetch'[effect'] = Due(e)
  BY <1>1, <1>2 DEF Restart
<1>5. \A n \in Effects : n > effect' => fetch'[n] = NoFetch
  <2>1. \A n \in Effects : n > effect' => n > effect /\ n # effect'
    BY <1>1
  <2> QED  BY <1>3, <2>1 DEF PageInv
<1>6. fetch'[effect'].at # "none" => fetch'[effect'].event = eventId'
  BY <1>3, EmptyFetches DEF Restart
<1>7. \A n \in Effects : DOMAIN fetch'[n].body \subseteq SeatsOf(fetch'[n].event)
  <2> SUFFICES ASSUME NEW n \in Effects
               PROVE  DOMAIN fetch'[n].body \subseteq SeatsOf(fetch'[n].event)
    OBVIOUS
  <2>1. CASE n # effect'
    BY <1>3, <2>1 DEF PageInv
  <2>2. CASE n = effect'
    <3>1. DOMAIN fetch'[n].body = {}  BY <1>3, <2>2, EmptyFetches
    <3> QED  BY <3>1
  <2> QED  BY <2>1, <2>2
<1>8. \A n \in Effects : fetch'[n].at # "none" => fetch'[n].event \in Events
  BY <1>3, EmptyFetches DEF PageInv, RefreshOfEvent
<1>9. SelectionShown'
  BY NothingIsBody DEF Restart, SelectionShown
<1> QED  BY <1>5, <1>6, <1>7, <1>8, <1>9 DEF PageInv, RefreshOfEvent

LEMMA AgainKeepsPage ==
    ASSUME TypeOK, PageInv, NEW n \in Effects, Again(n), fetch[n].at # "none",
           UNCHANGED <<stored, effect, eventId>>, SelectionShown'
    PROVE  PageInv'
<1>1. fetch \in [Effects -> Fetches] /\ effect \in Effects
  BY DEF TypeOK, Fetches, Effects
<1>2. fetch[n].event \in Events
  BY DEF PageInv, RefreshOfEvent
<1>3. /\ \A m \in Effects : m # n => fetch'[m] = fetch[m]
      /\ n # effect => fetch'[n] = NoFetch
      /\ n = effect => fetch'[n] = Due(fetch[n].event)
  BY <1>1 DEF Again
<1>4. \A m \in Effects : m > effect => fetch'[m] = NoFetch
  <2>1. ~(effect > effect)  BY <1>1, StorefrontAssumption DEF Effects
  <2> QED  BY <1>3, <2>1 DEF PageInv
<1>5. fetch'[effect].at # "none" => fetch'[effect].event = eventId
  BY <1>1, <1>2, <1>3, EmptyFetches DEF PageInv
<1>6. \A m \in Effects : DOMAIN fetch'[m].body \subseteq SeatsOf(fetch'[m].event)
  <2> SUFFICES ASSUME NEW m \in Effects
               PROVE  DOMAIN fetch'[m].body \subseteq SeatsOf(fetch'[m].event)
    OBVIOUS
  <2>1. CASE m # n
    BY <1>3, <2>1 DEF PageInv
  <2>2. CASE m = n
    <3>1. DOMAIN fetch'[m].body = {}  BY <1>2, <1>3, <2>2, EmptyFetches
    <3> QED  BY <3>1
  <2> QED  BY <2>1, <2>2
<1>7. \A m \in Effects : fetch'[m].at # "none" => fetch'[m].event \in Events
  BY <1>2, <1>3, EmptyFetches DEF PageInv, RefreshOfEvent
<1> QED  BY <1>4, <1>5, <1>6, <1>7 DEF PageInv, RefreshOfEvent

(* Steps that leave the page, the events of the refreshes and what they    *)
(* hold as they are, but for the seats that have changed.                  *)
LEMMA FrameKeepsPage ==
    ASSUME PageInv, UNCHANGED page,
           \A n \in Effects : /\ fetch'[n].body = fetch[n].body
                              /\ fetch'[n].event = fetch[n].event
                              /\ fetch'[n].at = fetch[n].at
                              /\ fetch[n] = NoFetch => fetch'[n] = NoFetch,
           \A e \in Events : stored'[e].body = stored[e].body,
           effect \in Effects
    PROVE  PageInv'
<1>1. /\ \A n \in Effects : n > effect' => fetch'[n] = NoFetch
      /\ fetch'[effect'].at # "none" => fetch'[effect'].event = eventId'
  BY DEF PageInv, page
<1>2. /\ \A n \in Effects : DOMAIN fetch'[n].body \subseteq SeatsOf(fetch'[n].event)
      /\ \A e \in Events : DOMAIN stored'[e].body \subseteq SeatsOf(e)
  BY DEF PageInv
<1>3. \A n \in Effects : fetch'[n].at # "none" => fetch'[n].event \in Events
  BY DEF PageInv, RefreshOfEvent
<1>4. SelectionShown'
  BY DEF PageInv, SelectionShown, page
<1> QED  BY <1>1, <1>2, <1>3, <1>4 DEF PageInv, RefreshOfEvent

LEMMA OutdateFrame ==
    ASSUME TypeOK, NEW s \in Seats, Outdate(s)
    PROVE  /\ \A n \in Effects : /\ fetch'[n].body = fetch[n].body
                                 /\ fetch'[n].event = fetch[n].event
                                 /\ fetch'[n].at = fetch[n].at
                                 /\ fetch[n] = NoFetch => fetch'[n] = NoFetch
           /\ \A e \in Events : /\ stored'[e].body = stored[e].body
                                /\ stored'[e].fresh = stored[e].fresh
<1>1. fetch \in [Effects -> Fetches] /\ stored \in [Events -> Copies]
  BY DEF TypeOK, Fetches, Copies
<1>2. ASSUME NEW n \in Effects
      PROVE  /\ fetch'[n].body = fetch[n].body /\ fetch'[n].event = fetch[n].event
             /\ fetch'[n].at = fetch[n].at
             /\ fetch[n] = NoFetch => fetch'[n] = NoFetch
  <2>1. fetch[n] \in Fetches  BY <1>1
  <2>2. fetch'[n] = IF fetch[n].at \in {"sent", "answered"} /\ fetch[n].event = EventOf[s]
                    THEN [fetch[n] EXCEPT !.changed = @ \cup {s}] ELSE fetch[n]
    BY DEF Outdate
  <2>3. NoFetch.at = "none"  BY DEF NoFetch
  <2> QED  BY <2>1, <2>2, <2>3 DEF Fetches
<1>3. ASSUME NEW e \in Events
      PROVE  stored'[e].body = stored[e].body /\ stored'[e].fresh = stored[e].fresh
  <2>1. stored[e] \in Copies  BY <1>1
  <2>2. stored'[e] = IF stored[e].fresh /\ e = EventOf[s]
                     THEN [stored[e] EXCEPT !.changed = @ \cup {s}] ELSE stored[e]
    BY DEF Outdate
  <2> QED  BY <2>1, <2>2 DEF Copies
<1> QED  BY <1>2, <1>3

(* One refresh moves: what it holds and its event decide.                  *)
LEMMA OneMoves ==
    ASSUME TypeOK, PageInv, UNCHANGED page, NEW n \in Effects, NEW g,
           fetch' = [fetch EXCEPT ![n] = g],
           fetch[n].at # "none", g.at # "none", g.event = fetch[n].event,
           DOMAIN g.body \subseteq SeatsOf(g.event),
           \A e \in Events : DOMAIN stored'[e].body \subseteq SeatsOf(e)
    PROVE  PageInv'
<1>1. fetch \in [Effects -> Fetches] /\ effect \in Effects
  BY DEF TypeOK, Fetches, Effects
<1>2. fetch'[n] = g /\ \A m \in Effects : m # n => fetch'[m] = fetch[m]
  BY <1>1
<1>3. fetch[n] # NoFetch  BY DEF NoFetch
<1>4. \A m \in Effects : m > effect' => fetch'[m] = NoFetch
  BY <1>2, <1>3 DEF PageInv, page
<1>5. fetch'[effect'].at # "none" => fetch'[effect'].event = eventId'
  BY <1>1, <1>2 DEF PageInv, page
<1>6. \A m \in Effects : DOMAIN fetch'[m].body \subseteq SeatsOf(fetch'[m].event)
  BY <1>2 DEF PageInv
<1>7. \A m \in Effects : fetch'[m].at # "none" => fetch'[m].event \in Events
  BY <1>2 DEF PageInv, RefreshOfEvent
<1>8. SelectionShown'
  BY DEF PageInv, SelectionShown, page
<1> QED  BY <1>4, <1>5, <1>6, <1>7, <1>8 DEF PageInv, RefreshOfEvent

LEMMA ChoiceKeepsPage ==
    ASSUME PageInv, UNCHANGED <<stored, fetch, effect, eventId>>, SelectionShown'
    PROVE  PageInv'
BY DEF PageInv, RefreshOfEvent

(* The three moves of a refresh that leave the page alone.                 *)
LEMMA SendRecord ==
    ASSUME TypeOK, PageInv, NEW n \in Effects, Send(n)
    PROVE  \E g \in Fetches :
              /\ fetch' = [fetch EXCEPT ![n] = g] /\ g.event = fetch[n].event
              /\ fetch[n].event \in Events /\ stored[g.event] \in Copies
              /\ \/ /\ stored[g.event].fresh /\ g.at = "answered"
                    /\ g.body = stored[g.event].body /\ g.changed = stored[g.event].changed
                 \/ /\ g.at = "sent" /\ g.body = fetch[n].body
<1> DEFINE e == fetch[n].event
<1>1. fetch[n] \in Fetches /\ e \in Events /\ stored[e] \in Copies
  BY DEF TypeOK, Fetches, Copies, PageInv, RefreshOfEvent, Send
<1>2. CASE stored[e].fresh
  <2> DEFINE g == [fetch[n] EXCEPT !.at = "answered", !.body = stored[e].body, !.changed = stored[e].changed]
  <2>1. g \in Fetches  BY <1>1 DEF Fetches, Copies
  <2>2. fetch' = [fetch EXCEPT ![n] = g]  BY <1>2 DEF Send
  <2>3. g.event = e /\ g.at = "answered" /\ g.body = stored[e].body /\ g.changed = stored[e].changed
    BY <1>1 DEF Fetches
  <2> HIDE DEF g
  <2> QED  BY <1>1, <1>2, <2>1, <2>2, <2>3
<1>3. CASE ~stored[e].fresh
  <2> DEFINE g == [fetch[n] EXCEPT !.at = "sent", !.changed = {}]
  <2>1. g \in Fetches  BY <1>1 DEF Fetches
  <2>2. fetch' = [fetch EXCEPT ![n] = g]  BY <1>3 DEF Send
  <2>3. g.event = e /\ g.at = "sent" /\ g.body = fetch[n].body
    BY <1>1 DEF Fetches
  <2> HIDE DEF g
  <2> QED  BY <1>1, <1>3, <2>1, <2>2, <2>3
<1> QED  BY <1>2, <1>3

LEMMA RespondRecord ==
    ASSUME TypeOK, PageInv, NEW n \in Effects, Respond(n)
    PROVE  \E g \in Fetches :
              /\ fetch' = [fetch EXCEPT ![n] = g] /\ g.event = fetch[n].event
              /\ g.event \in Events /\ g.at = "answered"
              /\ g.body = [s \in SeatsOf(g.event) |-> row[s]] /\ g.changed = fetch[n].changed
              /\ stored' = [stored EXCEPT ![g.event] =
                              [body |-> g.body, fresh |-> TRUE, changed |-> g.changed]]
<1> DEFINE e   == fetch[n].event
           now == [s \in SeatsOf(e) |-> row[s]]
           g   == [fetch[n] EXCEPT !.at = "answered", !.body = now]
<1>1. fetch[n] \in Fetches /\ e \in Events
  BY DEF TypeOK, Fetches, PageInv, RefreshOfEvent, Respond
<1>2. now \in Bodies
  <2>1. now \in [SeatsOf(e) -> Statuses]  BY DEF TypeOK, SeatsOf
  <2> HIDE DEF now, e
  <2>2. SeatsOf(e) \in {SeatsOf(f) : f \in Events} \cup {{}}  BY <1>1
  <2> QED  BY <2>1, <2>2, BodyMade
<1>3. fetch' = [fetch EXCEPT ![n].at = "answered", ![n].body = now]
  BY DEF Respond, SameEtag
<1>4. stored' = [stored EXCEPT ![e] = [body |-> now, fresh |-> TRUE, changed |-> fetch[n].changed]]
  BY DEF Respond, SameEtag
<1>5. g \in Fetches /\ g.event = e /\ g.at = "answered" /\ g.body = now /\ g.changed = fetch[n].changed
  <2> HIDE DEF now, e
  <2> QED  BY <1>1, <1>2 DEF Fetches, e
<1>6. fetch' = [fetch EXCEPT ![n] = g]
  BY <1>3 DEF TypeOK
<1> HIDE DEF g
<1>7. g.body = [s \in SeatsOf(g.event) |-> row[s]]  BY <1>5
<1>8. stored' = [stored EXCEPT ![g.event] = [body |-> g.body, fresh |-> TRUE, changed |-> g.changed]]
  BY <1>4, <1>5
<1> QED  BY <1>1, <1>5, <1>6, <1>7, <1>8

LEMMA PageKept == TypeOK /\ PageInv /\ [Next]_vars => PageInv'
<1> SUFFICES ASSUME TypeOK, PageInv, [Next]_vars PROVE PageInv'
  OBVIOUS
<1>e. effect \in Effects  BY DEF TypeOK, Effects
<1>1. ASSUME NEW s \in Seats, SeatChanges(s) \/ Grant(s) PROVE PageInv'
  <2>1. Outdate(s) /\ UNCHANGED page  BY <1>1 DEF SeatChanges, Grant
  <2> QED  BY <2>1, <1>e, OutdateFrame, FrameKeepsPage
<1>2. ASSUME NEW s \in Seats, Toggle(s) PROVE PageInv'
  <2>1. SelectionShown'  BY <1>2 DEF Toggle, PageInv, SelectionShown
  <2> QED  BY <1>2, <2>1, ChoiceKeepsPage DEF Toggle
<1>3. ASSUME NEW s \in Seats, Told(s) PROVE PageInv'
  <2>1. SelectionShown'  BY <1>3 DEF Told, PageInv, SelectionShown
  <2> QED  BY <1>3, <2>1, ChoiceKeepsPage DEF Told
<1>4. ASSUME UNCHANGED <<stored, fetch, page>> PROVE PageInv'
  BY <1>4 DEF PageInv, RefreshOfEvent, SelectionShown, page
<1>5. ASSUME NEW e \in Events, CacheAges(e) PROVE PageInv'
  <2>1. stored \in [Events -> Copies]  BY DEF TypeOK, Copies
  <2>2. \A f \in Events : stored'[f].body = stored[f].body
    BY <1>5, <2>1 DEF CacheAges, Copies
  <2> QED  BY <1>5, <1>e, <2>2, FrameKeepsPage DEF CacheAges
<1>6. ASSUME NEW e \in Events, PickEvent(e) PROVE PageInv'
  BY <1>6, RestartKeepsPage DEF PickEvent
<1>7. CASE Reload
  <2>1. eventId \in Events \cup {NoEvent}  BY DEF TypeOK
  <2>2. Restart(eventId) /\ UNCHANGED stored  BY <1>7 DEF Reload
  <2> QED  BY <2>1, <2>2, RestartKeepsPage
<1>8. CASE LoadEnds
  <2>1. listed' \subseteq Events
    <3>1. PageRows(load.cursor) \subseteq Events
      BY StorefrontAssumption DEF PageRows, Upcoming, Events, TypeOK
    <3> QED  BY <1>8, <3>1 DEF LoadEnds, TypeOK
  <2>2. UNCHANGED stored  BY <1>8 DEF LoadEnds
  <2>3. CASE UNCHANGED <<eventId, shown, selected, ready, effect, fetch>>
    BY <2>2, <2>3 DEF PageInv, RefreshOfEvent, SelectionShown
  <2>4. CASE \E e \in Events \cup {NoEvent} : Restart(e)
    BY <2>2, <2>4, RestartKeepsPage
  <2> QED  BY <1>8, <2>1, <2>3, <2>4 DEF LoadEnds
<1>9. ASSUME NEW n \in Effects, Send(n) PROVE PageInv'
  <2>1. PICK g \in Fetches :
           /\ fetch' = [fetch EXCEPT ![n] = g] /\ g.event = fetch[n].event
           /\ fetch[n].event \in Events /\ stored[g.event] \in Copies
           /\ \/ stored[g.event].fresh /\ g.at = "answered" /\ g.body = stored[g.event].body
              \/ g.at = "sent" /\ g.body = fetch[n].body
    BY <1>9, SendRecord
  <2>2. DOMAIN g.body \subseteq SeatsOf(g.event) /\ g.at # "none"
    BY <2>1 DEF PageInv
  <2>3. fetch[n].at # "none" /\ UNCHANGED <<stored, page>>  BY <1>9 DEF Send
  <2>4. \A e \in Events : DOMAIN stored'[e].body \subseteq SeatsOf(e)
    BY <2>3 DEF PageInv
  <2> QED  BY <2>1, <2>2, <2>3, <2>4, OneMoves
<1>10. ASSUME NEW n \in Effects, Respond(n) PROVE PageInv'
  <2>1. PICK g \in Fetches :
           /\ fetch' = [fetch EXCEPT ![n] = g] /\ g.event = fetch[n].event
           /\ g.event \in Events /\ g.at = "answered"
           /\ g.body = [s \in SeatsOf(g.event) |-> row[s]] /\ g.changed = fetch[n].changed
           /\ stored' = [stored EXCEPT ![g.event] =
                           [body |-> g.body, fresh |-> TRUE, changed |-> g.changed]]
    BY <1>10, RespondRecord
  <2>2. DOMAIN g.body \subseteq SeatsOf(g.event)  BY <2>1
  <2>3. fetch[n].at # "none" /\ UNCHANGED page  BY <1>10 DEF Respond
  <2>4. ASSUME NEW e \in Events PROVE DOMAIN stored'[e].body \subseteq SeatsOf(e)
    <3>1. stored \in [Events -> Copies]  BY DEF TypeOK, Copies
    <3>2. CASE e = g.event
      <4>1. stored'[e].body = g.body  BY <2>1, <3>1, <3>2
      <4> QED  BY <2>2, <3>2, <4>1
    <3>3. CASE e # g.event
      <4>1. stored'[e] = stored[e]  BY <2>1, <3>1, <3>3
      <4> QED  BY <4>1 DEF PageInv
    <3> QED  BY <3>2, <3>3
  <2> QED  BY <2>1, <2>2, <2>3, <2>4, OneMoves
<1>11. ASSUME NEW n \in Effects, Deliver(n) PROVE PageInv'
  <2>1. SelectionShown'
    <3>1. CASE n = effect
      <4>1. /\ shown' = fetch[n].body /\ eventId' = eventId
            /\ selected' = {s \in selected \cap DOMAIN shown' : shown'[s] = "available"}
        BY <1>11, <3>1 DEF Deliver, Active
      <4>2. DOMAIN fetch[n].body \subseteq SeatsOf(eventId)
        BY <1>11, <3>1 DEF Deliver, PageInv
      <4> QED  BY <4>1, <4>2 DEF SelectionShown
    <3>2. CASE n # effect
      BY <1>11, <3>2 DEF Deliver, Active, PageInv, SelectionShown
    <3> QED  BY <3>1, <3>2
  <2> QED  BY <1>11, <2>1, AgainKeepsPage DEF Deliver
<1>12. ASSUME NEW n \in Effects, RefreshFails(n) PROVE PageInv'
  <2>1. SelectionShown'  BY <1>12 DEF RefreshFails, PageInv, SelectionShown
  <2> QED  BY <1>12, <2>1, AgainKeepsPage DEF RefreshFails, Retry
<1>13. ASSUME \/ EventPasses \/ LoadPage \/ Reserve
              \/ \E s \in Seats : Replay(s) \/ Decline(s)
              \/ UNCHANGED vars
       PROVE  UNCHANGED <<stored, fetch, page>>
  BY <1>13 DEF EventPasses, LoadPage, Reserve, Replay, Decline, vars
<1>14. CASE LoadFails
  BY <1>14 DEF LoadFails, PageInv, RefreshOfEvent, SelectionShown
<1> QED
  BY <1>1, <1>2, <1>3, <1>4, <1>5, <1>6, <1>7, <1>8, <1>9, <1>10, <1>11, <1>12, <1>13, <1>14 DEF Next

-----------------------------------------------------------------------------
(* What the answers tell.                                                  *)

AnswersInv ==
    /\ AnswersTrue
    /\ \A e \in Events : stored[e].fresh =>
          \A s \in DOMAIN stored[e].body \ stored[e].changed : stored[e].body[s] = row[s]

LEMMA AnswersStart == Init => AnswersInv
BY NothingIsBody DEF Init, AnswersInv, AnswersTrue, Due, NoFetch

(* A seat that changes is a changed seat of every answer about it.         *)
LEMMA OutdateKeepsAnswers ==
    ASSUME TypeOK, PageInv, AnswersInv, NEW s \in Seats, Outdate(s),
           \A x \in Seats : x # s => row'[x] = row[x]
    PROVE  AnswersInv'
<1>1. fetch \in [Effects -> Fetches] /\ stored \in [Events -> Copies]
  BY DEF TypeOK, Fetches, Copies
<1>s. \A e \in Events \cup {NoEvent} : SeatsOf(e) \subseteq Seats /\ (s \in SeatsOf(e) => e = EventOf[s])
  BY DEF SeatsOf
<1>2. ASSUME NEW n \in Effects, fetch'[n].at = "answered",
             NEW x \in DOMAIN fetch'[n].body \ fetch'[n].changed
      PROVE  fetch'[n].body[x] = row'[x]
  <2>1. fetch[n] \in Fetches  BY <1>1
  <2>2. fetch'[n] = IF fetch[n].at \in {"sent", "answered"} /\ fetch[n].event = EventOf[s]
                    THEN [fetch[n] EXCEPT !.changed = @ \cup {s}] ELSE fetch[n]
    BY DEF Outdate
  <2>3. /\ fetch[n].at = "answered" /\ fetch'[n].body = fetch[n].body
        /\ fetch[n].changed \subseteq fetch'[n].changed
        /\ fetch[n].event = EventOf[s] => s \in fetch'[n].changed
    BY <1>2, <2>1, <2>2 DEF Fetches
  <2>4. x \in SeatsOf(fetch[n].event)  BY <1>2, <2>3 DEF PageInv
  <2>5. x # s /\ x \in Seats
    BY <1>2, <1>s, <2>1, <2>3, <2>4 DEF Fetches
  <2> QED  BY <1>2, <2>3, <2>5 DEF AnswersInv, AnswersTrue
<1>3. ASSUME NEW e \in Events, stored'[e].fresh,
             NEW x \in DOMAIN stored'[e].body \ stored'[e].changed
      PROVE  stored'[e].body[x] = row'[x]
  <2>1. stored[e] \in Copies  BY <1>1
  <2>2. stored'[e] = IF stored[e].fresh /\ e = EventOf[s]
                     THEN [stored[e] EXCEPT !.changed = @ \cup {s}] ELSE stored[e]
    BY DEF Outdate
  <2>3. /\ stored[e].fresh /\ stored'[e].body = stored[e].body
        /\ stored[e].changed \subseteq stored'[e].changed
        /\ e = EventOf[s] => s \in stored'[e].changed
    BY <1>3, <2>1, <2>2 DEF Copies
  <2>4. x \in SeatsOf(e)  BY <1>3, <2>3 DEF PageInv
  <2>5. x # s /\ x \in Seats
    BY <1>3, <1>s, <2>3, <2>4
  <2> QED  BY <1>3, <2>3, <2>5 DEF AnswersInv
<1> QED  BY <1>2, <1>3 DEF AnswersInv, AnswersTrue

(* A refresh that holds nothing, or the truth, tells no lie.               *)
LEMMA OneAnswer ==
    ASSUME TypeOK, AnswersInv, UNCHANGED row, NEW n \in Effects, NEW g,
           fetch' = [fetch EXCEPT ![n] = g],
           g.at = "answered" => \A s \in DOMAIN g.body \ g.changed : g.body[s] = row[s],
           \A e \in Events : stored'[e].fresh =>
              \A s \in DOMAIN stored'[e].body \ stored'[e].changed : stored'[e].body[s] = row[s]
    PROVE  AnswersInv'
<1>1. fetch'[n] = g /\ \A m \in Effects : m # n => fetch'[m] = fetch[m]
  BY DEF TypeOK
<1>2. AnswersTrue'
  BY <1>1 DEF AnswersInv, AnswersTrue
<1> QED  BY <1>2 DEF AnswersInv

LEMMA RestartKeepsAnswers ==
    ASSUME TypeOK, AnswersInv, UNCHANGED <<row, stored>>, NEW e, Restart(e)
    PROVE  AnswersInv'
<1>1. Due(e).at = "due"  BY DEF Due, NoFetch
<1>2. effect + 1 \in Effects
  BY StorefrontAssumption DEF Restart, TypeOK, Effects
<1>3. CASE e = NoEvent
  BY <1>3 DEF Restart, AnswersInv, AnswersTrue
<1>4. CASE e # NoEvent
  <2>1. fetch' = [fetch EXCEPT ![effect + 1] = Due(e)]  BY <1>4 DEF Restart
  <2> HIDE DEF Due
  <2> QED  BY <1>1, <1>2, <2>1, OneAnswer DEF AnswersInv
<1> QED  BY <1>3, <1>4

LEMMA AgainKeepsAnswers ==
    ASSUME TypeOK, AnswersInv, UNCHANGED <<row, stored>>, NEW n \in Effects, Again(n)
    PROVE  AnswersInv'
<1>1. Due(fetch[n].event).at = "due" /\ NoFetch.at = "none"  BY DEF Due, NoFetch
<1>2. CASE n = effect
  <2>1. fetch' = [fetch EXCEPT ![n] = Due(fetch[n].event)]  BY <1>2 DEF Again
  <2> QED  BY <1>1, <2>1, OneAnswer DEF AnswersInv
<1>3. CASE n # effect
  <2>1. fetch' = [fetch EXCEPT ![n] = NoFetch]  BY <1>3 DEF Again
  <2> QED  BY <1>1, <2>1, OneAnswer DEF AnswersInv
<1> QED  BY <1>2, <1>3

LEMMA AnswersKept == TypeOK /\ PageInv /\ AnswersInv /\ [Next]_vars => AnswersInv'
<1> SUFFICES ASSUME TypeOK, PageInv, AnswersInv, [Next]_vars PROVE AnswersInv'
  OBVIOUS
<1>1. ASSUME NEW s \in Seats, SeatChanges(s) \/ Grant(s) PROVE AnswersInv'
  <2>1. Outdate(s)  BY <1>1 DEF SeatChanges, Grant
  <2>2. \A x \in Seats : x # s => row'[x] = row[x]
    BY <1>1 DEF SeatChanges, Grant, TypeOK
  <2> QED  BY <2>1, <2>2, OutdateKeepsAnswers
<1>2. ASSUME UNCHANGED <<row, stored, fetch>> PROVE AnswersInv'
  BY <1>2 DEF AnswersInv, AnswersTrue
<1>3. ASSUME NEW e \in Events, CacheAges(e) PROVE AnswersInv'
  <2>1. \A f \in Events : stored'[f].fresh => stored'[f] = stored[f]
    BY <1>3 DEF CacheAges, TypeOK
  <2>2. UNCHANGED <<row, fetch>>  BY <1>3 DEF CacheAges, server
  <2> QED  BY <2>1, <2>2 DEF AnswersInv, AnswersTrue
<1>4. ASSUME NEW e \in Events \cup {NoEvent}, Restart(e), UNCHANGED <<row, stored>> PROVE AnswersInv'
  BY <1>4, RestartKeepsAnswers
<1>5. ASSUME NEW n \in Effects, Send(n) PROVE AnswersInv'
  <2>1. PICK g \in Fetches :
           /\ fetch' = [fetch EXCEPT ![n] = g] /\ g.event = fetch[n].event
           /\ fetch[n].event \in Events /\ stored[g.event] \in Copies
           /\ \/ /\ stored[g.event].fresh /\ g.at = "answered"
                 /\ g.body = stored[g.event].body /\ g.changed = stored[g.event].changed
              \/ /\ g.at = "sent" /\ g.body = fetch[n].body
    BY <1>5, SendRecord
  <2>2. UNCHANGED <<row, stored>>  BY <1>5 DEF Send, server
  <2>3. g.at = "answered" => \A s \in DOMAIN g.body \ g.changed : g.body[s] = row[s]
    BY <2>1 DEF AnswersInv
  <2> QED  BY <2>1, <2>2, <2>3, OneAnswer DEF AnswersInv
<1>6. ASSUME NEW n \in Effects, Respond(n) PROVE AnswersInv'
  <2>1. PICK g \in Fetches :
           /\ fetch' = [fetch EXCEPT ![n] = g] /\ g.event = fetch[n].event
           /\ g.event \in Events /\ g.at = "answered"
           /\ g.body = [s \in SeatsOf(g.event) |-> row[s]] /\ g.changed = fetch[n].changed
           /\ stored' = [stored EXCEPT ![g.event] =
                           [body |-> g.body, fresh |-> TRUE, changed |-> g.changed]]
    BY <1>6, RespondRecord
  <2>2. \A s \in DOMAIN g.body : g.body[s] = row[s]
    BY <2>1
  <2>3. ASSUME NEW e \in Events, stored'[e].fresh,
               NEW s \in DOMAIN stored'[e].body \ stored'[e].changed
        PROVE  stored'[e].body[s] = row[s]
    <3>1. stored \in [Events -> Copies]  BY DEF TypeOK, Copies
    <3>2. CASE e = g.event
      <4>1. stored'[e].body = g.body  BY <2>1, <3>1, <3>2
      <4> QED  BY <2>2, <2>3, <4>1
    <3>3. CASE e # g.event
      <4>1. stored'[e] = stored[e]  BY <2>1, <3>1, <3>3
      <4> QED  BY <2>3, <4>1 DEF AnswersInv
    <3> QED  BY <3>2, <3>3
  <2>4. UNCHANGED row  BY <1>6 DEF Respond, server
  <2> QED  BY <2>1, <2>2, <2>3, <2>4, OneAnswer
<1>7. ASSUME NEW n \in Effects, Deliver(n) \/ RefreshFails(n) PROVE AnswersInv'
  <2>1. Again(n) /\ UNCHANGED <<row, stored>>  BY <1>7 DEF Deliver, RefreshFails, Retry, server
  <2> QED  BY <2>1, AgainKeepsAnswers
<1>8. ASSUME \/ EventPasses \/ LoadPage \/ LoadFails \/ Reserve
             \/ \E s \in Seats : Toggle(s) \/ Told(s) \/ Replay(s) \/ Decline(s)
             \/ UNCHANGED vars
      PROVE  UNCHANGED <<row, stored, fetch>>
  <2>1. EventPasses => UNCHANGED <<row, stored, fetch>>
    <3> HIDE DEF page, book
    <3> QED  BY DEF EventPasses
  <2> QED  BY <1>8, <2>1 DEF LoadPage, LoadFails, Reserve, Toggle, Told, Replay, Decline, server, vars, page
<1>9. ASSUME Reload \/ (\E e \in Events : PickEvent(e))
      PROVE  \E e \in Events \cup {NoEvent} : Restart(e) /\ UNCHANGED <<row, stored>>
  <2>1. eventId \in Events \cup {NoEvent}  BY DEF TypeOK
  <2> QED  BY <1>9, <2>1 DEF Reload, PickEvent, server
<1>10. CASE LoadEnds
  <2>1. listed' \subseteq Events
    <3>1. PageRows(load.cursor) \subseteq Events
      BY StorefrontAssumption DEF PageRows, Upcoming, Events, TypeOK
    <3> QED  BY <1>10, <3>1 DEF LoadEnds, TypeOK
  <2>2. UNCHANGED <<row, stored>>  BY <1>10 DEF LoadEnds, server
  <2>3. CASE UNCHANGED fetch
    BY <2>2, <2>3, <1>2
  <2>4. CASE \E e \in Events \cup {NoEvent} : Restart(e)
    BY <2>2, <2>4, <1>4
  <2> QED  BY <1>10, <2>1, <2>3, <2>4 DEF LoadEnds
<1> QED
  BY <1>1, <1>2, <1>3, <1>4, <1>5, <1>6, <1>7, <1>8, <1>9, <1>10 DEF Next

-----------------------------------------------------------------------------
(* The list of events.                                                     *)

(* What has been collected undisturbed is everything up to the cursor.     *)
LoadInv ==
    load.on /\ ~load.disturbed =>
        /\ load.cursor \in Upcoming \cup {NoEvent}
        /\ load.collected = {e \in Upcoming : e =< load.cursor}

LEMMA UpcomingAreEvents == TypeOK => Upcoming \subseteq Events /\ Events \subseteq Nat \ {0}
BY StorefrontAssumption DEF TypeOK, Upcoming, Events

(* The rows after a cursor that is still upcoming are those beyond it.     *)
LEMMA RowsBeyond ==
    ASSUME TypeOK, NEW cursor \in Upcoming \cup {NoEvent}
    PROVE  PageRows(cursor) = {e \in Upcoming : e > cursor}
<1>1. \A e \in Upcoming : e \in Nat /\ e > NoEvent
  BY UpcomingAreEvents DEF NoEvent
<1>2. CASE cursor = NoEvent
  <2>1. \A e \in Upcoming : e >= cursor /\ e > cursor  BY <1>1, <1>2 DEF NoEvent
  <2>2. PageRows(cursor) = {e \in Upcoming : e >= cursor}  BY <1>2 DEF PageRows
  <2> QED  BY <2>1, <2>2
<1>3. CASE cursor # NoEvent
  <2>1. cursor \in Upcoming  BY <1>3
  <2> DEFINE from == {e \in Upcoming : e >= cursor}
  <2>2. PageRows(cursor) = {e \in from : \E f \in from : f < e}
    BY <1>3 DEF PageRows
  <2>3. ASSUME NEW e \in from, NEW f \in from, f < e PROVE e > cursor
    BY <1>1, <2>1, <2>3
  <2>4. ASSUME NEW e \in Upcoming, e > cursor PROVE e \in from /\ cursor \in from /\ cursor < e
    BY <1>1, <2>1, <2>4
  <2> QED  BY <2>2, <2>3, <2>4
<1> QED  BY <1>2, <1>3

(* A page takes the earliest rows.                                         *)
LEMMA FirstsClosed ==
    ASSUME NEW rows \in SUBSET Events, NEW c \in Firsts(rows), NEW e \in rows, e =< c
    PROVE  e \in Firsts(rows)
<1>1. Events \subseteq Int /\ IsFiniteSet(Events)
  BY StorefrontAssumption, FS_Interval DEF Events
<1>2. IsFiniteSet(rows)  BY <1>1, FS_Subset
<1> DEFINE Before(x) == {f \in rows : f < x}
<1>3. c \in rows /\ Cardinality(Before(c)) < PageSize  BY DEF Firsts
<1>4. IsFiniteSet(Before(c)) /\ IsFiniteSet(Before(e))  BY <1>2, FS_Subset
<1>5. Before(e) \subseteq Before(c)
  <2>1. ASSUME NEW f \in rows, f < e PROVE f < c
    <3>1. f \in Int /\ e \in Int /\ c \in Int  BY <1>1, <1>3
    <3> QED  BY <2>1, <3>1
  <2> QED  BY <2>1
<1>6. Cardinality(Before(e)) =< Cardinality(Before(c))
  BY <1>4, <1>5, FS_Subset
<1>7. Cardinality(Before(e)) \in Nat /\ Cardinality(Before(c)) \in Nat
  BY <1>4, FS_CardinalityType
<1>8. Cardinality(Before(e)) < PageSize
  BY <1>3, <1>6, <1>7, StorefrontAssumption
<1> QED  BY <1>8 DEF Firsts

LEMMA LoadKept == TypeOK /\ LoadInv /\ [Next]_vars => LoadInv'
<1> SUFFICES ASSUME TypeOK, LoadInv, [Next]_vars PROVE LoadInv'
  OBVIOUS
<1>1. CASE LoadPage
  <2> SUFFICES ASSUME load'.on, ~load'.disturbed
               PROVE  /\ load'.cursor \in Upcoming \cup {NoEvent}
                      /\ load'.collected = {e \in Upcoming : e =< load'.cursor}
    BY <1>1 DEF LoadPage, LoadInv, Upcoming, server
  <2> DEFINE rows == PageRows(load.cursor)
  <2>1. PICK c \in rows :
           /\ NextCursor(c, rows)
           /\ load' = [load EXCEPT !.collected = @ \cup Firsts(rows), !.cursor = c]
    BY <1>1 DEF LoadPage
  <2>2. /\ load.on /\ ~load.disturbed
        /\ load'.cursor = c /\ load'.collected = load.collected \cup Firsts(rows)
    BY <1>1, <2>1 DEF LoadPage, TypeOK
  <2>3. /\ load.cursor \in Upcoming \cup {NoEvent}
        /\ load.collected = {e \in Upcoming : e =< load.cursor}
    BY <2>2 DEF LoadInv
  <2>4. rows = {e \in Upcoming : e > load.cursor}
    BY <2>3, RowsBeyond
  <2> HIDE DEF rows
  <2>5. Upcoming \subseteq Events /\ Events \subseteq Nat \ {0}  BY UpcomingAreEvents
  <2>6. Firsts(rows) = {e \in rows : e =< c}
    <3>1. c \in Firsts(rows) /\ \A f \in Firsts(rows) : f =< c
      BY <2>1 DEF NextCursor
    <3>2. rows \in SUBSET Events  BY <2>4, <2>5
    <3>3. \A e \in rows : e =< c => e \in Firsts(rows)
      BY <3>1, <3>2, FirstsClosed
    <3>4. Firsts(rows) \subseteq rows  BY DEF Firsts
    <3> QED  BY <3>1, <3>3, <3>4
  <2>7. load.cursor \in Nat /\ c \in Nat /\ c > load.cursor /\ c \in Upcoming
    BY <2>1, <2>3, <2>4, <2>5 DEF NoEvent
  <2>8. load'.collected = {e \in Upcoming : e =< c}
    <3>1. \A e \in Upcoming : e =< c <=> e =< load.cursor \/ (e > load.cursor /\ e =< c)
      BY <2>5, <2>7
    <3>2. load'.collected = {e \in Upcoming : e =< load.cursor} \cup {e \in rows : e =< c}
      BY <2>2, <2>3, <2>6
    <3> QED  BY <2>4, <3>1, <3>2
  <2> QED  BY <2>2, <2>7, <2>8
<1>2. CASE EventPasses
  <2>1. load'.on /\ ~load'.disturbed => FALSE
    BY <1>2 DEF EventPasses, TypeOK
  <2> QED  BY <2>1 DEF LoadInv
<1>3. CASE Reload
  <2>1. load' = NewLoad /\ passed' = passed  BY <1>3 DEF Reload, server
  <2>2. load'.cursor = NoEvent /\ load'.collected = {}
    BY <2>1 DEF NewLoad, NoLoad
  <2>3. {e \in Upcoming : e =< NoEvent} = {}
    BY UpcomingAreEvents DEF NoEvent
  <2> QED  BY <2>1, <2>2, <2>3 DEF LoadInv, Upcoming
<1>4. ASSUME load' = NoLoad PROVE LoadInv'
  BY <1>4 DEF LoadInv, NoLoad
<1>5. ASSUME UNCHANGED <<passed, load>> PROVE LoadInv'
  BY <1>5 DEF LoadInv, Upcoming
<1>6. LoadEnds \/ LoadFails => load' = NoLoad
  BY DEF LoadEnds, LoadFails
<1>7. ASSUME \/ \E s \in Seats : SeatChanges(s) \/ Toggle(s) \/ Grant(s) \/ Replay(s) \/ Decline(s) \/ Told(s)
             \/ \E e \in Events : CacheAges(e) \/ PickEvent(e)
             \/ \E n \in Effects : Send(n) \/ Respond(n) \/ Deliver(n) \/ RefreshFails(n)
             \/ Reserve
             \/ UNCHANGED vars
      PROVE  UNCHANGED <<passed, load>>
  <2>1. ASSUME NEW s \in Seats, SeatChanges(s) \/ Toggle(s) \/ Grant(s) \/ Replay(s) \/ Decline(s) \/ Told(s)
        PROVE  UNCHANGED <<passed, load>>
    BY <2>1 DEF SeatChanges, Toggle, Grant, Replay, Decline, Told, server
  <2>2. ASSUME NEW n \in Effects, Send(n) \/ Respond(n) \/ Deliver(n) \/ RefreshFails(n)
        PROVE  UNCHANGED <<passed, load>>
    BY <2>2 DEF Send, Respond, Deliver, RefreshFails, server
  <2> QED  BY <1>7, <2>1, <2>2 DEF CacheAges, PickEvent, Reserve, vars, server
<1> QED  BY <1>1, <1>2, <1>3, <1>4, <1>5, <1>6, <1>7 DEF Next

LEMMA LoadStart == TypeOK /\ Init => LoadInv
<1> SUFFICES ASSUME TypeOK, Init PROVE LoadInv
  OBVIOUS
<1>1. load.cursor = NoEvent /\ load.collected = {}
  BY DEF Init, NewLoad, NoLoad
<1>2. {e \in Upcoming : e =< NoEvent} = {}
  BY UpcomingAreEvents DEF NoEvent
<1> QED  BY <1>1, <1>2 DEF LoadInv

LEMMA ListWhole ==
    ASSUME TypeOK, LoadInv, LoadEnds, ~load.disturbed
    PROVE  listed' = Upcoming
<1>1. /\ load.cursor \in Upcoming \cup {NoEvent}
      /\ load.collected = {e \in Upcoming : e =< load.cursor}
      /\ listed' = load.collected \cup PageRows(load.cursor)
  BY DEF LoadInv, LoadEnds
<1>2. PageRows(load.cursor) = {e \in Upcoming : e > load.cursor}
  BY <1>1, RowsBeyond
<1>3. Upcoming \subseteq Nat /\ load.cursor \in Nat
  BY <1>1, UpcomingAreEvents DEF NoEvent
<1>4. \A e \in Upcoming : e =< load.cursor \/ e > load.cursor
  BY <1>3
<1> QED  BY <1>1, <1>2, <1>4

-----------------------------------------------------------------------------
(* The theorems.                                                           *)

StorefrontInv == TypeOK /\ PageInv /\ AnswersInv /\ LoadInv

LEMMA StorefrontInductive == Spec => []StorefrontInv
<1>1. Init => StorefrontInv
  BY TypesStart, PageStart, AnswersStart, LoadStart DEF StorefrontInv
<1>2. StorefrontInv /\ [Next]_vars => StorefrontInv'
  <2>1. PageInv => RefreshOfEvent  BY DEF PageInv
  <2> QED  BY <2>1, TypesKept, PageKept, AnswersKept, LoadKept DEF StorefrontInv
<1> QED  BY <1>1, <1>2, PTL DEF Spec

(* The page, the copies and the requests keep their types, for any number  *)
(* of effects (CyberArena 12-138, seatmap.controller 10-78).               *)
THEOREM StorefrontTypes == Spec => []TypeOK
<1>1. StorefrontInv => TypeOK  BY DEF StorefrontInv
<1> QED  BY <1>1, StorefrontInductive, PTL

(* The page never shows seats of another event than the selected one, and  *)
(* never keeps a seat chosen that it shows as taken (CyberArena 61-86).    *)
THEOREM PageFollowsSelection == Spec => []SelectionShown
<1>1. StorefrontInv => SelectionShown  BY DEF StorefrontInv, PageInv
<1> QED  BY <1>1, StorefrontInductive, PTL

(* Neither the ETag nor the browser's copy makes an answer untrue about a  *)
(* seat that has not changed (seatmap.controller 57-77).                   *)
THEOREM AnswersAreTrue == Spec => []AnswersTrue
<1>1. StorefrontInv => AnswersTrue  BY DEF StorefrontInv, AnswersInv
<1> QED  BY <1>1, StorefrontInductive, PTL

(* Whatever the page size, paging by cursor finds every upcoming event     *)
(* (seatmap.controller 13-19, CyberArena 42-54).                           *)
THEOREM ListIsComplete == Spec => CatalogueComplete
<1>1. StorefrontInv => TypeOK /\ LoadInv  BY DEF StorefrontInv
<1>2. TypeOK /\ LoadInv /\ [Next]_vars => [LoadEnds /\ ~load.disturbed => listed' = Upcoming]_vars
  BY ListWhole
<1> QED  BY <1>1, <1>2, StorefrontInductive, PTL DEF Spec, CatalogueComplete
=============================================================================
