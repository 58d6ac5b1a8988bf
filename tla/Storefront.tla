------------------------------ MODULE Storefront ------------------------------
(***************************************************************************)
(* The booking page (CyberArena) against the two reads of the API that     *)
(* feed it: listEvents, page by page, and listSeats with its ETag, behind  *)
(* the browser's cache.  Other buyers, the page's own reservations, the    *)
(* refresh every five seconds, a change of event and the list of events    *)
(* that arrives late all interleave.                                       *)
(*                                                                         *)
(* A seat is its mapped status.  Events are numbered by date.  Every run   *)
(* of the page's second effect has a number; only the latest is active.    *)
(***************************************************************************)
EXTENDS Integers, FiniteSets

CONSTANTS
    Seats,
    LastEvent,    \* the events are 1..LastEvent, by date and id
    EventOf,      \* the event of each seat
    PageSize,     \* listEvents: 50
    InitialEvent, \* VITE_EVENT_ID, or NoEvent
    MaxEffects,   \* bound: runs of the page's second effect
    MaxPassed     \* bound: events that begin meanwhile

ASSUME StorefrontAssumption ==
    /\ LastEvent \in Nat /\ MaxPassed \in 0..LastEvent /\ PageSize \in Nat \ {0} /\ MaxEffects \in Nat \ {0}
    /\ EventOf \in [Seats -> 1..LastEvent]
    /\ InitialEvent \in 0..LastEvent

Events  == 1..LastEvent
NoEvent == 0
Effects == 1..MaxEffects
SeatsOf(e) == {s \in Seats : EventOf[s] = e}

VARIABLES
    row,        \* status of each seat in PostgreSQL
    passed,     \* events 1..passed are over
    stored,     \* the browser's cached answer for each event
    listed,     \* events
    eventId, shown, selected, ready,
    message,    \* the page has something to say, with the reload button
    effect,     \* number of the active effect
    fetch,      \* the refresh of each effect
    load,       \* loadEvents: its cursor and what it has collected
    queue,      \* the seats that reserve() still has to ask for
    asked       \* the seat it is asking for, and the answer

server == <<row, passed>>
page   == <<listed, eventId, shown, selected, ready, message, effect>>
book   == <<queue, asked>>
vars   == <<server, stored, page, fetch, load, book>>

Statuses == {"available", "held", "sold"}
Nothing  == [s \in {} |-> "available"]
Bodies   == UNION {[S -> Statuses] : S \in {SeatsOf(e) : e \in Events} \cup {{}}}
NoFetch  == [at |-> "none", event |-> NoEvent, body |-> Nothing, changed |-> {}]
NoLoad   == [on |-> FALSE, cursor |-> NoEvent, collected |-> {}, disturbed |-> FALSE]
NewLoad  == [NoLoad EXCEPT !.on = TRUE]
NoSeat   == [to |-> "none", seats |-> {}]

TypeOK ==
    /\ row \in [Seats -> Statuses]
    /\ passed \in 0..MaxPassed
    /\ stored \in [Events -> [body : Bodies, fresh : BOOLEAN, changed : SUBSET Seats]]
    /\ listed \subseteq Events
    /\ eventId \in Events \cup {NoEvent}
    /\ shown \in Bodies
    /\ selected \subseteq Seats
    /\ ready \in BOOLEAN
    /\ message \in BOOLEAN
    /\ effect \in 1..MaxEffects
    /\ fetch \in [Effects -> [at : {"none", "due", "sent", "answered"}, event : Events \cup {NoEvent},
                              body : Bodies, changed : SUBSET Seats]]
    /\ load \in [on : BOOLEAN, cursor : Events \cup {NoEvent},
                 collected : SUBSET Events, disturbed : BOOLEAN]
    /\ queue \subseteq Seats
    /\ asked \in [to : {"none", "accepted", "refused"}, seats : SUBSET Seats]

Due(e) == [NoFetch EXCEPT !.at = "due", !.event = e]

Init ==
    /\ row = [s \in Seats |-> "available"]
    /\ passed = 0
    /\ stored = [e \in Events |-> [body |-> Nothing, fresh |-> FALSE, changed |-> {}]]
    /\ listed = {}
    /\ eventId = InitialEvent
    /\ shown = Nothing
    /\ selected = {}
    /\ ready = FALSE
    /\ message = TRUE
    /\ effect = 1
    /\ fetch = [n \in Effects |-> IF n = 1 /\ InitialEvent # NoEvent THEN Due(InitialEvent) ELSE NoFetch]
    /\ load = NewLoad
    /\ queue = {}
    /\ asked = NoSeat

Busy == queue # {}

-----------------------------------------------------------------------------
(* The rows and the world change.                                          *)

(* Answers under way and fresh copies need not tell about this change.     *)
Outdate(s) ==
    /\ stored' = [e \in Events |-> IF stored[e].fresh /\ e = EventOf[s]
                                   THEN [stored[e] EXCEPT !.changed = @ \cup {s}] ELSE stored[e]]
    /\ fetch' = [n \in Effects |-> IF fetch[n].at \in {"sent", "answered"} /\ fetch[n].event = EventOf[s]
                                   THEN [fetch[n] EXCEPT !.changed = @ \cup {s}] ELSE fetch[n]]

(* Another buyer's reservation, its end, or a sale; also one that was      *)
(* decided on before the hold lapsed and is committed after.               *)
SeatChanges(s) ==
    /\ \E to \in Statuses :
          /\ row[s] # "sold" /\ to # row[s]
          /\ row' = [row EXCEPT ![s] = to]
    /\ Outdate(s)
    /\ UNCHANGED <<passed, page, load, book>>

EventPasses ==
    /\ passed < MaxPassed
    /\ passed' = passed + 1
    /\ load' = [load EXCEPT !.disturbed = @ \/ load.on]
    /\ UNCHANGED <<row, stored, page, fetch, book>>

(* max-age=2.                                                              *)
CacheAges(e) ==
    /\ stored[e].fresh
    /\ stored' = [stored EXCEPT ![e].fresh = FALSE, ![e].changed = {}]
    /\ UNCHANGED <<server, page, fetch, load, book>>

-----------------------------------------------------------------------------
(* The second effect starts anew when the event changes or the user asks   *)
(* for a reload: the page is emptied and a refresh is sent at once.        *)
Restart(e) ==
    /\ effect < MaxEffects
    /\ effect' = effect + 1
    /\ eventId' = e
    /\ shown' = Nothing
    /\ selected' = {}
    /\ ready' = FALSE
    /\ message' = TRUE
    /\ fetch' = IF e = NoEvent THEN fetch ELSE [fetch EXCEPT ![effect + 1] = Due(e)]

PickEvent(e) ==
    /\ ~Busy
    /\ e \in listed /\ e # eventId
    /\ Restart(e)
    /\ UNCHANGED <<server, stored, listed, load, book>>

(* The button is there while the page has something to say.                *)
Reload ==
    /\ ~Busy
    /\ message
    /\ Restart(eventId)
    /\ load' = NewLoad
    /\ UNCHANGED <<server, stored, listed, book>>

-----------------------------------------------------------------------------
(* loadEvents and listEvents.                                              *)

Upcoming == passed + 1..LastEvent

(* The first PageSize of the upcoming events from the cursor on, without   *)
(* the first of these.  Prisma looks the cursor's date up even if it is    *)
(* over; then the one left out is not the cursor itself.                   *)
PageRows(cursor) ==
    LET from == {e \in Upcoming : e >= cursor}
    IN  IF cursor = NoEvent THEN from ELSE {e \in from : \E f \in from : f < e}

Firsts(rows) == {e \in rows : Cardinality({f \in rows : f < e}) < PageSize}

(* Slip: the cursor is the first event that did not fit on the page.       *)
FirstLeftOut(c, rows) == c \notin Firsts(rows) /\ \A f \in rows \ Firsts(rows) : c =< f
NextCursor(c, rows)   == c \in Firsts(rows) /\ \A f \in Firsts(rows) : f =< c

LoadPage ==
    /\ load.on
    /\ LET rows == PageRows(load.cursor)
       IN  /\ Firsts(rows) # rows
           /\ \E c \in rows :
                 /\ NextCursor(c, rows)
                 /\ load' = [load EXCEPT !.collected = @ \cup Firsts(rows), !.cursor = c]
    /\ UNCHANGED <<server, stored, page, fetch, book>>

(* The last page: the event that is shown stays if it is listed.           *)
LoadEnds ==
    /\ load.on
    /\ Firsts(PageRows(load.cursor)) = PageRows(load.cursor)
    /\ load' = NoLoad
    /\ listed' = load.collected \cup PageRows(load.cursor)
    /\ \/ /\ eventId \in listed' \/ (listed' = {} /\ eventId = NoEvent)
          /\ UNCHANGED <<eventId, shown, selected, ready, message, effect, fetch>>
       \/ /\ eventId \notin listed' \cup {NoEvent} /\ listed' = {}
          /\ Restart(NoEvent)
       \/ /\ eventId \notin listed'
          /\ \E e \in listed' : (\A f \in listed' : e =< f) /\ Restart(e)
    /\ UNCHANGED <<server, stored, book>>

LoadFails ==
    /\ load.on
    /\ load' = NoLoad
    /\ message' = TRUE
    /\ UNCHANGED <<server, stored, listed, eventId, shown, selected, ready, effect, fetch, book>>

-----------------------------------------------------------------------------
(* refresh and listSeats.                                                  *)

AnyEffect(n) == TRUE                    \* slip: nothing tells a late answer
Active(n)    == n = effect

(* The browser answers from a fresh copy, or asks.                         *)
Send(n) ==
    /\ fetch[n].at = "due" /\ n = effect
    /\ LET e == fetch[n].event
       IN  fetch' = [fetch EXCEPT ![n] =
             IF stored[e].fresh
             THEN [@ EXCEPT !.at = "answered", !.body = stored[e].body, !.changed = stored[e].changed]
             ELSE [@ EXCEPT !.at = "sent", !.changed = {}]]
    /\ UNCHANGED <<server, stored, page, load, book>>

SameSeats(a, b) == DOMAIN a = DOMAIN b  \* slip: the ETag covers the ids only
SameEtag(a, b)  == a = b

Respond(n) ==
    /\ fetch[n].at = "sent"
    /\ LET e    == fetch[n].event
           now  == [s \in SeatsOf(e) |-> row[s]]
           body == IF stored[e].body # Nothing /\ SameEtag(stored[e].body, now)
                   THEN stored[e].body ELSE now
       IN  /\ fetch' = [fetch EXCEPT ![n].at = "answered", ![n].body = body]
           /\ stored' = [stored EXCEPT ![e] =
                [body |-> body, fresh |-> TRUE, changed |-> fetch[n].changed]]
    /\ UNCHANGED <<server, page, load, book>>

(* The timer of the next refresh is set by the active effect alone.        *)
Again(n) == fetch' = [fetch EXCEPT ![n] = IF n = effect THEN Due(fetch[n].event) ELSE NoFetch]

NoTimer(n) == fetch' = [fetch EXCEPT ![n] = NoFetch]   \* slip: no timer after a failure
Retry(n)   == Again(n)

Deliver(n) ==
    /\ fetch[n].at = "answered"
    /\ IF Active(n)
       THEN /\ shown' = fetch[n].body
            /\ selected' = {s \in selected \cap DOMAIN shown' : shown'[s] = "available"}
            /\ ready' = TRUE
            /\ message' = (shown' = Nothing)
       ELSE UNCHANGED <<shown, selected, ready, message>>
    /\ Again(n)
    /\ UNCHANGED <<server, stored, listed, eventId, effect, load, book>>

RefreshFails(n) ==
    /\ fetch[n].at = "sent"
    /\ IF Active(n)
       THEN ready' = FALSE /\ selected' = {} /\ message' = TRUE
       ELSE UNCHANGED <<ready, selected, message>>
    /\ Retry(n)
    /\ UNCHANGED <<server, stored, listed, eventId, shown, effect, load, book>>

-----------------------------------------------------------------------------
(* The user's selection and reserve().                                     *)

Toggle(s) ==
    /\ ~Busy
    /\ s \in DOMAIN shown
    /\ s \in selected \/ (ready /\ shown[s] = "available")
    /\ selected' = IF s \in selected THEN selected \ {s} ELSE selected \cup {s}
    /\ UNCHANGED <<server, stored, listed, eventId, shown, ready, message, effect, fetch, load, book>>

Reserve ==
    /\ ready /\ ~Busy
    /\ selected # {}
    /\ queue' = selected
    /\ UNCHANGED <<server, stored, page, fetch, load, asked>>

(* The seats are asked for one by one; an answer may be lost.              *)
Grant(s) ==
    /\ s \in queue /\ asked = NoSeat
    /\ row[s] = "available"
    /\ row' = [row EXCEPT ![s] = "held"]
    /\ \E to \in {"accepted", "refused"} : asked' = [to |-> to, seats |-> {s}]
    /\ Outdate(s)
    /\ UNCHANGED <<passed, page, load, queue>>

(* The page keeps its key after a lost answer, and the 201 of that try is  *)
(* given again, whatever has become of the seat since.  Which keys have    *)
(* one is the matter of BookingRequests; here any of them may.             *)
Replay(s) ==
    /\ s \in queue /\ asked = NoSeat
    /\ asked' = [to |-> "accepted", seats |-> {s}]
    /\ UNCHANGED <<server, stored, page, fetch, load, queue>>

Decline(s) ==
    /\ s \in queue /\ asked = NoSeat
    /\ asked' = [to |-> "refused", seats |-> {s}]
    /\ UNCHANGED <<server, stored, page, fetch, load, queue>>

(* An accepted seat is no longer chosen and shown as held.                 *)
Told(s) ==
    /\ s \in asked.seats
    /\ IF asked.to = "accepted"
       THEN /\ selected' = selected \ {s}
            /\ shown' = [x \in DOMAIN shown |-> IF x = s THEN "held" ELSE shown[x]]
       ELSE UNCHANGED <<selected, shown>>
    /\ queue' = queue \ {s}
    /\ asked' = NoSeat
    /\ UNCHANGED <<server, stored, listed, eventId, ready, message, effect, fetch, load>>

Next ==
    \/ \E s \in Seats : \/ SeatChanges(s) \/ Toggle(s)
                        \/ Grant(s) \/ Replay(s) \/ Decline(s) \/ Told(s)
    \/ EventPasses
    \/ \E e \in Events : CacheAges(e) \/ PickEvent(e)
    \/ Reload \/ LoadPage \/ LoadEnds \/ LoadFails
    \/ \E n \in Effects : Send(n) \/ Respond(n) \/ Deliver(n) \/ RefreshFails(n)
    \/ Reserve

Spec == Init /\ [][Next]_vars

(* The refresh and its timer go on, copies age, and of requests sent again *)
(* and again some get through.                                             *)
FairSpec ==
    /\ Spec
    /\ \A n \in Effects : /\ WF_vars(Send(n) \/ Deliver(n))
                          /\ SF_vars(Respond(n))
    /\ \A e \in Events : WF_vars(CacheAges(e))

-----------------------------------------------------------------------------
(* Properties.                                                             *)

(* The seats on the page are those of the selected event and the chosen    *)
(* ones are shown as available, whatever answers arrive late, after a      *)
(* change of event or between two reservations (CyberArena 61-86, 132).    *)
SelectionShown ==
    /\ DOMAIN shown \subseteq SeatsOf(eventId)
    /\ \A s \in selected : s \in DOMAIN shown /\ shown[s] = "available"

(* An answer tells the truth about every seat that has not changed since   *)
(* it was asked for, or since at most max-age before, although 304 answers *)
(* bring back an old body (seatmap.controller 45-77).                      *)
AnswersTrue ==
    \A n \in Effects : fetch[n].at = "answered" =>
        \A s \in DOMAIN fetch[n].body \ fetch[n].changed : fetch[n].body[s] = row[s]

(* If no event went by while the list was loaded, it has every upcoming    *)
(* event and no other (listEvents 13-19, CyberArena 42-54).                *)
CatalogueComplete ==
    [][LoadEnds /\ ~load.disturbed => listed' = Upcoming]_vars

(* While the event stays selected, a seat that has been sold is in the end *)
(* shown as sold and no longer chosen, however many requests fail          *)
(* (CyberArena 66-84).                                                     *)
SoldIsSeen ==
    \A s \in Seats :
        <>[](row[s] = "sold" /\ eventId = EventOf[s])
            => <>[](s \notin selected /\ s \in DOMAIN shown /\ shown[s] = "sold")
=============================================================================
