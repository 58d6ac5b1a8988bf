-------------------------- MODULE OutboxRelayProofs --------------------------
(***************************************************************************)
(* Proofs about OutboxRelay for any number of rows, tasks and troubles: no *)
(* event is forgotten, claims are fenced, and the relay implements         *)
(* EventDelivery.                                                          *)
(***************************************************************************)
EXTENDS OutboxRelay, TLAPS

-----------------------------------------------------------------------------
(* The inductive invariant, part by part.                                  *)

(* A batch is of committed rows.                                           *)
BatchShape ==
    \A p \in Publishers : pub[p].step # "idle" =>
        pub[p].row \in 1..committed /\ pub[p].rest \subseteq 1..committed

(* A row about to be marked has been added.                                *)
BatchAdded == \A p \in Publishers : pub[p].step = "mark" => pub[p].row \in InStream(stream)

(* A worker's messages have been delivered.                                *)
TaskShape ==
    \A w \in Workers : work[w].step # "idle" =>
        /\ 1 =< work[w].msg
        /\ work[w].msg =< work[w].last
        /\ work[w].last =< delivered

(* Only a recorded message, or one without a row, is acknowledged.         *)
AckRecorded ==
    \A w \in Workers : work[w].step = "ack" => stream[work[w].msg] \in recorded \cup {NoRow}

(* NothingForgotten, message by message.                                   *)
MessagesKept ==
    \A m \in 1..Len(stream) :
        stream[m] \in recorded \cup {NoRow} \/ m > delivered \/ m \in pending

OnRecord ==
    /\ published \subseteq InStream(stream)
    /\ recorded \subseteq InStream(stream)

RInv ==
    /\ TypeOK
    /\ BatchShape
    /\ BatchAdded
    /\ TaskShape
    /\ AckRecorded
    /\ MessagesKept
    /\ OnRecord

(* The part about the publishers, and the part about the group.            *)
PubInv   == BatchShape /\ BatchAdded
GroupInv == TaskShape /\ AckRecorded /\ MessagesKept
PubTypes ==
    /\ committed \in 0..MaxRows
    /\ published \subseteq 1..committed
    /\ claim \in [Rows -> Publishers \cup {NoOne}]
    /\ lapsed \subseteq Rows
    /\ pub \in [Publishers -> Batches]
    /\ troubles \in 0..MaxTroubles
GroupTypes ==
    /\ stream \in Seq(Rows \cup {NoRow})
    /\ delivered \in 0..Len(stream)
    /\ pending \subseteq 1..delivered
    /\ idle \subseteq pending
    /\ work \in [Workers -> Tasks]
    /\ recorded \subseteq Rows

(* The invariant is the two halves and OnRecord.                           *)
LEMMA Halves == RInv <=> PubTypes /\ GroupTypes /\ PubInv /\ GroupInv /\ OnRecord
  BY DEF RInv, PubTypes, GroupTypes, PubInv, GroupInv, TypeOK

(* The halves of the next state make the invariant of the next state.      *)
LEMMA Parts ==
    ASSUME PubTypes', GroupTypes', PubInv', GroupInv', OnRecord'
    PROVE  RInv'
  BY DEF RInv, PubTypes, GroupTypes, PubInv, GroupInv, TypeOK

-----------------------------------------------------------------------------
(* The stream and the tables.                                              *)

(* XADD adds one message at the end, and takes none away.                  *)
LEMMA StreamGrows ==
    ASSUME NEW S \in Seq(Rows \cup {NoRow}), NEW r \in Rows
    PROVE  /\ Append(S, r) \in Seq(Rows \cup {NoRow})
           /\ Len(Append(S, r)) = Len(S) + 1
           /\ \A m \in 1..Len(S) : Append(S, r)[m] = S[m]
           /\ Append(S, r)[Len(S) + 1] = r
           /\ InStream(Append(S, r)) = InStream(S) \cup {r}
<1>1. /\ Append(S, r) \in Seq(Rows \cup {NoRow})
      /\ Len(Append(S, r)) = Len(S) + 1
      /\ \A m \in 1..Len(S) : Append(S, r)[m] = S[m]
      /\ Append(S, r)[Len(S) + 1] = r
  OBVIOUS
<1>2. Len(S) \in Nat
  OBVIOUS
<1>3. InStream(Append(S, r)) \subseteq InStream(S) \cup {r}
  BY <1>1, <1>2 DEF InStream
<1>4. InStream(S) \cup {r} \subseteq InStream(Append(S, r))
  BY <1>1, <1>2 DEF InStream
<1> QED
  BY <1>1, <1>3, <1>4

(* Trouble or not, the count stays in its bound.                           *)
LEMMA TroublesBounded ==
    ASSUME troubles \in 0..MaxTroubles, Trouble \/ NoTrouble
    PROVE  troubles' \in 0..MaxTroubles
  BY RelayAssumption DEF Trouble, NoTrouble

(* Turning to a row of the rest, or to none, keeps every batch in shape.   *)
LEMMA TurnKeeps ==
    ASSUME NEW p \in Publishers, NEW rows \in SUBSET (1..committed), PubTypes, PubInv,
           Turn(p, rows), committed' = committed,
           InStream(stream) \subseteq InStream(stream')
    PROVE  pub' \in [Publishers -> Batches] /\ PubInv'
<1> USE DEF PubTypes, PubInv, BatchShape, BatchAdded
<1>1. 1..committed \subseteq Rows
  BY RelayAssumption DEF Rows
<1>2. CASE rows = {}
  <2>1. pub' = [pub EXCEPT ![p] = NoBatch] /\ NoBatch \in Batches /\ NoBatch.step = "idle"
    BY <1>2 DEF Turn, Batches, NoBatch
  <2> QED
    BY <2>1
<1>3. CASE rows # {}
  <2>1. PICK r \in rows :
          pub' = [pub EXCEPT ![p] = [step |-> "add", row |-> r, rest |-> rows \ {r}]]
    BY <1>3 DEF Turn
  <2>2. [step |-> "add", row |-> r, rest |-> rows \ {r}] \in Batches
    BY <1>1 DEF Batches
  <2> QED
    BY <2>1, <2>2
<1> QED
  BY <1>2, <1>3

(* So does going on to another call about the same row, if a row that is   *)
(* to be marked has been added.                                            *)
LEMMA GotoKeeps ==
    ASSUME NEW p \in Publishers, NEW step \in {"mark", "unclaim"}, PubTypes, PubInv,
           ~At(p, "idle"), Goto(p, step), committed' = committed,
           InStream(stream) \subseteq InStream(stream'),
           step = "mark" => RowOf(p) \in InStream(stream')
    PROVE  pub' \in [Publishers -> Batches] /\ PubInv'
<1> USE DEF PubTypes, PubInv, BatchShape, BatchAdded
<1>1. pub' = [pub EXCEPT ![p] = [pub[p] EXCEPT !.step = step]]
  BY DEF Goto
<1>2. [pub[p] EXCEPT !.step = step] \in Batches
  BY DEF Batches
<1>3. /\ [pub[p] EXCEPT !.step = step].step = step
      /\ [pub[p] EXCEPT !.step = step].row = pub[p].row
      /\ [pub[p] EXCEPT !.step = step].rest = pub[p].rest
  BY DEF Batches
<1> QED
  BY <1>1, <1>2, <1>3 DEF At, RowOf

(* The two updates of the batch's row keep the table's types.              *)
LEMMA UpdatesKeepTypes ==
    ASSUME NEW p \in Publishers, PubTypes, RowOf(p) \in 1..committed
    PROVE  /\ SetPublished(p) =>
                /\ published' \subseteq 1..committed
                /\ published' \subseteq published \cup {RowOf(p)}
                /\ claim' \in [Rows -> Publishers \cup {NoOne}]
                /\ lapsed' \subseteq Rows
           /\ SetUnclaimed(p) =>
                /\ claim' \in [Rows -> Publishers \cup {NoOne}]
                /\ lapsed' \subseteq Rows
  BY DEF SetPublished, SetUnclaimed, PubTypes

(* Nothing changes for the group.                                          *)
LEMMA GroupStutters ==
    ASSUME GroupTypes, GroupInv, UNCHANGED <<group, work, recorded>>
    PROVE  GroupTypes' /\ GroupInv' /\ InStream(stream)' = InStream(stream)
  BY DEF GroupTypes, GroupInv, TaskShape, AckRecorded, MessagesKept, group, InStream

(* Nothing changes for the publishers.                                     *)
LEMMA PublishersStutter ==
    ASSUME PubTypes, PubInv, UNCHANGED <<outbox, pub>>, Trouble \/ NoTrouble,
           InStream(stream) \subseteq InStream(stream')
    PROVE  PubTypes' /\ PubInv' /\ UNCHANGED published
<1>1. troubles' \in 0..MaxTroubles
  BY TroublesBounded DEF PubTypes
<1> QED
  BY <1>1 DEF PubTypes, PubInv, BatchShape, BatchAdded, outbox

(* A message more in the stream is a message to be delivered.              *)
LEMMA AddKeepsGroup ==
    ASSUME NEW p \in Publishers, RowOf(p) \in Rows, GroupTypes, GroupInv, OnRecord,
           XAdd(p), UNCHANGED <<work, recorded>>
    PROVE  /\ GroupTypes'
           /\ GroupInv'
           /\ InStream(stream') = InStream(stream) \cup {RowOf(p)}
<1> DEFINE S == Append(stream, RowOf(p))
<1>1. stream' = S /\ UNCHANGED <<delivered, pending, idle, work, recorded>>
  BY DEF XAdd
<1>2. /\ S \in Seq(Rows \cup {NoRow})
      /\ Len(S) = Len(stream) + 1
      /\ \A m \in 1..Len(stream) : S[m] = stream[m]
      /\ InStream(S) = InStream(stream) \cup {RowOf(p)}
  BY StreamGrows DEF GroupTypes
<1> HIDE DEF S
<1>3. Len(stream) \in Nat /\ delivered \in 0..Len(stream)
  BY DEF GroupTypes
<1>4. GroupTypes'
  BY <1>1, <1>2, <1>3 DEF GroupTypes
<1>5. TaskShape'
  BY <1>1 DEF GroupInv, TaskShape
<1>6. AckRecorded'
  <2> SUFFICES ASSUME NEW w \in Workers, work[w].step = "ack"
               PROVE  S[work[w].msg] \in recorded \cup {NoRow}
    BY <1>1 DEF AckRecorded
  <2>1. work[w] \in Tasks
    BY DEF GroupTypes
  <2>2. work[w].msg \in 1..Len(stream)
    BY <1>3, <2>1 DEF GroupInv, TaskShape, Tasks
  <2> QED
    BY <1>2, <2>2 DEF GroupInv, AckRecorded
<1>7. MessagesKept'
  <2> SUFFICES ASSUME NEW m \in 1..Len(S)
               PROVE  S[m] \in recorded \cup {NoRow} \/ m > delivered \/ m \in pending
    BY <1>1 DEF MessagesKept
  <2>1. CASE m \in 1..Len(stream)
    BY <1>2, <2>1 DEF GroupInv, MessagesKept
  <2>2. CASE m = Len(stream) + 1
    BY <1>3, <2>2
  <2> QED
    BY <1>2, <1>3, <2>1, <2>2
<1> QED
  BY <1>1, <1>2, <1>4, <1>5, <1>6, <1>7 DEF GroupInv

-----------------------------------------------------------------------------
(* The steps of the publishers.                                            *)

(* What a claim takes is claimable.                                        *)
LEMMA OldestOf == ASSUME NEW n, NEW S PROVE Oldest(n, S) \subseteq S
  BY DEF Oldest

(* A busy publisher's row is a committed one.                              *)
LEMMA BatchRow ==
    ASSUME NEW p \in Publishers, RInv, ~At(p, "idle")
    PROVE  /\ RowOf(p) \in 1..committed
           /\ RowOf(p) \in Rows
           /\ pub[p].rest \in SUBSET (1..committed)
  BY RelayAssumption DEF RInv, TypeOK, BatchShape, At, RowOf, Rows

(* A claim of claimable rows, whether its answer arrives or not.           *)
LEMMA ClaimKeeps ==
    ASSUME NEW p \in Publishers, NEW rows \in SUBSET Claimable, RInv, ClaimRows(p, rows),
           Trouble \/ NoTrouble, Turn(p, rows) \/ UNCHANGED pub
    PROVE  RInv'
<1>1. PubTypes /\ GroupTypes /\ PubInv /\ GroupInv /\ OnRecord
  BY Halves
<1>2. GroupTypes' /\ GroupInv' /\ InStream(stream)' = InStream(stream)
  BY <1>1, GroupStutters DEF ClaimRows
<1>3. rows \in SUBSET (1..committed)
  BY DEF Claimable
<1>4. pub' \in [Publishers -> Batches] /\ PubInv'
  <2>1. CASE Turn(p, rows)
    BY <1>1, <1>2, <1>3, <2>1, TurnKeeps DEF ClaimRows
  <2>2. CASE UNCHANGED pub
    BY <1>1, <1>2, <2>2 DEF PubTypes, PubInv, BatchShape, BatchAdded, ClaimRows
  <2> QED
    BY <2>1, <2>2
<1>5. troubles' \in 0..MaxTroubles
  BY <1>1, TroublesBounded DEF PubTypes
<1>6. PubTypes'
  BY <1>1, <1>4, <1>5 DEF PubTypes, ClaimRows
<1>7. OnRecord'
  BY <1>1, <1>2 DEF OnRecord, ClaimRows
<1> QED
  BY <1>2, <1>4, <1>6, <1>7, Parts

(* The scan claims the oldest of them.                                     *)
LEMMA ScanKeeps ==
    ASSUME NEW p \in Publishers, RInv, Scan(p) \/ ScanAnswerLost(p)
    PROVE  RInv'
<1>1. Oldest(ClaimLimit, Claimable) \in SUBSET Claimable
  BY OldestOf
<1> QED
  BY <1>1, ClaimKeeps DEF Scan, ScanAnswerLost

(* XADD, sent again or failed: the row is marked only if it was added.     *)
LEMMA AddKeeps ==
    ASSUME NEW p \in Publishers, RInv, Add(p) \/ AddResent(p) \/ AddFails(p)
    PROVE  RInv'
<1>1. PubTypes /\ GroupTypes /\ PubInv /\ GroupInv /\ OnRecord
  BY Halves
<1>2. /\ ~At(p, "idle")
      /\ UNCHANGED <<outbox, work, recorded>>
      /\ Trouble \/ NoTrouble
      /\ XAdd(p) \/ UNCHANGED group
  BY DEF Add, AddResent, AddFails, At
<1>3. RowOf(p) \in Rows
  BY <1>2, BatchRow
<1>4. /\ GroupTypes' /\ GroupInv'
      /\ InStream(stream) \subseteq InStream(stream')
      /\ XAdd(p) => RowOf(p) \in InStream(stream')
  <2>1. CASE XAdd(p)
    BY <1>1, <1>2, <1>3, <2>1, AddKeepsGroup
  <2>2. CASE UNCHANGED group /\ ~XAdd(p)
    BY <1>1, <1>2, <2>2, GroupStutters
  <2> QED
    BY <1>2, <2>1, <2>2
<1>5. pub' \in [Publishers -> Batches] /\ PubInv'
  <2>1. CASE Add(p)
    BY <1>1, <1>2, <1>4, <2>1, GotoKeeps DEF Add, outbox
  <2>2. CASE AddResent(p)
    BY <1>1, <1>2, <1>4, <2>2 DEF AddResent, PubTypes, PubInv, BatchShape, BatchAdded, outbox
  <2>3. CASE AddFails(p)
    BY <1>1, <1>2, <1>4, <2>3, GotoKeeps DEF AddFails, AfterAddFails, outbox
  <2> QED
    BY <2>1, <2>2, <2>3
<1>6. troubles' \in 0..MaxTroubles
  BY <1>1, <1>2, TroublesBounded DEF PubTypes
<1>7. PubTypes'
  BY <1>1, <1>2, <1>5, <1>6 DEF PubTypes, outbox
<1>8. OnRecord'
  BY <1>1, <1>2, <1>4 DEF OnRecord, outbox
<1> QED
  BY <1>4, <1>5, <1>7, <1>8, Parts

(* The rest of a row's turn, and the death of its publisher.               *)
LEMMA MarkKeeps ==
    ASSUME NEW p \in Publishers, RInv,
           Mark(p) \/ MarkFails(p) \/ Unclaim(p) \/ UnclaimFails(p) \/ PublisherDies(p)
    PROVE  RInv'
<1>1. PubTypes /\ GroupTypes /\ PubInv /\ GroupInv /\ OnRecord
  BY Halves
<1>2. /\ ~At(p, "idle")
      /\ UNCHANGED <<committed, group, work, recorded>>
      /\ Trouble \/ NoTrouble
  BY DEF Mark, MarkFails, Unclaim, UnclaimFails, PublisherDies, At, outbox
<1>3. RowOf(p) \in 1..committed /\ pub[p].rest \in SUBSET (1..committed)
  BY <1>2, BatchRow
<1>4. GroupTypes' /\ GroupInv' /\ InStream(stream)' = InStream(stream)
  BY <1>1, <1>2, GroupStutters
<1>5. /\ published' \subseteq 1..committed
      /\ published' \subseteq InStream(stream)
      /\ claim' \in [Rows -> Publishers \cup {NoOne}]
      /\ lapsed' \subseteq Rows
  <2>1. CASE Mark(p) \/ MarkFails(p)
    <3>1. RowOf(p) \in InStream(stream)
      BY <1>1, <2>1 DEF Mark, MarkFails, At, RowOf, PubInv, BatchAdded
    <3>2. SetPublished(p) \/ UNCHANGED <<published, claim, lapsed>>
      BY <2>1 DEF Mark, MarkFails
    <3> QED
      BY <1>1, <1>3, <3>1, <3>2, UpdatesKeepTypes DEF PubTypes, OnRecord
  <2>2. CASE Unclaim(p)
    BY <1>1, <1>3, <2>2, UpdatesKeepTypes DEF Unclaim, PubTypes, OnRecord
  <2>3. CASE UnclaimFails(p) \/ PublisherDies(p)
    BY <1>1, <2>3 DEF UnclaimFails, PublisherDies, outbox, PubTypes, OnRecord
  <2> QED
    BY <2>1, <2>2, <2>3
<1>6. pub' \in [Publishers -> Batches] /\ PubInv'
  <2>1. CASE Mark(p) \/ Unclaim(p) \/ UnclaimFails(p)
    <3>1. Turn(p, pub[p].rest)
      BY <2>1 DEF Mark, Unclaim, UnclaimFails
    <3> QED
      BY <1>1, <1>2, <1>3, <1>4, <3>1, TurnKeeps
  <2>2. CASE MarkFails(p)
    BY <1>1, <1>2, <1>4, <2>2, GotoKeeps DEF MarkFails
  <2>3. CASE PublisherDies(p)
    <3>1. Turn(p, {})
      BY <2>3 DEF PublisherDies, Turn
    <3> QED
      BY <1>1, <1>2, <1>4, <3>1, TurnKeeps
  <2> QED
    BY <2>1, <2>2, <2>3
<1>7. troubles' \in 0..MaxTroubles
  BY <1>1, <1>2, TroublesBounded DEF PubTypes
<1>8. PubTypes'
  BY <1>1, <1>2, <1>5, <1>6, <1>7 DEF PubTypes
<1>9. OnRecord'
  BY <1>1, <1>2, <1>4, <1>5 DEF OnRecord
<1> QED
  BY <1>4, <1>6, <1>8, <1>9, Parts

(* Commit and Lapse touch the table only.                                  *)
LEMMA TableKeeps ==
    ASSUME RInv, Commit \/ \E r \in Rows : Lapse(r)
    PROVE  RInv'
<1>1. PubTypes /\ GroupTypes /\ PubInv /\ GroupInv /\ OnRecord
  BY Halves
<1>2. UNCHANGED <<published, claim, pub, group, work, recorded>>
  BY DEF Commit, Lapse
<1>3. GroupTypes' /\ GroupInv' /\ InStream(stream)' = InStream(stream)
  BY <1>1, <1>2, GroupStutters
<1>4. committed' \in 0..MaxRows /\ 1..committed \subseteq 1..committed' /\ lapsed' \subseteq Rows
  BY <1>1, RelayAssumption DEF Commit, Lapse, PubTypes
<1>5. troubles' \in 0..MaxTroubles
  BY <1>1, TroublesBounded DEF Commit, Lapse, PubTypes
<1>6. PubTypes'
  BY <1>1, <1>2, <1>4, <1>5 DEF PubTypes
<1>7. PubInv'
  BY <1>1, <1>2, <1>3, <1>4 DEF PubInv, BatchShape, BatchAdded
<1>8. OnRecord'
  BY <1>1, <1>2, <1>3 DEF OnRecord
<1> QED
  BY <1>3, <1>6, <1>7, <1>8, Parts

-----------------------------------------------------------------------------
(* The steps of the consumer group.                                        *)

(* A busy worker's message is in the stream.                               *)
LEMMA WorkMessage ==
    ASSUME NEW w \in Workers, RInv, work[w].step # "idle"
    PROVE  /\ work[w] \in Tasks
           /\ work[w].msg \in 1..delivered
           /\ work[w].msg \in 1..Len(stream)
           /\ stream[work[w].msg] \in Rows \cup {NoRow}
<1>1. work[w] \in Tasks /\ delivered \in 0..Len(stream) /\ stream \in Seq(Rows \cup {NoRow})
  BY DEF RInv, TypeOK
<1>2. 1 =< work[w].msg /\ work[w].msg =< work[w].last /\ work[w].last =< delivered
  BY DEF RInv, TaskShape
<1>3. work[w].msg \in Nat /\ work[w].last \in Nat
  BY <1>1 DEF Tasks
<1>4. work[w].msg \in 1..delivered /\ work[w].msg \in 1..Len(stream)
  BY <1>1, <1>2, <1>3
<1> QED
  BY <1>1, <1>4

(* Work on delivered messages begins, ends, or goes on where it is.        *)
LEMMA WorkKeeps ==
    ASSUME NEW w \in Workers, RInv, GroupTypes, NEW first \in Nat, NEW last \in Nat,
           1 =< first, first =< last, last =< delivered',
           delivered' \in Nat, delivered =< delivered',
           Begin(w, first, last) \/ UNCHANGED work \/ work' = [work EXCEPT ![w] = NoTask],
           UNCHANGED <<stream, recorded>>
    PROVE  work' \in [Workers -> Tasks] /\ TaskShape' /\ AckRecorded'
<1> DEFINE T == [step |-> "record", msg |-> first, last |-> last]
<1>1. T \in Tasks /\ NoTask \in Tasks /\ NoTask.step = "idle" /\ T.step = "record"
  BY DEF Tasks, NoTask
<1>2. work \in [Workers -> Tasks] /\ TaskShape /\ AckRecorded
  BY DEF RInv, TypeOK
<1>3. \A v \in Workers : work'[v] = work[v] \/ work'[v] = NoTask \/ work'[v] = T
  BY <1>2 DEF Begin
<1>4. work' \in [Workers -> Tasks]
  BY <1>1, <1>2 DEF Begin
<1>5. TaskShape'
  <2> SUFFICES ASSUME NEW v \in Workers, work'[v].step # "idle"
               PROVE  1 =< work'[v].msg /\ work'[v].msg =< work'[v].last
                      /\ work'[v].last =< delivered'
    BY DEF TaskShape
  <2>1. CASE work'[v] = work[v]
    <3>1. work[v].last \in Nat /\ delivered \in Nat
      BY <1>2 DEF Tasks, RInv, TypeOK
    <3> QED
      BY <1>2, <2>1, <3>1 DEF TaskShape
  <2>2. CASE work'[v] = T
    BY <2>2
  <2> QED
    BY <1>1, <1>3, <2>1, <2>2
<1>6. AckRecorded'
  <2> SUFFICES ASSUME NEW v \in Workers, work'[v].step = "ack"
               PROVE  stream[work'[v].msg] \in recorded \cup {NoRow}
    BY DEF AckRecorded
  <2>1. work'[v] = work[v]
    BY <1>1, <1>3
  <2> QED
    BY <1>2, <2>1 DEF AckRecorded
<1> QED
  BY <1>4, <1>5, <1>6

(* XREADGROUP: the messages delivered are pending.                         *)
LEMMA ReadKeeps ==
    ASSUME NEW c \in Consumers, RInv, Read(c) \/ ReadAnswerLost(c)
    PROVE  RInv'
<1> DEFINE n == NewMessages
<1>1. PubTypes /\ GroupTypes /\ PubInv /\ GroupInv /\ OnRecord
  BY Halves
<1>2. Len(stream) \in Nat /\ delivered \in 0..Len(stream) /\ pending \subseteq 1..delivered
  BY <1>1 DEF GroupTypes
<1>3. n \in Nat /\ n > 0 /\ delivered + n =< Len(stream)
  BY <1>2, RelayAssumption DEF NewMessages, Read, ReadAnswerLost, Deliver
<1> HIDE DEF n
<1>4. /\ delivered' = delivered + n
      /\ pending' = pending \cup (delivered + 1)..(delivered + n)
      /\ UNCHANGED <<outbox, pub, stream, idle, recorded>>
      /\ Trouble \/ NoTrouble
      /\ Begin(c, delivered + 1, delivered + n) \/ UNCHANGED work
  BY DEF Read, ReadAnswerLost, Deliver, n
<1>5. PubTypes' /\ PubInv' /\ UNCHANGED published
  BY <1>1, <1>4, PublishersStutter
<1>6. work' \in [Workers -> Tasks] /\ TaskShape' /\ AckRecorded'
  <2>1. c \in Workers /\ delivered \in Nat /\ delivered' \in Nat /\ delivered =< delivered'
    BY <1>2, <1>3, <1>4 DEF Workers
  <2>2. /\ delivered + 1 \in Nat /\ delivered + n \in Nat
        /\ 1 =< delivered + 1 /\ delivered + 1 =< delivered + n /\ delivered + n =< delivered'
    BY <1>3, <1>4, <2>1
  <2> QED
    BY <1>1, <1>4, <2>1, <2>2, WorkKeeps
<1>7. GroupTypes'
  BY <1>1, <1>2, <1>3, <1>4, <1>6 DEF GroupTypes
<1>8. MessagesKept'
  <2> SUFFICES ASSUME NEW m \in 1..Len(stream)
               PROVE  stream[m] \in recorded \cup {NoRow} \/ m > delivered + n \/ m \in pending'
    BY <1>4 DEF MessagesKept
  <2> QED
    BY <1>1, <1>2, <1>3, <1>4 DEF GroupInv, MessagesKept
<1>9. OnRecord'
  BY <1>1, <1>4, <1>5 DEF OnRecord, InStream
<1> QED
  BY <1>5, <1>6, <1>7, <1>8, <1>9, Parts DEF GroupInv

(* What is recorded stays recorded, and its message is then settled.       *)
LEMMA RecordedSettles ==
    ASSUME NEW w \in Workers, RInv, work[w].step # "idle"
    PROVE  /\ recorded \subseteq Recorded(w)
           /\ stream[work[w].msg] \in Recorded(w) \cup {NoRow}
           /\ Recorded(w) \subseteq Rows
           /\ Recorded(w) \subseteq InStream(stream)
<1>1. recorded \subseteq Rows /\ recorded \subseteq InStream(stream)
  BY DEF RInv, TypeOK, OnRecord
<1> QED
  BY <1>1, WorkMessage DEF Recorded, InStream

(* A worker records its message, and then goes on to XACK or stops.        *)
LEMMA RecordKeeps ==
    ASSUME NEW w \in Workers, RInv, work[w].step = "record", recorded' = Recorded(w),
           UNCHANGED <<outbox, pub, group>>, Trouble \/ NoTrouble,
           work' = [work EXCEPT ![w].step = "ack"] \/ work' = [work EXCEPT ![w] = NoTask]
    PROVE  RInv'
<1>1. PubTypes /\ GroupTypes /\ PubInv /\ GroupInv /\ OnRecord
  BY Halves
<1>2. PubTypes' /\ PubInv' /\ UNCHANGED published
  BY <1>1, PublishersStutter DEF group
<1>3. /\ recorded \subseteq recorded'
      /\ stream[work[w].msg] \in recorded' \cup {NoRow}
      /\ recorded' \subseteq Rows
      /\ recorded' \subseteq InStream(stream)
  BY RecordedSettles
<1>4. work[w] \in Tasks
  BY <1>1 DEF GroupTypes
<1> DEFINE T == [work[w] EXCEPT !.step = "ack"]
<1>5. T \in Tasks /\ T.step = "ack" /\ T.msg = work[w].msg /\ T.last = work[w].last
  BY <1>4 DEF Tasks
<1>6. NoTask \in Tasks /\ NoTask.step = "idle"
  BY DEF NoTask, Tasks
<1>7. work' = [work EXCEPT ![w] = T] \/ work' = [work EXCEPT ![w] = NoTask]
  OBVIOUS
<1> HIDE DEF T
<1>8. UNCHANGED <<stream, delivered, pending, idle>>
  BY DEF group
<1>9. GroupTypes'
  BY <1>1, <1>3, <1>5, <1>6, <1>7, <1>8 DEF GroupTypes
<1>10. TaskShape'
  BY <1>1, <1>5, <1>6, <1>7, <1>8 DEF GroupTypes, GroupInv, TaskShape
<1>11. AckRecorded'
  BY <1>1, <1>3, <1>5, <1>6, <1>7, <1>8 DEF GroupTypes, GroupInv, AckRecorded
<1>12. MessagesKept'
  BY <1>1, <1>3, <1>8 DEF GroupInv, MessagesKept
<1>13. OnRecord'
  BY <1>1, <1>2, <1>3, <1>8 DEF OnRecord
<1> QED
  BY <1>2, <1>9, <1>10, <1>11, <1>12, <1>13, Parts DEF GroupInv

(* XACK: only a recorded message ceases to be pending.                     *)
LEMMA AckKeeps ==
    ASSUME NEW w \in Workers, RInv, work[w].step = "ack", XAck(w),
           UNCHANGED <<outbox, pub, recorded>>, Trouble \/ NoTrouble,
           \/ work[w].msg < work[w].last /\ Begin(w, work[w].msg + 1, work[w].last)
           \/ work' = [work EXCEPT ![w] = NoTask]
    PROVE  RInv'
<1>1. PubTypes /\ GroupTypes /\ PubInv /\ GroupInv /\ OnRecord
  BY Halves
<1>2. UNCHANGED <<stream, delivered>> /\ pending' = pending \ {work[w].msg}
      /\ idle' = idle \ {work[w].msg}
  BY DEF XAck
<1>3. PubTypes' /\ PubInv' /\ UNCHANGED published
  BY <1>1, <1>2, PublishersStutter
<1>4. work[w] \in Tasks /\ work[w].msg \in 1..delivered
  BY WorkMessage
<1>5. work[w].msg \in Nat /\ work[w].last \in Nat /\ delivered \in Nat
      /\ work[w].msg =< work[w].last /\ work[w].last =< delivered
  BY <1>1, <1>4 DEF Tasks, GroupTypes, GroupInv, TaskShape
<1>6. work' \in [Workers -> Tasks] /\ TaskShape' /\ AckRecorded'
  <2>1. CASE work[w].msg < work[w].last /\ Begin(w, work[w].msg + 1, work[w].last)
    <3>1. work[w].msg + 1 \in Nat /\ 1 =< work[w].msg + 1 /\ work[w].msg + 1 =< work[w].last
      BY <1>5, <2>1
    <3> QED
      BY <1>1, <1>2, <1>5, <2>1, <3>1, WorkKeeps
  <2>2. CASE work' = [work EXCEPT ![w] = NoTask]
    <3>1. 1 =< work[w].msg /\ delivered' = delivered /\ delivered =< delivered
      BY <1>2, <1>4, <1>5
    <3> QED
      BY <1>1, <1>2, <1>5, <2>2, <3>1, WorkKeeps
  <2> QED
    BY <2>1, <2>2
<1>7. GroupTypes'
  BY <1>1, <1>2, <1>6 DEF GroupTypes
<1>8. MessagesKept'
  BY <1>1, <1>2 DEF GroupInv, AckRecorded, MessagesKept
<1>9. OnRecord'
  BY <1>1, <1>2, <1>3 DEF OnRecord
<1> QED
  BY <1>3, <1>6, <1>7, <1>8, <1>9, Parts DEF GroupInv

(* Idling, and XCLAIM by a recoverer, of a pending message.                *)
LEMMA IdleKeeps ==
    ASSUME NEW m \in pending, RInv, idle' \subseteq pending,
           UNCHANGED <<outbox, pub, stream, delivered, pending, recorded>>, Trouble \/ NoTrouble,
           UNCHANGED work \/ \E v \in Recoverers : Begin(v, m, m)
    PROVE  RInv'
<1>1. PubTypes /\ GroupTypes /\ PubInv /\ GroupInv /\ OnRecord
  BY Halves
<1>2. PubTypes' /\ PubInv' /\ UNCHANGED published
  BY <1>1, PublishersStutter
<1>3. m \in 1..delivered /\ delivered \in Nat
  BY <1>1 DEF GroupTypes
<1>4. work' \in [Workers -> Tasks] /\ TaskShape' /\ AckRecorded'
  <2>1. CASE UNCHANGED work
    BY <1>1, <2>1 DEF GroupTypes, GroupInv, TaskShape, AckRecorded
  <2>2. ASSUME NEW v \in Recoverers, Begin(v, m, m)
        PROVE  work' \in [Workers -> Tasks] /\ TaskShape' /\ AckRecorded'
    <3>1. v \in Workers /\ m \in Nat /\ 1 =< m /\ m =< m /\ m =< delivered'
      BY <1>3 DEF Workers
    <3> QED
      BY <1>1, <1>3, <2>2, <3>1, WorkKeeps
  <2> QED
    BY <2>1, <2>2
<1>5. GroupTypes'
  BY <1>1, <1>4 DEF GroupTypes
<1>6. MessagesKept'
  BY <1>1 DEF GroupInv, MessagesKept
<1>7. OnRecord'
  BY <1>1, <1>2 DEF OnRecord
<1> QED
  BY <1>2, <1>4, <1>5, <1>6, <1>7, Parts DEF GroupInv

-----------------------------------------------------------------------------
(* The theorems.                                                           *)

(* What the stream may hold before the first event.                        *)
LEMMA FirstStream ==
    ASSUME Init
    PROVE  /\ stream \in Seq(Rows \cup {NoRow})
           /\ Len(stream) \in Nat
           /\ \A m \in 1..Len(stream) : stream[m] = NoRow
<1>1. CASE stream = <<>>
  BY <1>1
<1>2. CASE stream = <<NoRow>>
  <2>1. stream \in Seq(Rows \cup {NoRow}) /\ Len(stream) = 1 /\ stream[1] = NoRow
    BY <1>2
  <2> QED
    BY <2>1
<1> QED
  BY <1>1, <1>2 DEF Init

(* The invariant holds in an empty table and group.                        *)
LEMMA InitHolds == Init => RInv
<1> SUFFICES ASSUME Init PROVE RInv
  OBVIOUS
<1>1. NoBatch \in Batches /\ NoBatch.step = "idle" /\ NoTask \in Tasks /\ NoTask.step = "idle"
  BY DEF NoBatch, Batches, NoTask, Tasks
<1>2. stream \in Seq(Rows \cup {NoRow}) /\ Len(stream) \in Nat
      /\ \A m \in 1..Len(stream) : stream[m] = NoRow
  BY FirstStream
<1>3. TypeOK
  BY <1>1, <1>2, RelayAssumption DEF Init, TypeOK
<1>4. BatchShape /\ BatchAdded
  BY <1>1 DEF Init, BatchShape, BatchAdded
<1>5. TaskShape /\ AckRecorded
  BY <1>1 DEF Init, TaskShape, AckRecorded
<1>6. MessagesKept /\ OnRecord
  BY <1>2 DEF Init, MessagesKept, OnRecord
<1> QED
  BY <1>3, <1>4, <1>5, <1>6 DEF RInv

(* Every step keeps it.                                                    *)
LEMMA StepKeepsRelay == RInv /\ [Next]_vars => RInv'
<1> SUFFICES ASSUME RInv, [Next]_vars PROVE RInv'
  OBVIOUS
<1>1. CASE Commit \/ \E r \in Rows : Lapse(r)
  BY <1>1, TableKeeps
<1>2. CASE \E p \in Publishers : Publishing(p)
  BY <1>2, ScanKeeps, AddKeeps, MarkKeeps DEF Publishing
<1>3. CASE \E c \in Consumers : Read(c) \/ ReadAnswerLost(c)
  BY <1>3, ReadKeeps
<1>4. ASSUME NEW w \in Workers, Record(w) \/ Ack(w) \/ WorkerStops(w)
      PROVE  RInv'
  <2>1. CASE Record(w)
    BY <2>1, RecordKeeps DEF Record
  <2>2. CASE Ack(w)
    BY <2>2, AckKeeps DEF Ack
  <2>3. CASE WorkerStops(w)
    <3>1. CASE UNCHANGED <<group, recorded>>
      <4>1. PubTypes /\ GroupTypes /\ PubInv /\ GroupInv /\ OnRecord
        BY Halves
      <4>2. /\ UNCHANGED <<outbox, pub, stream, delivered, pending, idle, recorded>>
            /\ work' = [work EXCEPT ![w] = NoTask]
            /\ Trouble
        BY <2>3, <3>1 DEF WorkerStops, group
      <4>3. PubTypes' /\ PubInv' /\ UNCHANGED published
        BY <4>1, <4>2, PublishersStutter
      <4>4. NoTask \in Tasks /\ NoTask.step = "idle"
        BY DEF NoTask, Tasks
      <4>5. GroupTypes' /\ GroupInv'
        BY <4>1, <4>2, <4>4
           DEF GroupTypes, GroupInv, TaskShape, AckRecorded, MessagesKept
      <4>6. OnRecord'
        BY <4>1, <4>2, <4>3 DEF OnRecord
      <4> QED
        BY <4>3, <4>5, <4>6, Parts DEF GroupInv
    <3>2. CASE work[w].step = "record" /\ recorded' = Recorded(w) /\ UNCHANGED group
      BY <2>3, <3>2, RecordKeeps DEF WorkerStops
    <3>3. CASE work[w].step = "ack" /\ XAck(w) /\ UNCHANGED recorded
      BY <2>3, <3>3, AckKeeps DEF WorkerStops
    <3> QED
      BY <2>3, <3>1, <3>2, <3>3 DEF WorkerStops
  <2> QED
    BY <1>4, <2>1, <2>2, <2>3
<1>5. ASSUME NEW m \in pending, Idles(m)
      PROVE  RInv'
  <2>1. idle \subseteq pending
    BY DEF RInv, TypeOK
  <2> QED
    BY <1>5, <2>1, IdleKeeps DEF Idles
<1>6. ASSUME NEW v \in Recoverers, NEW m \in pending, Recover(v, m) \/ RecoverAnswerLost(v, m)
      PROVE  RInv'
  <2>1. idle \subseteq pending
    BY DEF RInv, TypeOK
  <2> QED
    BY <1>6, <2>1, IdleKeeps DEF Recover, RecoverAnswerLost, ClaimMessage
<1>7. CASE UNCHANGED vars
  <2>1. PubTypes /\ GroupTypes /\ PubInv /\ GroupInv /\ OnRecord
    BY Halves
  <2>2. GroupTypes' /\ GroupInv' /\ InStream(stream)' = InStream(stream)
    BY <1>7, <2>1, GroupStutters DEF vars
  <2>3. PubTypes' /\ PubInv' /\ OnRecord'
    BY <1>7, <2>1, <2>2 DEF vars, outbox, PubTypes, PubInv, BatchShape, BatchAdded, OnRecord
  <2> QED
    BY <2>2, <2>3, Parts
<1> QED
  BY <1>1, <1>2, <1>3, <1>4, <1>5, <1>6, <1>7 DEF Next

(* RInv is an invariant of the relay.                                      *)
LEMMA RelayInvariance == Spec => []RInv
  BY InitHolds, StepKeepsRelay, PTL DEF Spec

(* Rows, claims, batches, messages and tasks keep their types: nothing is  *)
(* published that was not committed, nothing idle that is not pending.     *)
THEOREM RelayTypeCorrect == Spec => []TypeOK
<1>1. RInv => TypeOK
  BY DEF RInv
<1> QED
  BY <1>1, RelayInvariance, PTL

(* However calls fail and tasks die, a committed event is unpublished, on  *)
(* its way with a message in the group, or recorded (pubsub 78-182).       *)
THEOREM EventsNotForgotten == Spec => []NothingForgotten
<1>1. RInv => NothingForgotten
  <2> SUFFICES ASSUME RInv, NEW r \in 1..committed, r \notin recorded, r \in published
               PROVE  \E m \in 1..Len(stream) :
                         stream[m] = r /\ (m > delivered \/ m \in pending)
    BY DEF NothingForgotten
  <2>1. PICK m \in 1..Len(stream) : stream[m] = r
    BY DEF RInv, OnRecord, InStream
  <2>2. r # NoRow
    BY DEF RInv, TypeOK, NoRow
  <2> QED
    BY <2>1, <2>2 DEF RInv, MessagesKept
<1> QED
  BY <1>1, RelayInvariance, PTL

(* A claim is ended by its own batch or, once lapsed, by another claim,    *)
(* however slow a publisher is: the token fences it off (pubsub 111-119).  *)
THEOREM ClaimsFenced == Spec => ClaimFenced
<1> DEFINE Fenced ==
      \A r \in Rows :
          claim[r] # NoOne /\ claim'[r] # claim[r] =>
             \/ r \in lapsed /\ claim'[r] # NoOne
             \/ RowOf(claim[r]) = r /\ pub[claim[r]].step \in {"mark", "unclaim"}
                /\ pub'[claim[r]] # pub[claim[r]]
<1>1. RInv /\ [Next]_vars => [Fenced]_vars
  <2> SUFFICES ASSUME RInv, Next, NEW r \in Rows, claim[r] # NoOne, claim'[r] # claim[r]
               PROVE  \/ r \in lapsed /\ claim'[r] # NoOne
                      \/ RowOf(claim[r]) = r /\ pub[claim[r]].step \in {"mark", "unclaim"}
                         /\ pub'[claim[r]] # pub[claim[r]]
    OBVIOUS
  <2>1. PICK p \in Publishers : Publishing(p)
    BY DEF Next, Commit, Lapse, Read, ReadAnswerLost, Deliver, Record, Ack, WorkerStops, Idles,
           Recover, RecoverAnswerLost, ClaimMessage, outbox
  <2>2. claim \in [Rows -> Publishers \cup {NoOne}] /\ pub \in [Publishers -> Batches]
    BY DEF RInv, TypeOK
  <2>3. CASE Scan(p) \/ ScanAnswerLost(p)
    <3>1. ClaimRows(p, Oldest(ClaimLimit, Claimable))
      BY <2>3 DEF Scan, ScanAnswerLost
    <3>2. r \in Oldest(ClaimLimit, Claimable) /\ claim'[r] = p
      BY <2>2, <3>1 DEF ClaimRows
    <3>3. r \in lapsed
      BY <3>2, OldestOf DEF Claimable
    <3> QED
      BY <3>2, <3>3, RelayAssumption
  <2>4. CASE Mark(p) \/ MarkFails(p) \/ Unclaim(p)
    <3>1. claim[r] = p /\ RowOf(p) = r
      BY <2>2, <2>4 DEF Mark, MarkFails, Unclaim, SetPublished, SetUnclaimed, Owns
    <3>2. pub[p].step \in {"mark", "unclaim"}
      BY <2>4 DEF Mark, MarkFails, Unclaim, At
    <3>3. pub'[p] # pub[p]
      <4>1. CASE MarkFails(p)
        <5>1. pub'[p].step = "unclaim" /\ pub[p].step = "mark"
          BY <2>2, <4>1 DEF MarkFails, Goto, At, Batches
        <5> QED
          BY <5>1
      <4>2. CASE Mark(p) \/ Unclaim(p)
        <5>1. pub'[p].step \in {"idle", "add"}
          BY <2>2, <4>2 DEF Mark, Unclaim, Turn, NoBatch
        <5> QED
          BY <3>2, <5>1
      <4> QED
        BY <2>4, <4>1, <4>2
    <3> QED
      BY <3>1, <3>2, <3>3
  <2>5. CASE Add(p) \/ AddResent(p) \/ AddFails(p) \/ UnclaimFails(p) \/ PublisherDies(p)
    BY <2>5 DEF Add, AddResent, AddFails, UnclaimFails, PublisherDies, outbox
  <2> QED
    BY <2>1, <2>3, <2>4, <2>5 DEF Publishing
<1> QED
  BY <1>1, RelayInvariance, PTL DEF Spec, ClaimFenced

(* The stream of a step that is not XADD, and the one that is.             *)
LEMMA StreamSteps ==
    ASSUME RInv, Next
    PROVE  \/ UNCHANGED stream
           \/ \E p \in Publishers :
                 ~At(p, "idle") /\ XAdd(p) /\ UNCHANGED <<committed, recorded>>
  BY DEF Next, Publishing, Commit, Lapse, Scan, ScanAnswerLost, ClaimRows, Add, AddResent,
         AddFails, Mark, MarkFails, Unclaim, UnclaimFails, PublisherDies, Read, ReadAnswerLost,
         Deliver, Record, Ack, XAck, WorkerStops, Idles, Recover, RecoverAnswerLost,
         ClaimMessage, group, outbox, At

(* The record of a step that records, and of one that does not.            *)
LEMMA RecordSteps ==
    ASSUME RInv, Next
    PROVE  \/ UNCHANGED recorded
           \/ \E w \in Workers : /\ work[w].step = "record"
                                  /\ recorded' = Recorded(w)
                                  /\ UNCHANGED <<committed, stream>>
  BY DEF Next, Publishing, Commit, Lapse, Scan, ScanAnswerLost, ClaimRows, Add, AddResent,
         AddFails, Mark, MarkFails, Unclaim, UnclaimFails, PublisherDies, Read, ReadAnswerLost,
         Deliver, Record, Ack, WorkerStops, Idles, Recover, RecoverAnswerLost,
         ClaimMessage, group, outbox

(* The table grows by commits only.                                        *)
LEMMA CommitSteps ==
    ASSUME RInv, Next
    PROVE  \/ UNCHANGED committed
           \/ committed < MaxRows /\ committed' = committed + 1 /\ UNCHANGED <<stream, recorded>>
  BY DEF Next, Publishing, Commit, Lapse, Scan, ScanAnswerLost, ClaimRows, Add, AddResent,
         AddFails, Mark, MarkFails, Unclaim, UnclaimFails, PublisherDies, Read, ReadAnswerLost,
         Deliver, Record, Ack, WorkerStops, Idles, Recover, RecoverAnswerLost,
         ClaimMessage, group, outbox

(* The relay delivers as EventDelivery says: no event reaches the stream   *)
(* before its commit or the record before the stream, and no step takes    *)
(* one back, whatever is lost, repeated or late.                           *)
THEOREM DeliveryRefined == Spec => ImplementsDelivery
<1> USE DEF Delivery!vars, Delivery!Commit, Delivery!Publish, Delivery!Record
<1>1. Init => Delivery!Init
  <2> SUFFICES ASSUME Init PROVE Delivery!Init
    OBVIOUS
  <2>1. NoRow \notin Rows
    BY RelayAssumption DEF Rows, NoRow
  <2>2. InStream(stream) = {}
    BY <2>1, FirstStream DEF InStream
  <2>3. 1..committed = {} /\ recorded = {}
    BY DEF Init
  <2> QED
    BY <2>2, <2>3 DEF Delivery!Init
<1>2. RInv /\ [Next]_vars => [Delivery!Next]_(Delivery!vars)
  <2> SUFFICES ASSUME RInv, [Next]_vars PROVE [Delivery!Next]_(Delivery!vars)
    OBVIOUS
  <2>1. committed \in 0..MaxRows /\ 1..committed \subseteq Rows
    BY RelayAssumption DEF RInv, TypeOK, Rows
  <2>2. CASE UNCHANGED vars
    BY <2>2 DEF vars, outbox, group
  <2>3. ASSUME Next, committed' # committed
        PROVE  Delivery!Next
    <3>1. committed < MaxRows /\ committed' = committed + 1 /\ UNCHANGED <<stream, recorded>>
      BY <2>3, CommitSteps
    <3>2. committed + 1 \in Rows /\ committed + 1 \notin 1..committed
          /\ 1..committed' = (1..committed) \cup {committed + 1}
      BY <2>1, <3>1, RelayAssumption DEF Rows
    <3> QED
      BY <3>1, <3>2 DEF Delivery!Next
  <2>4. ASSUME Next, NEW p \in Publishers, ~At(p, "idle"), XAdd(p),
               UNCHANGED <<committed, recorded>>
        PROVE  Delivery!Next
    <3>1. RowOf(p) \in 1..committed /\ RowOf(p) \in Rows
      BY <2>4, BatchRow
    <3>2. InStream(stream') = InStream(stream) \cup {RowOf(p)}
      BY <2>4, <3>1, StreamGrows DEF RInv, TypeOK, XAdd
    <3> QED
      BY <2>4, <3>1, <3>2 DEF Delivery!Next
  <2>5. ASSUME Next, NEW w \in Workers, work[w].step = "record", recorded' = Recorded(w),
               UNCHANGED <<committed, stream>>
        PROVE  [Delivery!Next]_(Delivery!vars)
    <3>1. CASE stream[work[w].msg] = NoRow
      BY <2>5, <3>1 DEF Recorded
    <3>2. CASE stream[work[w].msg] # NoRow
      <4>1. stream[work[w].msg] \in Rows /\ stream[work[w].msg] \in InStream(stream)
        BY <2>5, <3>2, WorkMessage DEF InStream
      <4>2. recorded' = recorded \cup {stream[work[w].msg]}
        BY <2>5, <3>2 DEF Recorded
      <4> QED
        BY <2>5, <4>1, <4>2 DEF Delivery!Next
    <3> QED
      BY <3>1, <3>2
  <2>6. CASE UNCHANGED <<committed, stream, recorded>>
    BY <2>6
  <2> QED
    BY <2>2, <2>3, <2>4, <2>5, <2>6, StreamSteps, RecordSteps
<1> QED
  BY <1>1, <1>2, RelayInvariance, PTL DEF Spec, ImplementsDelivery, Delivery!Spec
=============================================================================
