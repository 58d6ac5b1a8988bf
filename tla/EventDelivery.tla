---------------------------- MODULE EventDelivery ----------------------------
(***************************************************************************)
(* What the outbox promises (ARCHITECTURE.md, "entrega al menos una vez"): *)
(* an event committed with its row change reaches the stream after that,   *)
(* and is recorded in ProcessedOrderEvent after that, for good.  Claims,   *)
(* batches, duplicates and consumer groups are left to the implementation. *)
(***************************************************************************)
CONSTANT Rows

VARIABLES
    committed,   \* events whose transaction has committed
    streamed,    \* events of which the stream has had a message
    recorded     \* events in ProcessedOrderEvent

vars == <<committed, streamed, recorded>>

Init == committed = {} /\ streamed = {} /\ recorded = {}

Commit(r) ==
    /\ r \notin committed
    /\ committed' = committed \cup {r}
    /\ UNCHANGED <<streamed, recorded>>

Publish(r) ==
    /\ r \in committed
    /\ streamed' = streamed \cup {r}
    /\ UNCHANGED <<committed, recorded>>

Record(r) ==
    /\ r \in streamed
    /\ recorded' = recorded \cup {r}
    /\ UNCHANGED <<committed, streamed>>

Next == \E r \in Rows : Commit(r) \/ Publish(r) \/ Record(r)

Spec == Init /\ [][Next]_vars
=============================================================================
