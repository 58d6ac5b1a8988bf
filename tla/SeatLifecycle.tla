---------------------------- MODULE SeatLifecycle ----------------------------
(***************************************************************************)
(* What the ticketing system promises about one seat and the money paid    *)
(* for it, as the state diagram of ARCHITECTURE.md draws it: a seat is     *)
(* free, held or sold; a generation's payment is none, kept by the sale,   *)
(* owed back or refunded.  Rows, transactions, clocks and events are       *)
(* left to the modules that implement it.                                  *)
(***************************************************************************)
CONSTANTS Generations, NoGeneration

VARIABLES
    phase,    \* "free", "held" or "sold"
    holder,   \* the generation that holds or has bought the seat
    money     \* what became of each generation's payment

vars == <<phase, holder, money>>

Init ==
    /\ \/ phase = "free" /\ holder = NoGeneration
       \/ phase = "held" /\ holder \in Generations
    /\ money = [g \in Generations |-> "none"]

(* A hold begins when the seat is not sold, under a generation that no     *)
(* money has ever been connected with.                                     *)
Hold(g) ==
    /\ phase # "sold"
    /\ money[g] = "none"
    /\ phase' = "held"
    /\ holder' = g
    /\ UNCHANGED money

(* Only the holder's own payment, never owed or returned before, buys.     *)
Sell(g) ==
    /\ phase = "held"
    /\ holder = g
    /\ money[g] = "none"
    /\ phase' = "sold"
    /\ money' = [money EXCEPT ![g] = "kept"]
    /\ UNCHANGED holder

(* A late payment is owed back; it may free the seat of a lapsed hold of   *)
(* its own generation and of no other.                                     *)
Owe(g) ==
    /\ money[g] = "none"
    /\ money' = [money EXCEPT ![g] = "owed"]
    /\ \/ UNCHANGED <<phase, holder>>
       \/ /\ phase = "held"
          /\ holder = g
          /\ phase' = "free"
          /\ holder' = NoGeneration

Refund(g) ==
    /\ money[g] = "owed"
    /\ money' = [money EXCEPT ![g] = "refunded"]
    /\ UNCHANGED <<phase, holder>>

Next == \E g \in Generations : Hold(g) \/ Sell(g) \/ Owe(g) \/ Refund(g)

Spec == Init /\ [][Next]_vars
=============================================================================
