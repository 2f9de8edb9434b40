--------------------------- MODULE OrderContract ---------------------------
(****************************************************************************)
(* What an order promises, without saying how: the abstract specification   *)
(* that OrderLifecycle implements.  An order is opened by a checkout,       *)
(* accepted (by the buyer's settled payment or by the merchant), delivered  *)
(* or closed.  Its units are claimed from the shelf as a whole or not at    *)
(* all; a payment can only settle an order whose units are already claimed; *)
(* closing an order gives its claim back, and nothing leaves a final phase. *)
(****************************************************************************)
EXTENDS Naturals

CONSTANT NumOrders

VARIABLES phase,    \* where the order stands, as its buyer sees it
          claim,    \* whether its units are off the shelf
          settled   \* whether a payment has settled it

vars == <<phase, claim, settled>>

Orders == 1..NumOrders

Init ==
    /\ phase = [o \in Orders |-> "absent"]
    /\ claim = [o \in Orders |-> "none"]
    /\ settled = [o \in Orders |-> FALSE]

Open(o) ==
    /\ phase[o] = "absent"
    /\ phase' = [phase EXCEPT ![o] = "open"]
    /\ \E c \in {"none", "held"} : claim' = [claim EXCEPT ![o] = c]
    /\ UNCHANGED settled

\* The buyer's payment accepts the order; the units were claimed beforehand.
Settle(o) ==
    /\ phase[o] = "open"
    /\ claim[o] = "held"
    /\ phase' = [phase EXCEPT ![o] = "accepted"]
    /\ settled' = [settled EXCEPT ![o] = TRUE]
    /\ UNCHANGED claim

\* The merchant accepts the order; units not yet claimed are claimed now.
Accept(o) ==
    /\ phase[o] = "open"
    /\ phase' = [phase EXCEPT ![o] = "accepted"]
    /\ claim' = [claim EXCEPT ![o] = "held"]
    /\ UNCHANGED settled

Deliver(o) ==
    /\ phase[o] = "accepted"
    /\ phase' = [phase EXCEPT ![o] = "delivered"]
    /\ UNCHANGED <<claim, settled>>

Close(o) ==
    /\ phase[o] \in {"open", "accepted"}
    /\ phase' = [phase EXCEPT ![o] = "closed"]
    /\ claim' = [claim EXCEPT ![o] = "none"]
    /\ UNCHANGED settled

Next == \E o \in Orders :
            \/ Open(o)
            \/ Settle(o)
            \/ Accept(o)
            \/ Deliver(o)
            \/ Close(o)

Spec == Init /\ [][Next]_vars
=============================================================================
