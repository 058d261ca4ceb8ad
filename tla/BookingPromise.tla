--------------------------- MODULE BookingPromise ---------------------------
(***************************************************************************)
(* What taking payment for a slot promises, without reservations, prepays, *)
(* clocks or crashes: a customer is charged at most once for an order, only *)
(* as many orders are charged as there are seats, a booking exists only    *)
(* for a charged order and is never taken back here, and every charged     *)
(* order is finally booked.  Checkout implements this module.              *)
(***************************************************************************)
EXTENDS Naturals, FiniteSets

CONSTANTS Orders, Capacity

VARIABLES
    charges,  \* how many times the customer has paid for each order
    booked    \* the orders recorded as paid

vars == <<charges, booked>>

Init ==
    /\ charges = [o \in Orders |-> 0]
    /\ booked = {}

Charge(o) ==
    /\ charges[o] = 0
    /\ Cardinality({x \in Orders : charges[x] > 0}) < Capacity
    /\ charges' = [charges EXCEPT ![o] = 1]
    /\ UNCHANGED booked

Book(o) ==
    /\ charges[o] > 0
    /\ booked' = booked \cup {o}
    /\ UNCHANGED charges

Next == \E o \in Orders : Charge(o) \/ Book(o)

Safety == Init /\ [][Next]_vars

Spec == Safety /\ \A o \in Orders : WF_vars(Book(o))

=============================================================================
