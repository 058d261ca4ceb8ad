----------------------------- MODULE MCCheckout -----------------------------
(* Checkout on a small instance: two orders compete for one seat. *)
EXTENDS Checkout, TLC

Symmetry == Permutations(Orders) \cup Permutations(Attempts)

=============================================================================
