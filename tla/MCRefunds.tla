----------------------------- MODULE MCRefunds -----------------------------
(* Refunds on a small instance: two refunds of one order, two members of staff. *)
EXTENDS Refunds

=============================================================================
