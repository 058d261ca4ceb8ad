----------------------------- MODULE MCContact -----------------------------
(* Contact with two processes on each side, and what occurs together. *)
EXTENDS Contact, TLC

Mixes == {{"voice", "refund"}, {"voice", "emergency"}, {"media"}}

=============================================================================
