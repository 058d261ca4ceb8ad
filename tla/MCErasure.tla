----------------------------- MODULE MCErasure -----------------------------
(* Erasure with two administrators, two messages and grants of each kind,   *)
(* and the record of another account with a file of each: the other's is    *)
(* evidence in a case of both.                                              *)
EXTENDS Erasure, TLC

CONSTANTS ra, rb, m1, m2

UploaderOf == (m1 :> ra) @@ (m2 :> rb)

PartiesOf == (m1 :> {ra}) @@ (m2 :> {ra, rb})

Mixes ==
    {{"failure", "order", "sanction"}, {"profile", "failure", "order"}, {"order", "message"},
     {"failure", "reminder"}, {"failure", "login"}, {"file"}}

Symmetry == Permutations(Admins) \cup Permutations(Deliveries) \cup Permutations(EventGrants) \cup Permutations(Logins)

=============================================================================
