------------------------------- MODULE MCDesk -------------------------------
(* Desk with two administrators, an agent of support, of supply and of      *)
(* finance, a lead and a reviewer of the review department, and the kinds   *)
(* of work that arise together.  There is one of each kind of work but two  *)
(* replies, account actions, download workers and moderation cases, which   *)
(* have the same two identifiers so that Symmetry permutes them all.        *)
EXTENDS Desk, TLC

Mix(w, c, l, m) == [work |-> w, crew |-> c, late |-> l, most |-> m]

Mixes ==
    {Mix({"file"}, {}, 0, 0),
     Mix({"case"}, Admins \cup Support, 1, 0),
     Mix({"standing", "identity"}, Admins, 0, 1),
     Mix({"right", "incident"}, Staff \ Finance, 1, 0),
     Mix({"standing"}, Admins \cup Supply, 0, 1),
     Mix({"ticket", "incident", "sanction"}, Staff \ Finance, 1, 0)} \cup
    {Mix({"standing"}, {a} \cup Supply, 0, 2) : a \in Admins} \cup
    {Mix({"complaint"}, {a} \cup Support, 0, 0) : a \in Admins} \cup
    {Mix({"bill"}, {a} \cup Finance, 1, 0) : a \in Admins}

OnlyCases == {g \in Mixes : g.work = {"case"}}

Symmetry == Permutations(Admins) \cup Permutations(Actions)

=============================================================================
