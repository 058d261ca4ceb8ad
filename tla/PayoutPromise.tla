--------------------------- MODULE PayoutPromise ---------------------------
(***************************************************************************)
(* What paying a companion promises, without claims, holds, complaints,    *)
(* cases, ages or workers: each earning is transferred by one person, once *)
(* and while it is owed; it counts as paid only then, and only when the    *)
(* companion owes nothing; it is void only if nothing was sent; and what a *)
(* refund or a complaint takes back is taken back once.  Settlement        *)
(* implements this module.                                                 *)
(***************************************************************************)

CONSTANTS Earnings, Staff, Complaints

VARIABLES
    state,     \* of each earning: none, owed, paid or void
    sent,      \* who has transferred its money
    debt,      \* by cause and earning, what the companion is to give back: none, due or recovered
    refunded   \* the earnings whose orders have been refunded

vars == <<state, sent, debt, refunded>>

Causes == {"refund"} \cup Complaints

Init ==
    /\ state = [e \in Earnings |-> "none"]
    /\ sent = [e \in Earnings |-> {}]
    /\ debt = [d \in Causes \X Earnings |-> "none"]
    /\ refunded = {}

Earn(e) ==
    /\ state[e] = "none" /\ e \notin refunded
    /\ state' = [state EXCEPT ![e] = "owed"]
    /\ UNCHANGED <<sent, debt, refunded>>

Send(s, e) ==
    /\ state[e] = "owed" /\ sent[e] = {}
    /\ sent' = [sent EXCEPT ![e] = {s}]
    /\ UNCHANGED <<state, debt, refunded>>

Settle(e) ==
    /\ state[e] = "owed" /\ sent[e] # {}
    /\ \A d \in Causes \X Earnings : debt[d] # "due"
    /\ state' = [state EXCEPT ![e] = "paid"]
    /\ UNCHANGED <<sent, debt, refunded>>

\* The companion's money of this order was never sent and is void, or it may have
\* been and is owed back.
Refund(e) ==
    /\ e \notin refunded
    /\ refunded' = refunded \cup {e}
    /\ \/ state[e] = "none" /\ UNCHANGED <<state, debt>>
       \/ /\ state[e] = "owed" /\ sent[e] = {}
          /\ state' = [state EXCEPT ![e] = "void"]
          /\ UNCHANGED debt
       \/ /\ state[e] \in {"owed", "paid"}
          /\ debt[<<"refund", e>>] = "none"
          /\ debt' = [debt EXCEPT ![<<"refund", e>>] = "due"]
          /\ UNCHANGED state
    /\ UNCHANGED sent

\* Complaints take back only what was sent, and for each complaint once.
Complained(D) ==
    /\ \A d \in D : debt[d] = "none" /\ sent[d[2]] # {}
    /\ debt' = [d \in Causes \X Earnings |-> IF d \in D THEN "due" ELSE debt[d]]
    /\ UNCHANGED <<state, sent, refunded>>

Recover(d) ==
    /\ debt[d] = "due"
    /\ debt' = [debt EXCEPT ![d] = "recovered"]
    /\ UNCHANGED <<state, sent, refunded>>

Next ==
    \/ \E e \in Earnings : Earn(e) \/ Settle(e) \/ Refund(e) \/ \E s \in Staff : Send(s, e)
    \/ \E D \in SUBSET (Complaints \X Earnings) : Complained(D)
    \/ \E d \in Causes \X Earnings : Recover(d)

Spec == Init /\ [][Next]_vars

=============================================================================
