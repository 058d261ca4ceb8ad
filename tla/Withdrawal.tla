----------------------------- MODULE Withdrawal -----------------------------
(***************************************************************************)
(* The withdrawals a companion asks for (companion-lifecycle.service.ts),  *)
(* composed with the ledger of Settlement.  A withdrawal names earnings    *)
(* that are available when it is requested and moves no money: each        *)
(* earning is paid out by the steps of Settlement, and finance may close   *)
(* the withdrawal once all of them are paid.  Nothing of Settlement looks  *)
(* at withdrawals.  Who of finance reviews one makes no difference.        *)
(***************************************************************************)
EXTENDS Settlement

CONSTANTS
    Withdrawals     \* the requests of the companion

VARIABLES
    withdrawal,     \* CompanionWithdrawalRequest.status
    covers          \* its earningIds

withdrawals == <<withdrawal, covers>>
allVars == <<vars, withdrawals>>

ActiveWithdrawal == {"requested", "reviewing", "approved", "processing"}

WithdrawalTypeOK ==
    /\ withdrawal \in [Withdrawals -> ActiveWithdrawal \cup {"none", "paid", "rejected", "cancelled"}]
    /\ covers \in [Withdrawals -> SUBSET Earnings]

WithdrawalInit ==
    /\ Init
    /\ withdrawal = [w \in Withdrawals |-> "none"]
    /\ covers = [w \in Withdrawals |-> {}]

WithdrawalIn(w, statuses) == withdrawal[w] \in statuses

SetWithdrawal(w, s) == withdrawal' = [withdrawal EXCEPT ![w] = s]

RequestWithdrawal(w, wanted) ==
    /\ withdrawal[w] = "none"
    /\ profileOk
    /\ \A other \in Withdrawals : WithdrawalIn(other, ActiveWithdrawal) => covers[other] \cap wanted = {}
    /\ \A e \in wanted : status[e] = "available"
    /\ SetWithdrawal(w, "requested")
    /\ covers' = [covers EXCEPT ![w] = wanted]

CancelWithdrawal(w) ==
    /\ withdrawal[w] = "requested"
    /\ SetWithdrawal(w, "cancelled")
    /\ UNCHANGED covers

AllowedTransitions ==
    [requested  |-> {"reviewing", "approved", "rejected"},
     reviewing  |-> {"approved", "rejected"},
     approved   |-> {"processing"},
     processing |-> {"paid"}]

\* Mutant of Settled: the status at the request is still believed.
SettledOrOffered(w) == \A e \in covers[w] : status[e] \in {"available", "paid"}

Settled(w) == \A e \in covers[w] : status[e] = "paid"

UpdateWithdrawal(w, next) ==
    /\ WithdrawalIn(w, ActiveWithdrawal) /\ next \in AllowedTransitions[withdrawal[w]]
    /\ next = "paid" => Settled(w)
    /\ SetWithdrawal(w, next)
    /\ UNCHANGED covers

WithdrawalStep(w) ==
    \/ \E wanted \in (SUBSET Earnings) \ {{}} : RequestWithdrawal(w, wanted)
    \/ CancelWithdrawal(w)
    \/ \E next \in {"reviewing", "approved", "rejected", "processing", "paid"} : UpdateWithdrawal(w, next)

WithdrawalNext ==
    \/ Next /\ UNCHANGED withdrawals
    \/ UNCHANGED vars /\ \E w \in Withdrawals : WithdrawalStep(w)

WithdrawalSpec == WithdrawalInit /\ [][WithdrawalNext]_allVars

-----------------------------------------------------------------------------

\* What a closed withdrawal says has been paid out stays paid, and no other
\* withdrawal that is active or closed asks for the same earning, whatever
\* refunds, claims and cancellations came between the request and its closing.
WithdrawnOnce ==
    \A w \in Withdrawals : WithdrawalIn(w, {"paid"}) =>
        /\ \A e \in covers[w] : status[e] = "paid"
        /\ \A other \in Withdrawals \ {w} :
              WithdrawalIn(other, ActiveWithdrawal \cup {"paid"}) => covers[other] \cap covers[w] = {}

=============================================================================
