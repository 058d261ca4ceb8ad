-------------------------- MODULE WithdrawalProofs --------------------------
(***************************************************************************)
(* Proofs about Withdrawal, for any number of earnings and withdrawals.    *)
(* Withdrawals leave the ledger alone, so what SettlementProofs shows of   *)
(* it holds here; what is added is that no two withdrawals that are active *)
(* or closed ever share an earning.                                        *)
(***************************************************************************)
EXTENDS Withdrawal, SettlementProofs

Binding == ActiveWithdrawal \cup {"paid"}

\* Every withdrawal that is active or closed has its earnings for itself, which is
\* more than WithdrawnOnce says of the closed ones: the invariant that is inductive.
Apart ==
    \A w, other \in Withdrawals :
        w # other /\ withdrawal[w] \in Binding /\ withdrawal[other] \in Binding
            => covers[w] \cap covers[other] = {}

PaidOut == \A w \in Withdrawals : withdrawal[w] = "paid" => \A e \in covers[w] : status[e] = "paid"

WithdrawalInv == WithdrawalTypeOK /\ Apart /\ PaidOut

\* The ledger below the withdrawals takes its own steps only.
THEOREM LedgerUndisturbed == WithdrawalSpec => Spec
<1>1. WithdrawalInit => Init
    BY DEF WithdrawalInit
<1>2. [WithdrawalNext]_allVars => [Next]_vars
    BY DEF WithdrawalNext, allVars
<1> QED BY <1>1, <1>2, PTL DEF WithdrawalSpec, Spec

LEMMA WithdrawalStarts == ASSUME WithdrawalInit PROVE WithdrawalInv
BY DEF WithdrawalInit, WithdrawalInv, WithdrawalTypeOK, Apart, PaidOut, Binding, ActiveWithdrawal

LEMMA RequestKeeps ==
    ASSUME WithdrawalInv, UNCHANGED vars,
           NEW w \in Withdrawals, NEW wanted \in SUBSET Earnings, RequestWithdrawal(w, wanted)
    PROVE  WithdrawalInv'
<1> USE DEF WithdrawalInv, WithdrawalTypeOK, RequestWithdrawal, SetWithdrawal
<1>1. WithdrawalTypeOK'
    BY DEF ActiveWithdrawal
<1>2. status' = status
    BY DEF vars, funds
<1>3. PaidOut'
    BY <1>2 DEF PaidOut
<1>4. \A other \in Withdrawals : withdrawal[other] \in Binding => covers[other] \cap wanted = {}
    BY DEF Binding, WithdrawalIn, PaidOut
<1>5. Apart'
    BY <1>4 DEF Apart
<1> QED BY <1>1, <1>3, <1>5

LEMMA ChangeKeeps ==
    ASSUME WithdrawalInv, UNCHANGED vars, NEW w \in Withdrawals,
           CancelWithdrawal(w) \/ \E next \in {"reviewing", "approved", "rejected", "processing", "paid"} : UpdateWithdrawal(w, next)
    PROVE  WithdrawalInv'
<1> USE DEF WithdrawalInv, WithdrawalTypeOK, SetWithdrawal, WithdrawalIn
<1>1. PICK s \in ActiveWithdrawal \cup {"paid", "rejected", "cancelled"} :
          /\ withdrawal[w] \in ActiveWithdrawal
          /\ withdrawal' = [withdrawal EXCEPT ![w] = s]
          /\ s = "paid" => Settled(w)
          /\ covers' = covers
    BY DEF CancelWithdrawal, UpdateWithdrawal, ActiveWithdrawal
<1>2. WithdrawalTypeOK'
    BY <1>1
<1>3. status' = status
    BY DEF vars, funds
<1>4. PaidOut'
    BY <1>1, <1>3 DEF PaidOut, Settled
<1>5. Apart'
    BY <1>1 DEF Apart, Binding
<1> QED BY <1>2, <1>4, <1>5

\* A step of the ledger changes nothing that is paid.
LEMMA LedgerKeeps ==
    ASSUME WithdrawalInv, TypeOK, ClaimInv, [Next]_vars, UNCHANGED withdrawals
    PROVE  WithdrawalInv'
<1>1. \A e \in Earnings : status[e] = "paid" => status'[e] = "paid"
    BY ClosedStays DEF CompleteService, Open
<1>2. PaidOut'
    BY <1>1 DEF WithdrawalInv, WithdrawalTypeOK, PaidOut, withdrawals
<1>3. WithdrawalTypeOK' /\ Apart'
    BY DEF WithdrawalInv, WithdrawalTypeOK, Apart, withdrawals
<1> QED BY <1>2, <1>3 DEF WithdrawalInv

THEOREM WithdrawalInvHolds == WithdrawalSpec => []WithdrawalInv
<1>1. WithdrawalInit => WithdrawalInv
    BY WithdrawalStarts
<1>2. TypeOK /\ ClaimInv /\ WithdrawalInv /\ [WithdrawalNext]_allVars => WithdrawalInv'
  <2> SUFFICES ASSUME TypeOK, ClaimInv, WithdrawalInv, [WithdrawalNext]_allVars PROVE WithdrawalInv'
      OBVIOUS
  <2>1. CASE Next /\ UNCHANGED withdrawals
      BY <2>1, LedgerKeeps
  <2>2. CASE UNCHANGED vars /\ \E w \in Withdrawals : WithdrawalStep(w)
      BY <2>2, RequestKeeps, ChangeKeeps DEF WithdrawalStep
  <2>3. CASE UNCHANGED allVars
      BY <2>3, LedgerKeeps DEF allVars
  <2> QED BY <2>1, <2>2, <2>3 DEF WithdrawalNext
<1> QED BY <1>1, <1>2, LedgerUndisturbed, TypeCorrect, ClaimsAgree, PTL DEF WithdrawalSpec

\* Every variable keeps its type, those of the ledger below the withdrawals as well.
THEOREM WithdrawalTypeCorrect == WithdrawalSpec => [](TypeOK /\ WithdrawalTypeOK)
<1>1. WithdrawalInv => WithdrawalTypeOK
    BY DEF WithdrawalInv
<1> QED BY <1>1, WithdrawalInvHolds, LedgerUndisturbed, TypeCorrect, PTL

\* What a closed withdrawal says has been paid out stays paid, and no other withdrawal
\* that is active or closed asks for it.
THEOREM WithdrawnOnceAlways == WithdrawalSpec => []WithdrawnOnce
<1>1. WithdrawalInv => WithdrawnOnce
    BY DEF WithdrawalInv, Apart, PaidOut, WithdrawnOnce, WithdrawalIn, Binding
<1> QED BY <1>1, WithdrawalInvHolds, PTL

=============================================================================
