---------------------------- MODULE MCSettlement ----------------------------
(* Settlement and Withdrawal on small instances: which complaint is about  *)
(* which earnings, and three mixes of what may happen in one behaviour.    *)
EXTENDS Withdrawal, TLC

AboutAll == [c \in Complaints |-> Earnings]

Symmetry == Permutations(Staff) \cup Permutations(Complaints)

\* All but the first earning stay out of it; or there are no complaints and no cases, and
\* the others are always claimed by the same person;
\* or there are withdrawals of mature earnings, each claimed by the same person, and of
\* all that could hold them back just the refund of one, which does not fail.
NoWithdrawals == \A w \in Withdrawals : withdrawal[w] = "none"
OneEarning == \A e \in Earnings \ {1} : status[e] = "none" /\ refund[e] = "none" /\ \A k \in CaseKinds : cases[e][k] = "none"
NoDisputes ==
    /\ \A c \in Complaints : complaint[c] = "none"
    /\ \A e \in Earnings, k \in CaseKinds : cases[e][k] = "none"
    /\ profileOk
AnyOf(S) == CHOOSE x \in S : TRUE
OnePerson(S) == \A e \in S : claimant[e] \in {AnyOf(Staff), Nobody}
Undisturbed ==
    /\ NoDisputes
    /\ \A e \in Earnings : age[e] = "matured" /\ refund[e] # "failed" /\ (e # 1 => refund[e] = "none")
    /\ OnePerson(Earnings)
    /\ NoWithdrawals \/ ~WithdrawalIn(AnyOf(Withdrawals), {"none"})
    /\ Cardinality(readings) <= 1 /\ outage = {}
    /\ \A key \in Causes \X Earnings : recovery[key] \in {"none", "due"}
Mixed == Undisturbed \/ (NoWithdrawals /\ (OneEarning \/ (NoDisputes /\ OnePerson(Earnings \ {1}))))

MixSpec == WithdrawalInit /\ [][WithdrawalNext /\ Mixed']_allVars /\ Fairness

=============================================================================
