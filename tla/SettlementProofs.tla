------------------------- MODULE SettlementProofs -------------------------
(***************************************************************************)
(* Proofs about Settlement, for any number of earnings, complaints and     *)
(* members of staff: whoever has moved money stays answerable for it, and  *)
(* no refund or complaint leaves a payout without a recovery.              *)
(***************************************************************************)
EXTENDS Settlement, TLAPS

Statuses == Open \cup {"none", "paid", "void"}
Reasons == {"none", "blocked", "dispute", "claimed", "verifying"}

-----------------------------------------------------------------------------
(* What the helpers do *)

LEMMA SetFundsType ==
    ASSUME TypeOK, NEW e \in Earnings, NEW s \in Statuses, NEW r \in Reasons, SetFunds(e, s, r)
    PROVE  /\ status' \in [Earnings -> Statuses]
           /\ reason' \in [Earnings -> Reasons]
BY DEF TypeOK, SetFunds, Statuses, Reasons

LEMMA HoldForOrderType ==
    ASSUME TypeOK, NEW e \in Earnings, HoldForOrder(e)
    PROVE  /\ status' \in [Earnings -> Statuses]
           /\ reason' \in [Earnings -> Reasons]
<1>1. CASE status[e] \in Open
    BY <1>1, SetFundsType DEF HoldForOrder, Statuses, Reasons, Open
<1>2. CASE status[e] \notin Open
    BY <1>2 DEF HoldForOrder, TypeOK, Statuses, Reasons
<1> QED BY <1>1, <1>2

\* A recovery is never closed by an upsert, and every key asked for has one afterwards.
LEMMA OpenRecoveriesEffect ==
    ASSUME TypeOK, NEW keys, OpenRecoveries(keys)
    PROVE  /\ recovery' \in [Causes \X Earnings -> {"none", "due", "pendingVerification", "recovered"}]
           /\ submitter' \in [Causes \X Earnings -> Staff \cup {Nobody}]
           /\ \A key \in Causes \X Earnings :
                 /\ recovery[key] # "none" => recovery'[key] = recovery[key]
                 /\ key \in keys => recovery'[key] # "none"
BY DEF TypeOK, OpenRecoveries

\* An earning that nothing holds back has no debt, no active complaint and no refund.
LEMMA NothingHolds ==
    ASSUME NEW e \in Earnings, HoldReason(e) = "none"
    PROVE  ~Debt(e) /\ ActiveDisputes(e) = {} /\ refund[e] \notin {"active", "failed"}
BY DEF HoldReason

LEMMA ComplaintHolds ==
    ASSUME NEW e \in Earnings, HoldReason(e) = "dispute_live"
    PROVE  ActiveDisputes(e) # {}
BY DEF HoldReason

-----------------------------------------------------------------------------
(* Types *)

LEMMA TypeInit == ASSUME Init PROVE TypeOK
BY ComplaintsAssumption DEF Init, TypeOK, Open

LEMMA OrderTypes ==
    ASSUME TypeOK, NEW e \in Earnings, OrderStep(e)
    PROVE  TypeOK'
<1> USE DEF funds, orderVars, debts, vars
<1>1. CASE CompleteService(e)
    BY <1>1, SetFundsType DEF CompleteService, TypeOK, Statuses, Reasons, Open
<1>2. CASE TimePasses(e)
    BY <1>2 DEF TimePasses, TypeOK
<1>3. CASE RequestRefund(e) \/ RetryRefund(e)
  <2>1. /\ status' \in [Earnings -> Statuses] /\ reason' \in [Earnings -> Reasons]
    BY <1>3, HoldForOrderType DEF RequestRefund, RetryRefund
  <2>2. refund' \in [Earnings -> {"none", "active", "failed", "success"}]
    BY <1>3 DEF RequestRefund, RetryRefund, SetRefund, TypeOK
  <2> QED BY <1>3, <2>1, <2>2 DEF RequestRefund, RetryRefund, SetRefund, TypeOK, Statuses, Reasons
<1>4. CASE RejectRefund(e) \/ RefundFails(e)
    BY <1>4 DEF RejectRefund, RefundFails, SetRefund, TypeOK
<1>5. CASE RefundSucceeds(e)
  <2>1. /\ status' \in [Earnings -> Statuses] /\ reason' \in [Earnings -> Reasons]
    BY <1>5, SetFundsType DEF RefundSucceeds, TypeOK, Statuses, Reasons, Open
  <2>2. /\ recovery' \in [Causes \X Earnings -> {"none", "due", "pendingVerification", "recovered"}]
        /\ submitter' \in [Causes \X Earnings -> Staff \cup {Nobody}]
    BY <1>5, OpenRecoveriesEffect DEF RefundSucceeds, TypeOK
  <2> QED BY <1>5, <2>1, <2>2 DEF RefundSucceeds, SetRefund, TypeOK, Statuses, Reasons
<1>6. ASSUME NEW k \in CaseKinds, OpenCase(e, k) PROVE TypeOK'
    BY <1>6, HoldForOrderType DEF OpenCase, SetCase, TypeOK, Statuses, Reasons
<1>7. ASSUME NEW k \in CaseKinds, CloseCase(e, k) PROVE TypeOK'
    BY <1>7 DEF CloseCase, SetCase, TypeOK
<1> QED BY <1>1, <1>2, <1>3, <1>4, <1>5, <1>6, <1>7 DEF OrderStep

LEMMA ComplaintTypes ==
    ASSUME TypeOK, NEW c \in Complaints, ComplaintStep(c)
    PROVE  TypeOK'
<1> USE DEF funds, orderVars, debts, vars
<1>1. CASE Complain(c) \/ SyncFails(c)
  <2>1. CASE Complain(c)
    <3>1. \E v \in {"open", "processed", "reopened"} : complaint' = [complaint EXCEPT ![c] = v]
      BY <2>1 DEF Complain
    <3> QED BY <2>1, <3>1 DEF Complain, TypeOK
  <2>2. CASE SyncFails(c)
    BY <2>2 DEF SyncFails, TypeOK
  <2> QED BY <1>1, <2>1, <2>2
<1>2. ASSUME NEW s \in {"open", "resolved"}, Sync(c, s) PROVE TypeOK'
  <2>1. CASE s = "open" /\ HoldOrRecover(c)
    <3>1. /\ status' \in [Earnings -> Statuses] /\ reason' \in [Earnings -> Reasons]
      BY <2>1 DEF HoldOrRecover, TypeOK, Statuses, Reasons, Open
    <3>2. /\ recovery' \in [Causes \X Earnings -> {"none", "due", "pendingVerification", "recovered"}]
          /\ submitter' \in [Causes \X Earnings -> Staff \cup {Nobody}]
      BY <2>1, OpenRecoveriesEffect DEF HoldOrRecover
    <3> QED BY <1>2, <2>1, <3>1, <3>2 DEF Sync, TypeOK, Statuses, Reasons
  <2>2. CASE s = "resolved" /\ Release(c)
    <3>1. /\ status' \in [Earnings -> Statuses] /\ reason' \in [Earnings -> Reasons]
      BY <2>2 DEF Release, Matured, TypeOK, Statuses, Reasons, Open
    <3> QED BY <1>2, <2>2, <3>1 DEF Sync, Release, TypeOK, Statuses, Reasons
  <2> QED BY <1>2, <2>1, <2>2 DEF Sync
<1> QED BY <1>1, <1>2 DEF ComplaintStep

LEMMA PayoutTypes ==
    ASSUME TypeOK, NEW s \in Staff, NEW e \in Earnings, PayoutStep(s, e)
    PROVE  TypeOK'
<1> USE DEF funds, orderVars, debts, vars
<1>1. CASE Claim(s, e)
  <2>1. /\ status' \in [Earnings -> Statuses] /\ reason' \in [Earnings -> Reasons]
    BY <1>1, SetFundsType DEF Claim, Statuses, Reasons, Open
  <2>2. claimant' \in [Earnings -> Staff \cup {Nobody}] /\ evidence' \in [Earnings -> BOOLEAN]
    BY <1>1 DEF Claim, TypeOK
  <2>3. readings' \subseteq Earnings \X SUBSET Complaints
    BY <1>1 DEF Claim, Uses, TypeOK
  <2> QED BY <1>1, <2>1, <2>2, <2>3 DEF Claim, TypeOK, Statuses, Reasons
<1>2. CASE Transfer(s, e)
    BY <1>2 DEF Transfer, TypeOK
<1>3. CASE CancelClaim(s, e)
    BY <1>3, SetFundsType DEF CancelClaim, TypeOK, Statuses, Reasons, Open
<1>4. CASE EvidenceInOutage(s, e)
    BY <1>4 DEF EvidenceInOutage, TypeOK
<1>5. ASSUME NEW ds \in SUBSET Complaints, RecordPayoutEvidence(s, e, ds) PROVE TypeOK'
  <2>1. /\ status' \in [Earnings -> Statuses] /\ reason' \in [Earnings -> Reasons]
    BY <1>5, SetFundsType DEF RecordPayoutEvidence, Doubt, Statuses, Reasons, Open
  <2>2. /\ recovery' \in [Causes \X Earnings -> {"none", "due", "pendingVerification", "recovered"}]
        /\ submitter' \in [Causes \X Earnings -> Staff \cup {Nobody}]
    BY <1>5, OpenRecoveriesEffect DEF RecordPayoutEvidence, Doubt, TypeOK
  <2>3. evidence' = evidence \/ evidence' = [evidence EXCEPT ![e] = TRUE]
    BY <1>5 DEF RecordPayoutEvidence, StoreEvidence
  <2>4. evidence' \in [Earnings -> BOOLEAN]
    BY <2>3 DEF TypeOK
  <2>5. readings' \subseteq Earnings \X SUBSET Complaints
    BY <1>5 DEF RecordPayoutEvidence, Uses, TypeOK
  <2>6. UNCHANGED <<claimant, orderVars, complaint, dispute, transfers, outage>>
    BY <1>5 DEF RecordPayoutEvidence
  <2> QED BY <2>1, <2>2, <2>4, <2>5, <2>6 DEF TypeOK, Statuses, Reasons
<1>6. ASSUME NEW ds \in SUBSET Complaints, VerifyPayout(s, e, ds) PROVE TypeOK'
  <2>1. /\ status' \in [Earnings -> Statuses] /\ reason' \in [Earnings -> Reasons]
    BY <1>6, SetFundsType DEF VerifyPayout, Doubt, Statuses, Reasons, Open
  <2>2. /\ recovery' \in [Causes \X Earnings -> {"none", "due", "pendingVerification", "recovered"}]
        /\ submitter' \in [Causes \X Earnings -> Staff \cup {Nobody}]
    BY <1>6, OpenRecoveriesEffect DEF VerifyPayout, Doubt, TypeOK
  <2>3. readings' \subseteq Earnings \X SUBSET Complaints
    BY <1>6 DEF VerifyPayout, Uses, TypeOK
  <2>4. UNCHANGED <<claimant, evidence, orderVars, complaint, dispute, transfers, outage>>
    BY <1>6 DEF VerifyPayout
  <2> QED BY <2>1, <2>2, <2>3, <2>4 DEF TypeOK, Statuses, Reasons
<1> QED BY <1>1, <1>2, <1>3, <1>4, <1>5, <1>6 DEF PayoutStep

LEMMA OtherTypes ==
    ASSUME TypeOK,
           \/ \E e \in Earnings : LedgerStep(e)
           \/ \E s \in Staff, key \in Causes \X Earnings : RecoveryStep(s, key)
           \/ ProfileChanges \/ UNCHANGED vars
    PROVE  TypeOK'
<1> USE DEF funds, orderVars, debts, vars
<1>1. ASSUME NEW e \in Earnings, Ask(e) PROVE TypeOK'
    BY <1>1 DEF Ask, ActiveDisputes, TypeOK
<1>2. ASSUME NEW e \in Earnings, RefuseClaim(e) PROVE TypeOK'
    BY <1>2, HoldForOrderType DEF RefuseClaim, TypeOK, Statuses, Reasons
<1>3. ASSUME NEW e \in Earnings, Reconcile(e) \/ ReconcileOrder(e) PROVE TypeOK'
  <2>1. /\ status' \in [Earnings -> Statuses] /\ reason' \in [Earnings -> Reasons]
    BY <1>3, SetFundsType DEF Reconcile, ReconcileOrder, ClaimedReason, Matured, Statuses, Reasons, Open
  <2> QED BY <1>3, <2>1 DEF Reconcile, ReconcileOrder, TypeOK, Statuses, Reasons
<1>4. ASSUME NEW s \in Staff, NEW key \in Causes \X Earnings, RecoveryStep(s, key) PROVE TypeOK'
  <2>1. CASE RecordRecoveryEvidence(s, key)
    BY <2>1 DEF RecordRecoveryEvidence, TypeOK
  <2>2. CASE VerifyRecovery(s, key)
    BY <2>2 DEF VerifyRecovery, TypeOK
  <2> QED BY <1>4, <2>1, <2>2 DEF RecoveryStep
<1>5. CASE ProfileChanges \/ UNCHANGED vars
  <2>1. /\ UNCHANGED <<funds, age, refund, cases, complaint, dispute, debts, readings, transfers, outage>>
        /\ profileOk' \in BOOLEAN
    BY <1>5 DEF ProfileChanges, TypeOK
  <2> QED BY <2>1 DEF TypeOK
<1> QED BY <1>1, <1>2, <1>3, <1>4, <1>5 DEF LedgerStep

\* TypeOK holds of every behaviour.
THEOREM TypeCorrect == Spec => []TypeOK
<1>1. ASSUME TypeOK, [Next]_vars PROVE TypeOK'
    BY <1>1, OrderTypes, ComplaintTypes, PayoutTypes, OtherTypes DEF Next
<1> QED BY <1>1, TypeInit, PTL DEF Spec

-----------------------------------------------------------------------------
(* A claim, its evidence, its transfer and the reason of its hold agree *)

ClaimOK(d) ==
    /\ claimant[d] # Nobody => status[d] \in {"held", "paid"}
    /\ evidence[d] => claimant[d] # Nobody
    /\ status[d] = "paid" => evidence[d]
    /\ reason[d] = "dispute" => status[d] = "held" /\ claimant[d] = Nobody
    /\ reason[d] \in {"claimed", "verifying"} => status[d] = "held" /\ claimant[d] # Nobody
    /\ reason[d] = "verifying" => evidence[d]
    /\ reason[d] = "claimed" => ~evidence[d]
    /\ transfers[d] # {} => transfers[d] = {claimant[d]}

ClaimInv == \A d \in Earnings : ClaimOK(d)

\* What a step does to the money of earning d
SameClaim(d) == claimant'[d] = claimant[d] /\ evidence'[d] = evidence[d] /\ transfers'[d] = transfers[d]
Same(d) == status'[d] = status[d] /\ reason'[d] = reason[d] /\ SameClaim(d)
Held(d) == status'[d] = "held" /\ reason'[d] = "blocked" /\ SameClaim(d)

LEMMA SameOrHeldClaim ==
    ASSUME NEW d \in Earnings, ClaimOK(d), Same(d) \/ Held(d)
    PROVE  ClaimOK(d)'
BY DEF ClaimOK, Same, Held, SameClaim

LEMMA SetFundsEffect ==
    ASSUME TypeOK, NEW e \in Earnings, NEW s, NEW r, SetFunds(e, s, r)
    PROVE  /\ status'[e] = s /\ reason'[e] = r
           /\ \A d \in Earnings \ {e} : status'[d] = status[d] /\ reason'[d] = reason[d]
BY DEF TypeOK, SetFunds

LEMMA HoldForOrderEffect ==
    ASSUME TypeOK, NEW e \in Earnings, HoldForOrder(e)
    PROVE  /\ \/ status[e] \in Open /\ status'[e] = "held" /\ reason'[e] = "blocked"
              \/ status[e] \notin Open /\ status'[e] = status[e] /\ reason'[e] = reason[e]
           /\ \A d \in Earnings \ {e} : status'[d] = status[d] /\ reason'[d] = reason[d]
BY SetFundsEffect DEF HoldForOrder

LEMMA OrderClaims ==
    ASSUME TypeOK, ClaimInv, NEW e \in Earnings, OrderStep(e)
    PROVE  ClaimInv'
<1> USE DEF funds, orderVars, debts
<1> SUFFICES ASSUME NEW d \in Earnings PROVE ClaimOK(d)'
    BY DEF ClaimInv
<1>0. ClaimOK(d)
    BY DEF ClaimInv
<1>1. CASE CompleteService(e)
  <2>1. CASE d = e
    BY <1>0, <1>1, <2>1, SetFundsEffect DEF CompleteService, ClaimOK
  <2>2. CASE d # e
    BY <1>0, <1>1, <2>2, SetFundsEffect, SameOrHeldClaim DEF CompleteService, Same, SameClaim
  <2> QED BY <2>1, <2>2
<1>2. CASE TimePasses(e) \/ RejectRefund(e) \/ RefundFails(e) \/ \E k \in CaseKinds : CloseCase(e, k)
    BY <1>0, <1>2, SameOrHeldClaim
        DEF TimePasses, RejectRefund, RefundFails, CloseCase, SetRefund, SetCase, Same, SameClaim
<1>3. CASE RequestRefund(e) \/ RetryRefund(e) \/ \E k \in CaseKinds : OpenCase(e, k)
    BY <1>0, <1>3, HoldForOrderEffect, SameOrHeldClaim
        DEF RequestRefund, RetryRefund, OpenCase, SetRefund, SetCase, Same, Held, SameClaim
<1>4. CASE RefundSucceeds(e)
  <2>1. CASE d = e /\ ~InDoubt(e) /\ status[e] \in Open
    BY <1>0, <1>4, <2>1, SetFundsEffect DEF RefundSucceeds, InDoubt, SetRefund, ClaimOK
  <2>2. CASE ~(d = e /\ ~InDoubt(e) /\ status[e] \in Open)
    BY <1>0, <1>4, <2>2, SetFundsEffect, SameOrHeldClaim DEF RefundSucceeds, SetRefund, Same, SameClaim
  <2> QED BY <2>1, <2>2
<1> QED BY <1>1, <1>2, <1>3, <1>4 DEF OrderStep

LEMMA ComplaintClaims ==
    ASSUME TypeOK, ClaimInv, NEW c \in Complaints, ComplaintStep(c)
    PROVE  ClaimInv'
<1> USE DEF funds, orderVars, debts
<1> SUFFICES ASSUME NEW d \in Earnings PROVE ClaimOK(d)'
    BY DEF ClaimInv
<1>0. ClaimOK(d)
    BY DEF ClaimInv
<1>1. CASE Complain(c) \/ SyncFails(c)
    BY <1>0, <1>1, SameOrHeldClaim DEF Complain, SyncFails, Same, SameClaim
<1>2. ASSUME NEW s \in {"open", "resolved"}, Sync(c, s) PROVE ClaimOK(d)'
  <2>0. SameClaim(d)
    BY <1>2 DEF Sync, SameClaim
  <2>1. CASE HoldOrRecover(c)
    BY <1>0, <2>0, <2>1 DEF HoldOrRecover, Paid, SameClaim, ClaimOK
  <2>2. CASE Release(c)
    BY <1>0, <2>0, <2>2 DEF Release, Releasable, Matured, SameClaim, ClaimOK
  <2> QED BY <1>2, <2>1, <2>2 DEF Sync
<1> QED BY <1>1, <1>2 DEF ComplaintStep

LEMMA PayoutClaims ==
    ASSUME TypeOK, ClaimInv, NEW s \in Staff, NEW e \in Earnings, PayoutStep(s, e)
    PROVE  ClaimInv'
<1> USE DEF funds, orderVars, debts
<1> SUFFICES ASSUME NEW d \in Earnings PROVE ClaimOK(d)'
    BY DEF ClaimInv
<1>0. ClaimOK(d) /\ s # Nobody
    BY PeopleAssumption DEF ClaimInv
<1>1. CASE Claim(s, e)
  <2>1. CASE d = e
    <3>0. status[d] = "available" /\ transfers' = transfers
      BY <1>1, <2>1 DEF Claim
    <3>1. claimant[d] = Nobody /\ transfers'[d] = {}
      BY <1>0, <3>0, PeopleAssumption DEF ClaimOK, TypeOK
    <3>2. status'[d] = "held" /\ ~evidence'[d]
      BY <1>1, <2>1, SetFundsEffect DEF Claim, TypeOK
    <3>3. \/ reason'[d] = "blocked" /\ claimant'[d] = claimant[d]
          \/ reason'[d] = "claimed" /\ claimant'[d] = s
      BY <1>1, <2>1, SetFundsEffect DEF Claim, TypeOK
    <3> QED BY <1>0, <3>1, <3>2, <3>3 DEF ClaimOK
  <2>2. CASE d # e
    <3>1. status'[d] = status[d] /\ reason'[d] = reason[d]
      BY <1>1, <2>2, SetFundsEffect DEF Claim
    <3>2. SameClaim(d)
      BY <1>1, <2>2 DEF Claim, SameClaim, TypeOK
    <3> QED BY <1>0, <3>1, <3>2, SameOrHeldClaim DEF Same
  <2> QED BY <2>1, <2>2
<1>2. CASE Transfer(s, e)
  <2>1. CASE d = e
    <3>1. transfers[d] = {}
      BY <1>0, <1>2, <2>1 DEF Transfer, ClaimOK
    <3>2. transfers'[d] = {claimant[d]}
      BY <1>2, <2>1, <3>1 DEF Transfer, TypeOK
    <3> QED BY <1>0, <1>2, <2>1, <3>2 DEF Transfer, ClaimOK
  <2>2. CASE d # e
    BY <1>0, <1>2, <2>2, SameOrHeldClaim DEF Transfer, Same, SameClaim, TypeOK
  <2> QED BY <2>1, <2>2
<1>3. CASE CancelClaim(s, e)
  <2>1. CASE d = e
    <3>1. claimant'[d] = Nobody /\ ~evidence'[d] /\ transfers'[d] = {}
      BY <1>3, <2>1 DEF CancelClaim, TypeOK
    <3>2. \/ status'[d] = "held" /\ reason'[d] = "blocked"
          \/ status'[d] = "available" /\ reason'[d] = "none"
      BY <1>3, <2>1, SetFundsEffect DEF CancelClaim
    <3> QED BY <3>1, <3>2 DEF ClaimOK
  <2>2. CASE d # e
    BY <1>0, <1>3, <2>2, SetFundsEffect, SameOrHeldClaim DEF CancelClaim, Same, SameClaim, TypeOK
  <2> QED BY <2>1, <2>2
<1>4. CASE EvidenceInOutage(s, e)
    BY <1>0, <1>4, SameOrHeldClaim DEF EvidenceInOutage, Same, SameClaim
<1>5. ASSUME NEW ds \in SUBSET Complaints, RecordPayoutEvidence(s, e, ds) PROVE ClaimOK(d)'
  <2>1. CASE d = e
    <3>1. /\ claimant'[d] = claimant[d] /\ transfers'[d] = transfers[d]
          /\ status[d] = "held" /\ claimant[d] = s
      BY <1>5, <2>1 DEF RecordPayoutEvidence, RecordsEvidence
    <3>2. \/ Held(d)
          \/ status'[d] = "held" /\ reason'[d] \in {"blocked", "verifying"} /\ evidence'[d]
      BY <1>5, <2>1, SetFundsEffect
          DEF RecordPayoutEvidence, Doubt, StoreEvidence, Held, SameClaim, TypeOK
    <3> QED BY <1>0, <3>1, <3>2, SameOrHeldClaim DEF ClaimOK
  <2>2. CASE d # e
    BY <1>0, <1>5, <2>2, SetFundsEffect, SameOrHeldClaim
        DEF RecordPayoutEvidence, Doubt, StoreEvidence, Same, SameClaim, TypeOK
  <2> QED BY <2>1, <2>2
<1>6. ASSUME NEW ds \in SUBSET Complaints, VerifyPayout(s, e, ds) PROVE ClaimOK(d)'
  <2>1. CASE d = e
    <3>1. SameClaim(d) /\ evidence[d] /\ claimant[d] # Nobody
      BY <1>6, <2>1 DEF VerifyPayout, SameClaim
    <3>2. \/ status'[d] = "held" /\ reason'[d] = "blocked"
          \/ status'[d] = "paid" /\ reason'[d] = "none"
      BY <1>6, <2>1, SetFundsEffect DEF VerifyPayout, Doubt
    <3> QED BY <1>0, <3>1, <3>2 DEF ClaimOK, SameClaim
  <2>2. CASE d # e
    BY <1>0, <1>6, <2>2, SetFundsEffect, SameOrHeldClaim DEF VerifyPayout, Doubt, Same, SameClaim
  <2> QED BY <2>1, <2>2
<1> QED BY <1>1, <1>2, <1>3, <1>4, <1>5, <1>6 DEF PayoutStep

LEMMA OtherClaims ==
    ASSUME TypeOK, ClaimInv,
           \/ \E e \in Earnings : LedgerStep(e)
           \/ \E s \in Staff, key \in Causes \X Earnings : RecoveryStep(s, key)
           \/ ProfileChanges \/ UNCHANGED vars
    PROVE  ClaimInv'
<1> USE DEF funds, orderVars, debts, vars
<1> SUFFICES ASSUME NEW d \in Earnings PROVE ClaimOK(d)'
    BY DEF ClaimInv
<1>0. ClaimOK(d)
    BY DEF ClaimInv
<1>1. ASSUME NEW e \in Earnings, Ask(e) \/ RefuseClaim(e) PROVE ClaimOK(d)'
    BY <1>0, <1>1, HoldForOrderEffect, SameOrHeldClaim DEF Ask, RefuseClaim, Same, Held, SameClaim
<1>2. ASSUME NEW e \in Earnings, Reconcile(e) PROVE ClaimOK(d)'
  <2>1. SameClaim(d)
    BY <1>2 DEF Reconcile, SameClaim
  <2>2. CASE d = e
    BY <1>0, <1>2, <2>1, <2>2, SetFundsEffect DEF Reconcile, InBatch, Open, ClaimedReason, SameClaim, ClaimOK
  <2>3. CASE d # e
    BY <1>0, <1>2, <2>1, <2>3, SetFundsEffect, SameOrHeldClaim DEF Reconcile, Same
  <2> QED BY <2>2, <2>3
<1>3. ASSUME NEW e \in Earnings, ReconcileOrder(e) PROVE ClaimOK(d)'
  <2>1. SameClaim(d)
    BY <1>3 DEF ReconcileOrder, SameClaim
  <2>2. CASE d = e
    BY <1>0, <1>3, <2>1, <2>2, SetFundsEffect DEF ReconcileOrder, Open, Matured, SameClaim, ClaimOK
  <2>3. CASE d # e
    BY <1>0, <1>3, <2>1, <2>3, SetFundsEffect, SameOrHeldClaim DEF ReconcileOrder, Same
  <2> QED BY <2>2, <2>3
<1>4. ASSUME NEW s \in Staff, NEW key \in Causes \X Earnings, RecoveryStep(s, key) PROVE ClaimOK(d)'
    BY <1>0, <1>4, SameOrHeldClaim DEF RecoveryStep, RecordRecoveryEvidence, VerifyRecovery, Same, SameClaim
<1>5. CASE ProfileChanges \/ UNCHANGED vars
    BY <1>0, <1>5, SameOrHeldClaim DEF ProfileChanges, Same, SameClaim
<1> QED BY <1>1, <1>2, <1>3, <1>4, <1>5 DEF LedgerStep

LEMMA ClaimsStay ==
    ASSUME TypeOK, ClaimInv, [Next]_vars
    PROVE  ClaimInv'
BY OrderClaims, ComplaintClaims, PayoutClaims, OtherClaims DEF Next

THEOREM ClaimsAgree == Spec => []ClaimInv
<1>1. Init => ClaimInv
    BY PeopleAssumption DEF Init, ClaimInv, ClaimOK
<1> QED BY <1>1, TypeCorrect, ClaimsStay, PTL DEF Spec

\* Money that has left stays with the one person who transferred it.
THEOREM TransferIsAccounted == Spec => []TransferAccounted
<1>1. ASSUME TypeOK, ClaimInv PROVE TransferAccounted
    BY <1>1, PeopleAssumption DEF ClaimInv, ClaimOK, TransferAccounted, TypeOK
<1> QED BY <1>1, TypeCorrect, ClaimsAgree, PTL

-----------------------------------------------------------------------------
(* What only one kind of step can change *)

LEMMA OrderStepKeeps ==
    ASSUME NEW e \in Earnings, OrderStep(e)
    PROVE  UNCHANGED <<claimant, evidence, dispute>>
BY DEF OrderStep, CompleteService, TimePasses, RequestRefund, RetryRefund, RejectRefund, RefundFails,
    RefundSucceeds, OpenCase, CloseCase, SetRefund, SetCase, funds, orderVars

LEMMA ComplaintStepKeeps ==
    ASSUME NEW c \in Complaints, ComplaintStep(c)
    PROVE  UNCHANGED <<claimant, evidence, refund>>
BY DEF ComplaintStep, Complain, SyncFails, Sync, funds, orderVars

LEMMA PayoutStepKeeps ==
    ASSUME NEW s \in Staff, NEW e \in Earnings, PayoutStep(s, e)
    PROVE  UNCHANGED <<refund, dispute>>
BY DEF PayoutStep, Claim, Transfer, CancelClaim, EvidenceInOutage, RecordPayoutEvidence, VerifyPayout, orderVars

LEMMA LedgerStepKeeps ==
    ASSUME NEW e \in Earnings, LedgerStep(e)
    PROVE  UNCHANGED <<claimant, evidence, refund, dispute, debts>>
BY DEF LedgerStep, Ask, RefuseClaim, Reconcile, ReconcileOrder, funds, orderVars

LEMMA RestKeeps ==
    ASSUME \/ \E s \in Staff, key \in Causes \X Earnings : RecoveryStep(s, key)
           \/ ProfileChanges \/ UNCHANGED vars
    PROVE  UNCHANGED <<funds, refund, dispute>>
BY DEF RecoveryStep, RecordRecoveryEvidence, VerifyRecovery, ProfileChanges, funds, orderVars, vars

LEMMA RecoveriesStay ==
    ASSUME TypeOK, [Next]_vars, NEW key \in Causes \X Earnings, recovery[key] # "none"
    PROVE  recovery'[key] # "none"
<1> USE DEF debts, vars
<1>1. ASSUME NEW e \in Earnings, OrderStep(e) PROVE recovery'[key] # "none"
    BY <1>1, OpenRecoveriesEffect
        DEF OrderStep, CompleteService, TimePasses, RequestRefund, RetryRefund, RejectRefund,
            RefundFails, RefundSucceeds, OpenCase, CloseCase, SetCase
<1>2. ASSUME NEW c \in Complaints, ComplaintStep(c) PROVE recovery'[key] # "none"
    BY <1>2, OpenRecoveriesEffect DEF ComplaintStep, Complain, SyncFails, Sync, HoldOrRecover, Release
<1>3. ASSUME NEW s \in Staff, NEW e \in Earnings, PayoutStep(s, e) PROVE recovery'[key] # "none"
    BY <1>3, OpenRecoveriesEffect
        DEF PayoutStep, Claim, Transfer, CancelClaim, EvidenceInOutage, RecordPayoutEvidence,
            VerifyPayout, Doubt
<1>4. ASSUME NEW s \in Staff, NEW k \in Causes \X Earnings, RecoveryStep(s, k)
      PROVE  recovery'[key] # "none"
    BY <1>4 DEF RecoveryStep, RecordRecoveryEvidence, VerifyRecovery, TypeOK
<1>5. ASSUME NEW e \in Earnings, LedgerStep(e) PROVE recovery'[key] # "none"
    BY <1>5, LedgerStepKeeps
<1>6. CASE ProfileChanges \/ UNCHANGED vars
    BY <1>6 DEF ProfileChanges
<1> QED BY <1>1, <1>2, <1>3, <1>4, <1>5, <1>6 DEF Next

-----------------------------------------------------------------------------
(* A settled earning *)

LEMMA ClosedStays ==
    ASSUME TypeOK, ClaimInv, [Next]_vars, NEW d \in Earnings, status[d] \notin Open
    PROVE  status'[d] = status[d] \/ CompleteService(d)
<1> USE DEF funds, vars
<1>0. ClaimOK(d)
    BY DEF ClaimInv
<1>1. ASSUME NEW e \in Earnings, OrderStep(e) PROVE status'[d] = status[d] \/ CompleteService(d)
  <2>1. CASE CompleteService(e)
    BY <1>0, <2>1, SetFundsEffect DEF CompleteService
  <2>2. CASE RefundSucceeds(e)
    BY <1>0, <2>2, SetFundsEffect DEF RefundSucceeds
  <2> QED BY <1>0, <1>1, <2>1, <2>2, HoldForOrderEffect
        DEF OrderStep, TimePasses, RequestRefund, RetryRefund, RejectRefund, RefundFails, OpenCase, CloseCase
<1>2. ASSUME NEW c \in Complaints, ComplaintStep(c) PROVE status'[d] = status[d]
  <2>1. ASSUME NEW s \in {"open", "resolved"}, Sync(c, s) PROVE status'[d] = status[d]
    <3>1. CASE HoldOrRecover(c)
      BY <1>0, <3>1 DEF HoldOrRecover, Paid, ClaimOK, Open
    <3>2. CASE Release(c)
      BY <3>2 DEF Release, Releasable, Open
    <3> QED BY <2>1, <3>1, <3>2 DEF Sync
  <2> QED BY <1>2, <2>1 DEF ComplaintStep, Complain, SyncFails
<1>3. ASSUME NEW s \in Staff, NEW e \in Earnings, PayoutStep(s, e) PROVE status'[d] = status[d]
  <2>1. CASE d = e
    BY <1>3, <2>1 DEF Open, PayoutStep, Claim, Transfer, CancelClaim, EvidenceInOutage,
        RecordPayoutEvidence, RecordsEvidence, VerifyPayout
  <2>2. CASE d # e
    BY <1>3, <2>2, SetFundsEffect DEF PayoutStep, Claim, Transfer, CancelClaim, EvidenceInOutage,
        RecordPayoutEvidence, VerifyPayout, Doubt
  <2> QED BY <2>1, <2>2
<1>4. ASSUME NEW e \in Earnings, LedgerStep(e) PROVE status'[d] = status[d]
  <2>1. CASE Ask(e) \/ RefuseClaim(e)
    BY <1>0, <2>1, HoldForOrderEffect DEF Ask, RefuseClaim
  <2>2. CASE Reconcile(e) \/ ReconcileOrder(e)
    <3>1. d # e
      BY <1>0, <2>2 DEF Reconcile, ReconcileOrder, InBatch
    <3> QED BY <2>2, <3>1, SetFundsEffect DEF Reconcile, ReconcileOrder
  <2> QED BY <1>4, <2>1, <2>2 DEF LedgerStep
<1> QED BY <1>1, <1>2, <1>3, <1>4, RestKeeps DEF Next

\* A paid or void earning stays what it is.
THEOREM SettledStaysSettled == Spec => SettledIsFinal
<1>1. ASSUME TypeOK, ClaimInv, [Next]_vars
      PROVE  [\A e \in Earnings : status[e] \in {"paid", "void"} => status'[e] = status[e]]_vars
    BY <1>1, ClosedStays DEF CompleteService, Open
<1> QED BY <1>1, TypeCorrect, ClaimsAgree, PTL DEF Spec, SettledIsFinal

-----------------------------------------------------------------------------
(* Debts *)

LEMMA ClaimsNeedNoDebt ==
    ASSUME TypeOK, [Next]_vars, NEW d \in Earnings, Debt(d)
    PROVE  /\ claimant'[d] \in {claimant[d], Nobody}
           /\ status'[d] = "paid" => status[d] = "paid"
<1> USE DEF funds, vars
<1>1. ASSUME NEW e \in Earnings, OrderStep(e) PROVE status'[d] = "paid" => status[d] = "paid"
  <2>1. CASE CompleteService(e) \/ RefundSucceeds(e)
    BY <2>1, SetFundsEffect DEF CompleteService, RefundSucceeds
  <2> QED BY <1>1, <2>1, HoldForOrderEffect
        DEF OrderStep, TimePasses, RequestRefund, RetryRefund, RejectRefund, RefundFails, OpenCase, CloseCase
<1>2. ASSUME NEW c \in Complaints, ComplaintStep(c) PROVE status'[d] = "paid" => status[d] = "paid"
  <2>1. ASSUME NEW s \in {"open", "resolved"}, Sync(c, s) PROVE status'[d] = "paid" => status[d] = "paid"
    BY <2>1 DEF Sync, HoldOrRecover, Release, Matured
  <2> QED BY <1>2, <2>1 DEF ComplaintStep, Complain, SyncFails
<1>3. ASSUME NEW s \in Staff, NEW e \in Earnings, PayoutStep(s, e)
      PROVE  /\ claimant'[d] \in {claimant[d], Nobody}
             /\ status'[d] = "paid" => status[d] = "paid"
  <2>0. HoldReason(e) # "none"
    BY NothingHolds DEF Debt
  <2>1. CASE Claim(s, e) \/ CancelClaim(s, e)
    BY <2>0, <2>1, SetFundsEffect DEF Claim, CancelClaim, TypeOK
  <2>2. CASE Transfer(s, e) \/ EvidenceInOutage(s, e)
    BY <2>2 DEF Transfer, EvidenceInOutage
  <2>3. ASSUME NEW ds \in SUBSET Complaints, RecordPayoutEvidence(s, e, ds) \/ VerifyPayout(s, e, ds)
        PROVE  /\ claimant'[d] = claimant[d]
               /\ status'[d] = "paid" => status[d] = "paid"
    BY <2>0, <2>3, SetFundsEffect DEF RecordPayoutEvidence, VerifyPayout, Doubt
  <2> QED BY <1>3, <2>1, <2>2, <2>3 DEF PayoutStep
<1>4. ASSUME NEW e \in Earnings, LedgerStep(e) PROVE status'[d] = "paid" => status[d] = "paid"
  <2>1. CASE Ask(e) \/ RefuseClaim(e)
    BY <2>1, HoldForOrderEffect DEF Ask, RefuseClaim
  <2>2. CASE Reconcile(e) \/ ReconcileOrder(e)
    BY <2>2, SetFundsEffect DEF Reconcile, ReconcileOrder, Matured
  <2> QED BY <1>4, <2>1, <2>2 DEF LedgerStep
<1> QED BY <1>1, <1>2, <1>3, <1>4, OrderStepKeeps, ComplaintStepKeeps, LedgerStepKeeps, RestKeeps DEF Next

\* While the companion owes money, nothing of theirs is claimed or confirmed as paid.
THEOREM DebtsStopPayouts == Spec => DebtStopsPayouts
<1>1. ASSUME TypeOK, [Next]_vars
      PROVE  [ (\E key \in Causes \X Earnings : recovery[key] \in {"due", "pendingVerification"})
               => \A e \in Earnings :
                      /\ claimant'[e] \in {claimant[e], Nobody}
                      /\ status'[e] = "paid" => status[e] = "paid" ]_vars
    BY <1>1, ClaimsNeedNoDebt DEF Debt, Unsettled
<1> QED BY <1>1, TypeCorrect, PTL DEF Spec, DebtStopsPayouts

-----------------------------------------------------------------------------
(* Refunds *)

LEMMA RefundEnds ==
    ASSUME TypeOK, [Next]_vars, NEW d \in Earnings, refund'[d] = "success"
    PROVE  refund[d] = "success" \/ RefundSucceeds(d)
<1>1. ASSUME NEW e \in Earnings, OrderStep(e) PROVE refund[d] = "success" \/ RefundSucceeds(d)
  <2>1. CASE CompleteService(e) \/ TimePasses(e) \/ \E k \in CaseKinds : OpenCase(e, k) \/ CloseCase(e, k)
    BY <2>1 DEF CompleteService, TimePasses, OpenCase, CloseCase, SetCase, orderVars
  <2>2. CASE RequestRefund(e)
    BY <2>2 DEF RequestRefund, SetRefund, TypeOK
  <2>3. CASE RetryRefund(e) \/ RejectRefund(e) \/ RefundFails(e)
    BY <2>3 DEF RetryRefund, RejectRefund, RefundFails, SetRefund, TypeOK
  <2>4. CASE RefundSucceeds(e)
    <3>1. d # e => refund'[d] = refund[d]
      BY <2>4 DEF RefundSucceeds, SetRefund, TypeOK
    <3> QED BY <2>4, <3>1
  <2> QED BY <1>1, <2>1, <2>2, <2>3, <2>4 DEF OrderStep
<1> QED BY <1>1, ComplaintStepKeeps, PayoutStepKeeps, LedgerStepKeeps, RestKeeps
        DEF Next, vars, orderVars

LEMMA RefundRecoversStep ==
    ASSUME TypeOK, ClaimInv, RefundRecovers, [Next]_vars
    PROVE  RefundRecovers'
<1> SUFFICES ASSUME NEW d \in Earnings, refund'[d] = "success"
             PROVE  status'[d] \in {"none", "void"} \/ recovery'[<<"refund", d>>] # "none"
    BY DEF RefundRecovers
<1>0. <<"refund", d>> \in Causes \X Earnings
    BY DEF Causes
<1>1. CASE refund[d] = "success"
  <2>1. CASE status[d] = "none"
    BY <1>1, <2>1, ClosedStays DEF CompleteService, Open
  <2>2. CASE status[d] = "void"
    BY <2>2, ClosedStays DEF CompleteService, Open
  <2>3. CASE recovery[<<"refund", d>>] # "none"
    BY <1>0, <2>3, RecoveriesStay
  <2> QED BY <1>1, <2>1, <2>2, <2>3 DEF RefundRecovers
<1>2. CASE RefundSucceeds(d)
  <2>1. CASE InDoubt(d)
    BY <1>0, <1>2, <2>1, OpenRecoveriesEffect DEF RefundSucceeds
  <2>2. CASE ~InDoubt(d) /\ status[d] \in Open
    BY <1>2, <2>2, SetFundsEffect DEF RefundSucceeds
  <2>3. CASE ~InDoubt(d) /\ status[d] \notin Open
    BY <1>2, <2>3 DEF RefundSucceeds, InDoubt, TypeOK
  <2> QED BY <2>1, <2>2, <2>3
<1> QED BY <1>1, <1>2, RefundEnds

\* A refund that succeeds leaves the earning void or opens a recovery of its own.
THEOREM RefundsRecover == Spec => []RefundRecovers
<1>1. Init => RefundRecovers
    BY DEF Init, RefundRecovers
<1> QED BY <1>1, TypeCorrect, ClaimsAgree, RefundRecoversStep, PTL DEF Spec

-----------------------------------------------------------------------------
(* What is on offer *)

OfferOK(d) ==
    status[d] = "available" =>
        refund[d] # "active" /\ \A c \in Complaints : d \in Subjects[c] => dispute[c] # "open"

LEMMA NothingOpen ==
    ASSUME NEW d \in Earnings, HoldReason(d) = "none"
    PROVE  refund[d] # "active" /\ \A c \in Complaints : d \in Subjects[c] => dispute[c] # "open"
BY NothingHolds DEF ActiveDisputes

LEMMA OrderOffers ==
    ASSUME TypeOK, NEW d \in Earnings, OfferOK(d), NEW e \in Earnings, OrderStep(e)
    PROVE  OfferOK(d)'
<1> USE DEF OfferOK
<1>0. dispute' = dispute
    BY OrderStepKeeps
<1>1. CASE CompleteService(e)
    BY <1>0, <1>1, SetFundsEffect DEF CompleteService, orderVars
<1>2. CASE TimePasses(e) \/ \E k \in CaseKinds : CloseCase(e, k)
    BY <1>0, <1>2 DEF TimePasses, CloseCase, SetCase, funds
<1>3. CASE \E k \in CaseKinds : OpenCase(e, k)
    BY <1>0, <1>3, HoldForOrderEffect DEF OpenCase, SetCase
<1>4. CASE RequestRefund(e) \/ RetryRefund(e)
    BY <1>0, <1>4, HoldForOrderEffect DEF RequestRefund, RetryRefund, SetRefund, Open, TypeOK
<1>5. CASE RejectRefund(e) \/ RefundFails(e)
    BY <1>0, <1>5 DEF RejectRefund, RefundFails, SetRefund, funds, TypeOK
<1>6. CASE RefundSucceeds(e)
  <2>1. status'[d] = "available" => status[d] = "available"
    BY <1>6, SetFundsEffect DEF RefundSucceeds
  <2>2. refund'[d] = "active" => refund[d] = "active"
    BY <1>6 DEF RefundSucceeds, SetRefund, TypeOK
  <2> QED BY <1>0, <2>1, <2>2
<1> QED BY <1>1, <1>2, <1>3, <1>4, <1>5, <1>6 DEF OrderStep

LEMMA ComplaintOffers ==
    ASSUME TypeOK, ClaimInv, NEW d \in Earnings, OfferOK(d), NEW c \in Complaints, ComplaintStep(c)
    PROVE  OfferOK(d)'
<1>0. refund' = refund /\ ClaimOK(d)
    BY ComplaintStepKeeps DEF ClaimInv
<1>1. CASE Complain(c) \/ SyncFails(c)
    BY <1>0, <1>1 DEF OfferOK, Complain, SyncFails, funds, TypeOK
<1>2. ASSUME Sync(c, "open") PROVE OfferOK(d)'
  <2> SUFFICES ASSUME status'[d] = "available" PROVE OfferOK(d)'
    BY DEF OfferOK
  <2>1. status[d] = "available" /\ d \notin Subjects[c]
    BY <1>0, <1>2 DEF Sync, HoldOrRecover, Paid, ClaimOK
  <2>2. \A k \in Complaints \ {c} : dispute'[k] = dispute[k]
    BY <1>2 DEF Sync, TypeOK
  <2> QED BY <1>0, <2>1, <2>2 DEF OfferOK
<1>3. ASSUME Sync(c, "resolved") PROVE OfferOK(d)'
  <2> SUFFICES ASSUME status'[d] = "available" PROVE OfferOK(d)'
    BY DEF OfferOK
  <2>1. \A k \in Complaints : dispute'[k] = IF k = c THEN "resolved" ELSE dispute[k]
    BY <1>3 DEF Sync, TypeOK
  <2>2. status[d] = "available" \/ Releasable(c, d)
    BY <1>3 DEF Sync, Release
  <2>3. CASE Releasable(c, d)
    BY <1>0, <2>1, <2>3 DEF Releasable, ActiveDisputes, OfferOK
  <2> QED BY <1>0, <2>1, <2>2, <2>3 DEF OfferOK
<1> QED BY <1>1, <1>2, <1>3 DEF ComplaintStep

LEMMA PayoutOffers ==
    ASSUME TypeOK, NEW d \in Earnings, OfferOK(d), NEW s \in Staff, NEW e \in Earnings, PayoutStep(s, e)
    PROVE  OfferOK(d)'
<1>0. UNCHANGED <<refund, dispute>>
    BY PayoutStepKeeps
<1>1. CASE CancelClaim(s, e)
    BY <1>0, <1>1, SetFundsEffect, NothingOpen DEF CancelClaim, OfferOK
<1>2. CASE Claim(s, e) \/ Transfer(s, e) \/ EvidenceInOutage(s, e)
    BY <1>0, <1>2, SetFundsEffect DEF Claim, Transfer, EvidenceInOutage, funds, OfferOK
<1>3. ASSUME NEW ds \in SUBSET Complaints, RecordPayoutEvidence(s, e, ds) \/ VerifyPayout(s, e, ds)
      PROVE  OfferOK(d)'
    BY <1>0, <1>3, SetFundsEffect DEF RecordPayoutEvidence, VerifyPayout, Doubt, OfferOK
<1> QED BY <1>1, <1>2, <1>3 DEF PayoutStep

LEMMA LedgerOffers ==
    ASSUME TypeOK, NEW d \in Earnings, OfferOK(d), NEW e \in Earnings, LedgerStep(e)
    PROVE  OfferOK(d)'
<1>0. UNCHANGED <<refund, dispute>>
    BY LedgerStepKeeps
<1>1. CASE Ask(e) \/ RefuseClaim(e)
    BY <1>0, <1>1, HoldForOrderEffect DEF Ask, RefuseClaim, funds, OfferOK
<1>2. CASE Reconcile(e) \/ ReconcileOrder(e)
    BY <1>0, <1>2, SetFundsEffect, NothingOpen DEF Reconcile, ReconcileOrder, OfferOK
<1> QED BY <1>1, <1>2 DEF LedgerStep

LEMMA FrozenStep ==
    ASSUME TypeOK, ClaimInv, Frozen, [Next]_vars
    PROVE  Frozen'
<1> SUFFICES ASSUME NEW d \in Earnings PROVE OfferOK(d)'
    BY DEF Frozen, OfferOK
<1>0. OfferOK(d)
    BY DEF Frozen, OfferOK
<1>1. CASE \/ \E s \in Staff, key \in Causes \X Earnings : RecoveryStep(s, key)
           \/ ProfileChanges \/ UNCHANGED vars
    BY <1>0, <1>1, RestKeeps DEF OfferOK, funds
<1> QED BY <1>0, <1>1, OrderOffers, ComplaintOffers, PayoutOffers, LedgerOffers DEF Next

\* What is offered for payout has neither an open complaint nor a refund under way.
THEOREM OffersAreFree == Spec => []Frozen
<1>1. Init => Frozen
    BY DEF Init, Frozen
<1> QED BY <1>1, TypeCorrect, ClaimsAgree, FrozenStep, PTL DEF Spec

-----------------------------------------------------------------------------
(* Complaints about money that has left *)

LEMMA NewEvidence ==
    ASSUME TypeOK, [Next]_vars, NEW d \in Earnings, evidence'[d], ~evidence[d]
    PROVE  \E s \in Staff, ds \in SUBSET Complaints : RecordPayoutEvidence(s, d, ds)
<1>1. ASSUME NEW s \in Staff, NEW e \in Earnings, PayoutStep(s, e)
      PROVE  \E ds \in SUBSET Complaints : RecordPayoutEvidence(s, d, ds)
  <2>1. CASE Claim(s, e)
    BY <2>1 DEF Claim, TypeOK
  <2>2. CASE Transfer(s, e) \/ CancelClaim(s, e) \/ EvidenceInOutage(s, e)
    BY <2>2 DEF Transfer, CancelClaim, EvidenceInOutage, funds
  <2>3. ASSUME NEW ds \in SUBSET Complaints, VerifyPayout(s, e, ds) PROVE FALSE
    BY <2>3 DEF VerifyPayout
  <2>4. ASSUME NEW ds \in SUBSET Complaints, RecordPayoutEvidence(s, e, ds) PROVE d = e
    BY <2>4 DEF RecordPayoutEvidence, StoreEvidence, TypeOK
  <2> QED BY <1>1, <2>1, <2>2, <2>3, <2>4 DEF PayoutStep
<1> QED BY <1>1, OrderStepKeeps, ComplaintStepKeeps, LedgerStepKeeps, RestKeeps DEF Next, funds

LEMMA NewComplaint ==
    ASSUME TypeOK, [Next]_vars, NEW c \in Complaints, dispute'[c] = "open", dispute[c] # "open"
    PROVE  Sync(c, "open")
<1>1. ASSUME NEW k \in Complaints, ComplaintStep(k) PROVE Sync(c, "open")
  <2>1. CASE Complain(k) \/ SyncFails(k)
    BY <2>1 DEF Complain, SyncFails, TypeOK
  <2>2. ASSUME NEW s \in {"open", "resolved"}, Sync(k, s) PROVE k = c /\ s = "open"
    BY <2>2 DEF Sync, TypeOK
  <2> QED BY <1>1, <2>1, <2>2 DEF ComplaintStep
<1> QED BY <1>1, OrderStepKeeps, PayoutStepKeeps, LedgerStepKeeps, RestKeeps DEF Next

LEMMA DisputeRecoversStep ==
    ASSUME TypeOK, ClaimInv, DisputeRecovers, [Next]_vars
    PROVE  DisputeRecovers'
<1> SUFFICES ASSUME NEW c \in Complaints, NEW d \in Subjects[c],
                    dispute'[c] = "open", status'[d] = "paid" \/ evidence'[d]
             PROVE  \E k \in Complaints : recovery'[<<k, d>>] # "none"
    BY DEF DisputeRecovers
<1>0. d \in Earnings /\ ClaimOK(d)' /\ \A k \in Complaints : <<k, d>> \in Causes \X Earnings
    BY ComplaintsAssumption, ClaimsStay DEF ClaimInv, Causes
<1>1. evidence'[d]
    BY <1>0 DEF ClaimOK
<1>2. CASE evidence[d] /\ dispute[c] = "open"
  <2>1. PICK k \in Complaints : recovery[<<k, d>>] # "none"
    BY <1>2 DEF DisputeRecovers
  <2> QED BY <1>0, <2>1, RecoveriesStay
<1>3. CASE dispute[c] # "open"
  <2>1. Sync(c, "open")
    BY <1>3, NewComplaint
  <2>2. evidence[d] /\ HoldOrRecover(c)
    BY <1>1, <2>1 DEF Sync
  <2>3. PICK paid : OpenRecoveries({c} \X paid) /\ d \in paid
    BY <2>2 DEF HoldOrRecover, Paid
  <2>4. <<c, d>> \in {c} \X paid
    BY <2>3
  <2> QED BY <1>0, <2>3, <2>4, OpenRecoveriesEffect
<1>4. CASE ~evidence[d] /\ dispute[c] = "open"
  <2>1. PICK s \in Staff, ds \in SUBSET Complaints : RecordPayoutEvidence(s, d, ds)
    BY <1>0, <1>1, <1>4, NewEvidence
  <2>2. c \in ActiveDisputes(d)
    BY <1>4 DEF ActiveDisputes
  <2>3. PICK ks \in SUBSET Complaints : ks # {} /\ OpenRecoveries(ks \X {d})
    <3>1. HoldReason(d) # "none"
      BY <1>0, <2>2, NothingHolds
    <3>2. CASE HoldReason(d) = "blocked" /\ ds = {}
      BY <1>1, <1>4, <2>1, <3>2 DEF RecordPayoutEvidence
    <3>3. CASE ds # {}
      BY <2>1, <3>3 DEF RecordPayoutEvidence, Doubt
    <3>4. CASE HoldReason(d) = "dispute_live" /\ ds = {}
      BY <2>1, <2>2, <3>4 DEF RecordPayoutEvidence, Doubt, ActiveDisputes
    <3> QED BY <2>1, <3>1, <3>2, <3>3, <3>4 DEF RecordPayoutEvidence
  <2>4. PICK k \in ks : TRUE
    BY <2>3
  <2>5. <<k, d>> \in ks \X {d}
    BY <2>4
  <2> QED BY <1>0, <2>3, <2>4, <2>5, OpenRecoveriesEffect
<1> QED BY <1>2, <1>3, <1>4

\* Money that is paid or evidenced when a complaint about it is open has a recovery.
THEOREM DisputesRecover == Spec => []DisputeRecovers
<1>1. Init => DisputeRecovers
    BY DEF Init, DisputeRecovers
<1> QED BY <1>1, TypeCorrect, ClaimsAgree, DisputeRecoversStep, PTL DEF Spec

-----------------------------------------------------------------------------
(* The refinement: every step of Settlement is a step of PayoutPromise or a   *)
(* stutter.                                                                   *)

\* What a refund leaves behind it is on record, and evidence is evidence of a
\* transfer.
BackInv ==
    \A e \in Earnings :
        /\ recovery[<<"refund", e>>] # "none" => refund[e] = "success"
        /\ status[e] = "void" => refund[e] = "success"
        /\ evidence[e] => transfers[e] # {}

\* The steps as PayoutPromise sees them.
SameFunding == \A e \in Earnings : status'[e] = status[e] \/ {status[e], status'[e]} \subseteq Open
SameDebts ==
    \A key \in Causes \X Earnings : recovery'[key] = recovery[key] \/ {recovery[key], recovery'[key]} \subseteq Unsettled
SameRefunds == \A e \in Earnings : refund'[e] = "success" <=> refund[e] = "success"

LEMMA FundingStays == ASSUME SameFunding PROVE Funding' = Funding
BY DEF SameFunding, Funding

LEMMA DebtsStay == ASSUME SameDebts PROVE Debts' = Debts
BY DEF SameDebts, Debts, Unsettled

LEMMA RefundsStay ==
    ASSUME SameRefunds
    PROVE  {e \in Earnings : refund'[e] = "success"} = {e \in Earnings : refund[e] = "success"}
BY DEF SameRefunds

LEMMA StutterKeeps ==
    ASSUME SameFunding, SameDebts, SameRefunds, UNCHANGED transfers
    PROVE  UNCHANGED Promise!vars
BY FundingStays, DebtsStay, RefundsStay DEF Promise!vars

\* A hold leaves an earning owed.
LEMMA HoldStays ==
    ASSUME TypeOK, NEW e \in Earnings, HoldForOrder(e)
    PROVE  SameFunding
BY HoldForOrderEffect DEF SameFunding, Open

\* Recoveries for complaints about what was sent are opened once each.
LEMMA OpeningComplains ==
    ASSUME TypeOK, NEW keys \in SUBSET (Complaints \X Earnings), OpenRecoveries(keys),
           \A key \in keys : transfers[key[2]] # {},
           SameFunding, SameRefunds, UNCHANGED transfers
    PROVE  Promise!Next
<1> DEFINE D == {key \in keys : recovery[key] = "none"}
<1>1. D \in SUBSET (Complaints \X Earnings)
    OBVIOUS
<1>2. \A key \in Causes \X Earnings : recovery'[key] = IF key \in D THEN "due" ELSE recovery[key]
    BY DEF OpenRecoveries
<1>3. \A d \in D : Debts[d] = "none" /\ transfers[d[2]] # {}
    BY DEF Debts, Causes, Unsettled
<1>4. Debts' = [d \in Causes \X Earnings |-> IF d \in D THEN "due" ELSE Debts[d]]
    BY <1>2 DEF Debts, Unsettled
<1>5. Funding' = Funding
       /\ {e \in Earnings : refund'[e] = "success"} = {e \in Earnings : refund[e] = "success"}
    BY FundingStays, RefundsStay
<1>6. Promise!Complained(D)
  <2> HIDE DEF D
  <2> QED BY <1>3, <1>4, <1>5 DEF Promise!Complained, Promise!Causes, Causes
<1> QED BY <1>1, <1>6 DEF Promise!Next

LEMMA CompletingEarns ==
    ASSUME TypeOK, NEW e \in Earnings, CompleteService(e)
    PROVE  Promise!Next
<1>1. Funding' = [Funding EXCEPT ![e] = "owed"] /\ Funding[e] = "none"
    BY DEF CompleteService, SetFunds, TypeOK, Funding, Open
<1>2. SameDebts /\ SameRefunds /\ UNCHANGED transfers
    BY DEF CompleteService, SameDebts, SameRefunds, debts, orderVars
<1>3. e \notin {d \in Earnings : refund[d] = "success"}
    BY DEF CompleteService
<1>4. Promise!Earn(e)
    BY <1>1, <1>2, <1>3, DebtsStay, RefundsStay DEF Promise!Earn
<1> QED BY <1>4 DEF Promise!Next

\* A refund voids what nobody sent, or has it given back.
LEMMA RefundSettles ==
    ASSUME TypeOK, ClaimInv, BackInv, NEW e \in Earnings, RefundSucceeds(e)
    PROVE  Promise!Next
<1> DEFINE refunded == {d \in Earnings : refund[d] = "success"}
<1>1. refund' = [refund EXCEPT ![e] = "success"] /\ refund[e] # "success" /\ UNCHANGED transfers
    BY DEF RefundSucceeds, SetRefund
<1>2. refunded' = refunded \cup {e} /\ e \notin refunded
    BY <1>1 DEF TypeOK
<1>3. recovery[<<"refund", e>>] = "none" /\ status[e] # "void"
    BY <1>1 DEF BackInv
<1>4. CASE InDoubt(e)
  <2>1. OpenRecoveries({<<"refund", e>>}) /\ UNCHANGED status
    BY <1>4 DEF RefundSucceeds
  <2>2. status[e] \in Open \cup {"paid"}
    BY <1>4 DEF InDoubt, ClaimInv, ClaimOK, Open
  <2>3. Funding[e] \in {"owed", "paid"} /\ Funding' = Funding
    BY <2>1, <2>2 DEF Funding
  <2>4. \A key \in Causes \X Earnings :
            recovery'[key] = IF key = <<"refund", e>> THEN "due" ELSE recovery[key]
    BY <1>3, <2>1 DEF OpenRecoveries
  <2>5. <<"refund", e>> \in Causes \X Earnings /\ Debts[<<"refund", e>>] = "none"
    BY <1>3 DEF Causes, Debts, Unsettled
  <2>6. Debts' = [Debts EXCEPT ![<<"refund", e>>] = "due"]
    BY <2>4, <2>5 DEF Debts, Unsettled
  <2>7. Promise!Refund(e)
    BY <1>1, <1>2, <2>3, <2>5, <2>6 DEF Promise!Refund
  <2> QED BY <2>7 DEF Promise!Next
<1>5. CASE ~InDoubt(e)
  <2>0. claimant[e] = Nobody /\ status[e] # "paid" /\ UNCHANGED debts
    BY <1>5 DEF InDoubt, RefundSucceeds
  <2>1. transfers[e] = {}
    <3>1. transfers[e] # {} => transfers[e] = {Nobody}
      BY <2>0 DEF ClaimInv, ClaimOK
    <3>2. transfers[e] \subseteq Staff
      BY DEF TypeOK
    <3> QED BY <3>1, <3>2, PeopleAssumption
  <2>2. Debts' = Debts
    BY <2>0, DebtsStay DEF debts, SameDebts
  <2>3. CASE status[e] \in Open
    <3>0. SetFunds(e, "void", "blocked")
      BY <1>5, <2>3 DEF RefundSucceeds
    <3>1. status' = [status EXCEPT ![e] = "void"] /\ status \in [Earnings -> Open \cup {"none", "paid", "void"}]
      BY <3>0 DEF SetFunds, TypeOK
    <3>2. Funding[e] = "owed" /\ Funding' = [Funding EXCEPT ![e] = "void"]
      BY <2>3, <3>1 DEF Funding, Open
    <3>3. Promise!Refund(e)
      BY <1>1, <1>2, <2>1, <2>2, <3>2 DEF Promise!Refund
    <3> QED BY <3>3 DEF Promise!Next
  <2>4. CASE status[e] = "none"
    <3>1. Funding[e] = "none" /\ Funding' = Funding
      BY <1>5, <2>4 DEF RefundSucceeds, Funding, Open
    <3>2. Promise!Refund(e)
      BY <1>1, <1>2, <2>2, <3>1 DEF Promise!Refund
    <3> QED BY <3>2 DEF Promise!Next
  <2>5. status[e] \in Open \cup {"none"}
    BY <1>3, <2>0 DEF TypeOK
  <2> QED BY <2>3, <2>4, <2>5
<1> QED BY <1>4, <1>5

LEMMA OrderPromise ==
    ASSUME TypeOK, ClaimInv, BackInv, NEW e \in Earnings, OrderStep(e)
    PROVE  [Promise!Next]_Promise!vars
<1>1. CASE CompleteService(e) BY <1>1, CompletingEarns
<1>2. CASE RefundSucceeds(e) BY <1>2, RefundSettles
<1>3. CASE TimePasses(e) \/ RejectRefund(e) \/ RefundFails(e) \/ \E k \in CaseKinds : CloseCase(e, k)
  <2>1. SameFunding /\ SameDebts /\ SameRefunds /\ UNCHANGED transfers
    BY <1>3 DEF TimePasses, RejectRefund, RefundFails, CloseCase, SetRefund, SetCase, funds, debts,
        SameFunding, SameDebts, SameRefunds, TypeOK
  <2> QED BY <2>1, StutterKeeps
<1>4. CASE RequestRefund(e) \/ RetryRefund(e) \/ \E k \in CaseKinds : OpenCase(e, k)
  <2>1. SameDebts /\ SameRefunds /\ UNCHANGED transfers
    BY <1>4 DEF RequestRefund, RetryRefund, OpenCase, SetRefund, SetCase, debts, SameDebts,
        SameRefunds, TypeOK
  <2>2. SameFunding
    BY <1>4, HoldStays DEF RequestRefund, RetryRefund, OpenCase
  <2> QED BY <2>1, <2>2, StutterKeeps
<1> QED BY <1>1, <1>2, <1>3, <1>4 DEF OrderStep

LEMMA ComplaintPromise ==
    ASSUME TypeOK, ClaimInv, BackInv, NEW c \in Complaints, ComplaintStep(c)
    PROVE  [Promise!Next]_Promise!vars
<1>1. CASE Complain(c) \/ SyncFails(c)
  <2>1. SameFunding /\ SameDebts /\ SameRefunds /\ UNCHANGED transfers
    BY <1>1 DEF Complain, SyncFails, funds, debts, orderVars, SameFunding, SameDebts, SameRefunds
  <2> QED BY <2>1, StutterKeeps
<1>2. CASE Sync(c, "open")
  <2> DEFINE paid == {e \in Subjects[c] : Paid(e)}
  <2>1. {c} \X paid \in SUBSET (Complaints \X Earnings)
    BY ComplaintsAssumption
  <2>2. \A key \in {c} \X paid : transfers[key[2]] # {}
    BY ComplaintsAssumption DEF Paid, BackInv, ClaimInv, ClaimOK
  <2>3. OpenRecoveries({c} \X paid) /\ UNCHANGED transfers /\ SameRefunds
    BY <1>2 DEF Sync, HoldOrRecover, orderVars, SameRefunds
  <2>4. SameFunding
    BY <1>2 DEF Sync, HoldOrRecover, SameFunding, ClaimInv, ClaimOK, Paid, Open
  <2> HIDE DEF paid
  <2> QED BY <2>1, <2>2, <2>3, <2>4, OpeningComplains
<1>3. CASE Sync(c, "resolved")
  <2>1. SameFunding /\ SameDebts /\ SameRefunds /\ UNCHANGED transfers
    BY <1>3 DEF Sync, Release, Releasable, Matured, Open, debts, orderVars, SameFunding, SameDebts, SameRefunds
  <2> QED BY <2>1, StutterKeeps
<1> QED BY <1>1, <1>2, <1>3 DEF ComplaintStep

\* A payout step that finds a complaint alive opens its recoveries.
LEMMA DoubtComplains ==
    ASSUME TypeOK, NEW e \in Earnings, NEW ds \in SUBSET Complaints, Doubt(e, ds),
           status[e] = "held", transfers[e] # {}, SameRefunds, UNCHANGED transfers
    PROVE  Promise!Next
<1>1. SameFunding
    BY SetFundsEffect DEF Doubt, SameFunding, Open
<1>2. ds \X {e} \in SUBSET (Complaints \X Earnings) /\ \A key \in ds \X {e} : transfers[key[2]] # {}
    OBVIOUS
<1> QED BY <1>1, <1>2, OpeningComplains DEF Doubt

LEMMA PayoutPromised ==
    ASSUME TypeOK, ClaimInv, BackInv, NEW s \in Staff, NEW e \in Earnings, PayoutStep(s, e)
    PROVE  [Promise!Next]_Promise!vars
<1>0. SameRefunds
    BY PayoutStepKeeps DEF SameRefunds
<1>1. CASE Claim(s, e) \/ CancelClaim(s, e) \/ EvidenceInOutage(s, e)
  <2>1. SameFunding
    BY <1>1, SetFundsEffect DEF Claim, CancelClaim, EvidenceInOutage, funds, SameFunding, Open
  <2>2. SameDebts /\ UNCHANGED transfers
    BY <1>1 DEF Claim, CancelClaim, EvidenceInOutage, debts, SameDebts
  <2> QED BY <1>0, <2>1, <2>2, StutterKeeps
<1>2. CASE Transfer(s, e)
  <2>1. transfers[e] = {}
    BY <1>2 DEF Transfer, ClaimInv, ClaimOK
  <2>2. transfers' = [transfers EXCEPT ![e] = {s}] /\ Funding[e] = "owed"
    BY <1>2, <2>1 DEF Transfer, TypeOK, Funding, Open
  <2>3. SameFunding /\ SameDebts
    BY <1>2 DEF Transfer, funds, debts, SameFunding, SameDebts
  <2>4. Promise!Send(s, e)
    BY <1>0, <2>1, <2>2, <2>3, FundingStays, DebtsStay, RefundsStay DEF Promise!Send
  <2> QED BY <2>4 DEF Promise!Next
<1>3. ASSUME NEW ds \in SUBSET Complaints, RecordPayoutEvidence(s, e, ds)
      PROVE  [Promise!Next]_Promise!vars
  <2>1. status[e] = "held" /\ transfers[e] # {} /\ UNCHANGED transfers
    BY <1>3 DEF RecordPayoutEvidence, RecordsEvidence
  <2>2. CASE \E ks \in SUBSET Complaints : Doubt(e, ks)
    BY <1>0, <2>1, <2>2, DoubtComplains
  <2>3. CASE (SetFunds(e, "held", "blocked") \/ SetFunds(e, "held", "verifying")) /\ UNCHANGED debts
    <3>1. SameFunding /\ SameDebts
      BY <2>1, <2>3, SetFundsEffect DEF SameFunding, SameDebts, debts
    <3> QED BY <1>0, <2>1, <3>1, StutterKeeps
  <2>4. ActiveDisputes(e) \in SUBSET Complaints
    BY DEF ActiveDisputes
  <2> QED BY <1>3, <2>2, <2>3, <2>4 DEF RecordPayoutEvidence
<1>4. ASSUME NEW ds \in SUBSET Complaints, VerifyPayout(s, e, ds)
      PROVE  [Promise!Next]_Promise!vars
  <2>1. status[e] = "held" /\ transfers[e] # {} /\ UNCHANGED transfers
    BY <1>4 DEF VerifyPayout, BackInv
  <2>2. CASE \E ks \in SUBSET Complaints : Doubt(e, ks)
    BY <1>0, <2>1, <2>2, DoubtComplains
  <2>3. CASE SetFunds(e, "held", "blocked") /\ UNCHANGED debts
    <3>1. SameFunding /\ SameDebts
      BY <2>1, <2>3, SetFundsEffect DEF SameFunding, SameDebts, debts
    <3> QED BY <1>0, <2>1, <3>1, StutterKeeps
  <2>4. CASE HoldReason(e) = "none" /\ SetFunds(e, "paid", "none") /\ UNCHANGED debts
    <3>1. Funding[e] = "owed" /\ Funding' = [Funding EXCEPT ![e] = "paid"]
      BY <2>1, <2>4 DEF SetFunds, TypeOK, Funding, Open
    <3>2. ~Debt(e)
      BY <2>4, NothingHolds
    <3>3. \A d \in Causes \X Earnings : Debts[d] # "due"
      BY <3>2 DEF Debts, Debt, Unsettled
    <3>4. SameDebts
      BY <2>4 DEF SameDebts, debts
    <3>5. Promise!Settle(e)
      BY <1>0, <2>1, <3>1, <3>3, <3>4, DebtsStay, RefundsStay DEF Promise!Settle, Promise!Causes, Causes
    <3> QED BY <3>5 DEF Promise!Next
  <2>5. ActiveDisputes(e) \in SUBSET Complaints
    BY DEF ActiveDisputes
  <2> QED BY <1>4, <2>2, <2>3, <2>4, <2>5 DEF VerifyPayout
<1> QED BY <1>1, <1>2, <1>3, <1>4 DEF PayoutStep

LEMMA OtherPromise ==
    ASSUME TypeOK, ClaimInv,
           \/ \E e \in Earnings : LedgerStep(e)
           \/ \E s \in Staff, key \in Causes \X Earnings : RecoveryStep(s, key)
           \/ ProfileChanges \/ UNCHANGED vars
    PROVE  [Promise!Next]_Promise!vars
<1>1. ASSUME NEW e \in Earnings, LedgerStep(e) PROVE UNCHANGED Promise!vars
  <2>1. SameDebts /\ SameRefunds
    BY <1>1, LedgerStepKeeps DEF debts, SameDebts, SameRefunds
  <2>2. UNCHANGED transfers
    BY <1>1 DEF LedgerStep, Ask, RefuseClaim, Reconcile, ReconcileOrder
  <2>3. SameFunding
    <3>1. CASE Ask(e)
      BY <3>1 DEF Ask, funds, SameFunding
    <3>2. CASE RefuseClaim(e)
      BY <3>2, HoldStays DEF RefuseClaim
    <3>3. CASE Reconcile(e) \/ ReconcileOrder(e)
      BY <3>3, SetFundsEffect DEF Reconcile, ReconcileOrder, InBatch, Matured, Open, SameFunding
    <3> QED BY <1>1, <3>1, <3>2, <3>3 DEF LedgerStep
  <2> QED BY <2>1, <2>2, <2>3, StutterKeeps
<1>2. ASSUME NEW s \in Staff, NEW key \in Causes \X Earnings, RecoveryStep(s, key)
      PROVE  [Promise!Next]_Promise!vars
  <2>1. SameFunding /\ SameRefunds /\ UNCHANGED transfers
    BY <1>2 DEF RecoveryStep, RecordRecoveryEvidence, VerifyRecovery, funds, orderVars, SameFunding, SameRefunds
  <2>2. CASE RecordRecoveryEvidence(s, key)
    <3>1. SameDebts
      BY <2>2 DEF RecordRecoveryEvidence, SameDebts, Unsettled, TypeOK
    <3> QED BY <2>1, <3>1, StutterKeeps
  <2>3. CASE VerifyRecovery(s, key)
    <3>1. \A k \in Causes \X Earnings : recovery'[k] = IF k = key THEN "recovered" ELSE recovery[k]
      BY <2>3 DEF VerifyRecovery, TypeOK
    <3>2. Debts[key] = "due"
      BY <2>3 DEF VerifyRecovery, Debts, Unsettled
    <3>3. Debts' = [Debts EXCEPT ![key] = "recovered"]
      <4>1. \A k \in Causes \X Earnings : Debts'[k] = IF k = key THEN "recovered" ELSE Debts[k]
        BY <3>1 DEF Debts, Unsettled
      <4> QED BY <4>1 DEF Debts
    <3>4. Promise!Recover(key)
      BY <2>1, <3>2, <3>3, FundingStays, RefundsStay DEF Promise!Recover
    <3> QED BY <3>4 DEF Promise!Next, Promise!Causes, Causes
  <2> QED BY <1>2, <2>2, <2>3 DEF RecoveryStep
<1>3. CASE ProfileChanges \/ UNCHANGED vars
  <2>1. SameFunding /\ SameDebts /\ SameRefunds /\ UNCHANGED transfers
    BY <1>3 DEF ProfileChanges, vars, funds, orderVars, debts, SameFunding, SameDebts, SameRefunds
  <2> QED BY <2>1, StutterKeeps
<1> QED BY <1>1, <1>2, <1>3

LEMMA BackInvStep ==
    ASSUME TypeOK, ClaimInv, BackInv, [Next]_vars
    PROVE  BackInv'
<1> USE DEF BackInv, funds, orderVars, debts
<1>1. ASSUME NEW e \in Earnings, OrderStep(e) PROVE BackInv'
  <2>1. CASE RefundSucceeds(e)
    <3>1. refund' = [refund EXCEPT ![e] = "success"] /\ UNCHANGED <<evidence, transfers>>
      BY <2>1 DEF RefundSucceeds, SetRefund
    <3>2. \A d \in Earnings \ {e} : recovery'[<<"refund", d>>] = recovery[<<"refund", d>>]
      <4>1. \A d \in Earnings : <<"refund", d>> \in Causes \X Earnings
        BY DEF Causes
      <4>2. CASE OpenRecoveries({<<"refund", e>>})
        BY <4>1, <4>2 DEF OpenRecoveries
      <4> QED BY <2>1, <4>2 DEF RefundSucceeds
    <3>3. \A d \in Earnings \ {e} : status'[d] = status[d]
      BY <2>1, SetFundsEffect DEF RefundSucceeds
    <3>4. refund'[e] = "success" /\ \A d \in Earnings \ {e} : refund'[d] = refund[d]
      BY <3>1 DEF TypeOK
    <3> QED BY <3>1, <3>2, <3>3, <3>4
  <2>2. CASE RequestRefund(e) \/ RetryRefund(e) \/ \E k \in CaseKinds : OpenCase(e, k)
    <3>1. UNCHANGED <<evidence, transfers, recovery>> /\ SameRefunds
      BY <2>2 DEF RequestRefund, RetryRefund, OpenCase, SetRefund, SetCase, SameRefunds, TypeOK
    <3>2. HoldForOrder(e)
      BY <2>2 DEF RequestRefund, RetryRefund, OpenCase
    <3> QED BY <3>1, <3>2, HoldForOrderEffect DEF SameRefunds
  <2>3. CASE TimePasses(e) \/ RejectRefund(e) \/ RefundFails(e) \/ \E k \in CaseKinds : CloseCase(e, k)
    <3>1. UNCHANGED <<status, evidence, transfers, recovery>> /\ SameRefunds
      BY <2>3 DEF TimePasses, RejectRefund, RefundFails, CloseCase, SetRefund, SetCase, TypeOK, SameRefunds
    <3> QED BY <3>1 DEF SameRefunds
  <2>4. CASE CompleteService(e)
    <3>1. SetFunds(e, "pending", "none") /\ UNCHANGED <<evidence, transfers, recovery, refund>>
      BY <2>4 DEF CompleteService
    <3>2. \A d \in Earnings : status'[d] = "void" => status[d] = "void"
      BY <3>1, SetFundsEffect
    <3> QED BY <3>1, <3>2
  <2> QED BY <1>1, <2>1, <2>2, <2>3, <2>4 DEF OrderStep
<1>2. ASSUME NEW c \in Complaints, ComplaintStep(c) PROVE BackInv'
  <2>1. UNCHANGED <<evidence, transfers, refund>>
    BY <1>2 DEF ComplaintStep, Complain, SyncFails, Sync
  <2>2. \A e \in Earnings : status'[e] = "void" => status[e] = "void"
    BY <1>2 DEF ComplaintStep, Complain, SyncFails, Sync, HoldOrRecover, Release, Matured
  <2>3. \A e \in Earnings : recovery'[<<"refund", e>>] = recovery[<<"refund", e>>]
    BY <1>2, ComplaintsAssumption
    DEF ComplaintStep, Complain, SyncFails, Sync, HoldOrRecover, Release, OpenRecoveries, Causes
  <2> QED BY <2>1, <2>2, <2>3
<1>3. ASSUME NEW s \in Staff, NEW e \in Earnings, PayoutStep(s, e) PROVE BackInv'
  <2>1. UNCHANGED refund
    BY <1>3, PayoutStepKeeps
  <2>2. \A d \in Earnings : status'[d] = "void" => status[d] = "void"
    <3>1. \/ UNCHANGED status
          \/ \E t \in {"held", "available", "paid"}, r \in Reasons : SetFunds(e, t, r)
      BY <1>3
      DEF PayoutStep, Claim, Transfer, CancelClaim, EvidenceInOutage, RecordPayoutEvidence, VerifyPayout,
          Doubt, Reasons
    <3> QED BY <3>1, SetFundsEffect
  <2>3. \A d \in Earnings : recovery'[<<"refund", d>>] = recovery[<<"refund", d>>]
    BY <1>3, ComplaintsAssumption
    DEF PayoutStep, Claim, Transfer, CancelClaim, EvidenceInOutage, RecordPayoutEvidence, VerifyPayout,
        Doubt, OpenRecoveries, ActiveDisputes, Causes
  <2>4. \A d \in Earnings : transfers[d] # {} => transfers'[d] # {}
    <3>1. UNCHANGED transfers \/ transfers' = [transfers EXCEPT ![e] = @ \cup {s}]
      BY <1>3 DEF PayoutStep, Claim, Transfer, CancelClaim, EvidenceInOutage, RecordPayoutEvidence,
          VerifyPayout
    <3>2. transfers \in [Earnings -> SUBSET Staff]
      BY DEF TypeOK
    <3> QED BY <3>1, <3>2
  <2>5. \A d \in Earnings : evidence'[d] => evidence[d] \/ transfers[d] # {}
    <3>1. UNCHANGED evidence \/ (transfers[e] # {} /\ evidence' = [evidence EXCEPT ![e] = TRUE])
          \/ evidence' = [evidence EXCEPT ![e] = FALSE]
      BY <1>3 DEF PayoutStep, Claim, Transfer, CancelClaim, EvidenceInOutage, RecordPayoutEvidence,
          RecordsEvidence, StoreEvidence, VerifyPayout
    <3>2. evidence \in [Earnings -> BOOLEAN]
      BY DEF TypeOK
    <3> QED BY <3>1, <3>2
  <2> QED BY <2>1, <2>2, <2>3, <2>4, <2>5
<1>4. ASSUME NEW e \in Earnings, LedgerStep(e) PROVE BackInv'
  <2>1. UNCHANGED <<evidence, refund, recovery, transfers>>
    BY <1>4 DEF LedgerStep, Ask, RefuseClaim, Reconcile, ReconcileOrder
  <2>2. \A d \in Earnings : status'[d] = "void" => status[d] = "void"
    BY <1>4, SetFundsEffect, HoldForOrderEffect
    DEF LedgerStep, Ask, RefuseClaim, Reconcile, ReconcileOrder, Matured
  <2> QED BY <2>1, <2>2
<1>5. ASSUME NEW s \in Staff, NEW key \in Causes \X Earnings, RecoveryStep(s, key) PROVE BackInv'
  <2>1. UNCHANGED <<status, evidence, transfers, refund>> /\ recovery[key] # "none"
        /\ \A k \in Causes \X Earnings : k # key => recovery'[k] = recovery[k]
    BY <1>5 DEF RecoveryStep, RecordRecoveryEvidence, VerifyRecovery, TypeOK
  <2>2. \A d \in Earnings : <<"refund", d>> \in Causes \X Earnings
    BY DEF Causes
  <2> QED BY <2>1, <2>2
<1>6. CASE ProfileChanges \/ UNCHANGED vars
    BY <1>6 DEF ProfileChanges, vars
<1> QED BY <1>1, <1>2, <1>3, <1>4, <1>5, <1>6 DEF Next

\* The handlers of payouts, refunds, complaints and recoveries, in whatever order and
\* by whomever, do to a companion's earnings only what PayoutPromise allows.
THEOREM PayoutsKeptAlways == Spec => PayoutsKept
<1>1. Init => Promise!Init /\ BackInv
  <2> SUFFICES ASSUME Init PROVE Promise!Init /\ BackInv
    OBVIOUS
  <2>1. BackInv
    BY DEF Init, BackInv, Causes
  <2>2. Funding = [e \in Earnings |-> "none"]
    BY DEF Init, Funding, Open
  <2>3. Debts = [d \in Causes \X Earnings |-> "none"]
    BY DEF Init, Debts, Unsettled
  <2>4. {e \in Earnings : refund[e] = "success"} = {}
    BY DEF Init
  <2> QED BY <2>1, <2>2, <2>3, <2>4 DEF Init, Promise!Init, Promise!Causes, Causes
<1>2. ASSUME TypeOK, ClaimInv, BackInv, [Next]_vars
      PROVE  [Promise!Next]_Promise!vars
    BY <1>2, OrderPromise, ComplaintPromise, PayoutPromised, OtherPromise DEF Next
<1> QED BY <1>1, <1>2, TypeCorrect, ClaimsAgree, BackInvStep, PTL DEF Spec, PayoutsKept, Promise!Spec

=============================================================================
