---------------------------- MODULE Settlement ----------------------------
(***************************************************************************)
(* The earnings of one companion (commercial.service.ts) from the end of   *)
(* the service to the payout, and the recoveries that take money back.     *)
(*                                                                         *)
(* The transfer itself happens outside the system: a member of staff       *)
(* claims an earning, transfers, records the evidence, and somebody else   *)
(* verifies it.  Refunds (payments.service.ts), WeChat complaints          *)
(* (payment-disputes.service.ts), tickets and attendance disputes come at  *)
(* any time and hold what is not paid.  Every handler locks the order and  *)
(* the earning, so each transaction is one action; the question to WeChat  *)
(* that precedes a payout step is not part of its transaction, and its     *)
(* answer waits in readings.                                               *)
(***************************************************************************)
EXTENDS Naturals, FiniteSets

CONSTANTS
    Earnings,    \* the companion's earnings, numbered in the order of availableAt
    Staff,       \* finance staff and administrators
    Nobody,      \* a null user reference
    Complaints,  \* complaints the customers may make to WeChat
    Subjects,    \* the earnings whose orders each complaint is about
    CaseKinds,   \* the kinds of cases the customers open here
    Batch        \* PAYMENT_RECONCILIATION_BATCH_SIZE

ASSUME EarningsAssumption == Earnings \subseteq Nat
ASSUME PeopleAssumption == Nobody \notin Staff
ASSUME ComplaintsAssumption ==
    /\ "refund" \notin Complaints
    /\ Subjects \in [Complaints -> SUBSET Earnings]
ASSUME CasesAssumption == CaseKinds \subseteq {"attendance", "ticket"}
ASSUME BatchAssumption == Batch \in Nat \ {0}

VARIABLES
    status,     \* CompanionEarning.status; "none" before the service is completed
    reason,     \* its holdReason: a claim, a verification, a complaint's hold, or another
    claimant,   \* its payoutSubmittedById
    evidence,   \* it has a paidReference
    age,        \* in the refund window, in the settlement hold, or past availableAt
    refund,     \* the order's refund: none (or rejected), active, failed, success
    cases,      \* the order's support ticket and attendance dispute
    profileOk,  \* the companion's commercial profile is verified and current
    complaint,  \* the complaint at WeChat
    dispute,    \* PaymentDispute.status, what is known of it here
    recovery,   \* CompanionRecovery.status, by cause and earning
    submitter,  \* its evidenceSubmittedById
    readings,   \* answers of WeChat a payout step has received and not yet used
    transfers,  \* who has transferred the money of each earning
    outage      \* earnings whose evidence was presented while WeChat was out of reach (history)

funds     == <<status, reason, claimant, evidence>>
orderVars == <<age, refund, cases, profileOk>>
debts     == <<recovery, submitter>>
vars == <<funds, orderVars, complaint, dispute, debts, readings, transfers, outage>>

Open   == {"pending", "available", "held"}
Causes == {"refund"} \cup Complaints

TypeOK ==
    /\ status \in [Earnings -> Open \cup {"none", "paid", "void"}]
    /\ reason \in [Earnings -> {"none", "blocked", "dispute", "claimed", "verifying"}]
    /\ claimant \in [Earnings -> Staff \cup {Nobody}]
    /\ evidence \in [Earnings -> BOOLEAN]
    /\ age \in [Earnings -> {"window", "hold", "matured"}]
    /\ refund \in [Earnings -> {"none", "active", "failed", "success"}]
    /\ cases \in [Earnings -> [CaseKinds -> {"none", "open", "final"}]]
    /\ profileOk \in BOOLEAN
    /\ complaint \in [Complaints -> {"none", "open", "processed", "reopened"}]
    /\ dispute \in [Complaints -> {"none", "open", "syncFailed", "resolved"}]
    /\ recovery \in [Causes \X Earnings -> {"none", "due", "pendingVerification", "recovered"}]
    /\ submitter \in [Causes \X Earnings -> Staff \cup {Nobody}]
    /\ readings \subseteq Earnings \X SUBSET Complaints
    /\ transfers \in [Earnings -> SUBSET Staff]
    /\ outage \subseteq Earnings

Init ==
    /\ status = [e \in Earnings |-> "none"]
    /\ reason = [e \in Earnings |-> "none"]
    /\ claimant = [e \in Earnings |-> Nobody]
    /\ evidence = [e \in Earnings |-> FALSE]
    /\ age = [e \in Earnings |-> "window"]
    /\ refund = [e \in Earnings |-> "none"]
    /\ cases = [e \in Earnings |-> [k \in CaseKinds |-> "none"]]
    /\ profileOk = TRUE
    /\ complaint = [c \in Complaints |-> "none"]
    /\ dispute = [c \in Complaints |-> "none"]
    /\ recovery = [key \in Causes \X Earnings |-> "none"]
    /\ submitter = [key \in Causes \X Earnings |-> Nobody]
    /\ readings = {}
    /\ transfers = [e \in Earnings |-> {}]
    /\ outage = {}

-----------------------------------------------------------------------------
(* What holds an earning back *)

Unsettled == {"due", "pendingVerification"}

\* Mutant of Debt: only the earning's own recoveries count.
DebtOf(e) == \E k \in Causes : recovery[<<k, e>>] \in Unsettled

\* A recovery blocks every earning of the companion.
Debt(e) == \E key \in Causes \X Earnings : recovery[key] \in Unsettled

CaseOpen(e, k) == k \in CaseKinds /\ cases[e][k] = "open"

ActiveDisputes(e) == {c \in Complaints : e \in Subjects[c] /\ dispute[c] \in {"open", "syncFailed"}}

\* payoutHoldReason: the reasons in the code's order, as far as callers tell them apart
HoldReason(e) ==
    CASE Debt(e) \/ ~profileOk \/ CaseOpen(e, "attendance") -> "blocked"
      [] ActiveDisputes(e) # {} -> "dispute_live"
      [] CaseOpen(e, "ticket") \/ refund[e] \in {"active", "failed"} \/ age[e] = "window" -> "blocked"
      [] OTHER -> "none"

\* Writes the status and the hold reason of an earning, or leaves it alone.
SetFunds(e, s, r) ==
    /\ status' = [status EXCEPT ![e] = s]
    /\ reason' = [reason EXCEPT ![e] = r]

\* Mutant of HoldForOrder: a paid earning is held as well.
HoldAnyway(e) ==
    IF status[e] \in Open \cup {"paid"} THEN SetFunds(e, "held", "blocked") ELSE UNCHANGED <<status, reason>>

HoldForOrder(e) ==
    IF status[e] \in Open THEN SetFunds(e, "held", "blocked") ELSE UNCHANGED <<status, reason>>

Matured(e) == IF age[e] = "matured" THEN "available" ELSE "pending"

\* Mutant of OpenRecoveries: one recovery per earning is thought to be enough.
OpenFirstRecovery(keys) ==
    /\ recovery' = [key \in Causes \X Earnings |->
                       IF key \in keys /\ \A k \in Causes : recovery[<<k, key[2]>>] = "none"
                       THEN "due" ELSE recovery[key]]
    /\ UNCHANGED submitter

\* An upsert whose update is empty: a recovery that exists stays as it is.
OpenRecoveries(keys) ==
    /\ recovery' = [key \in Causes \X Earnings |->
                       IF key \in keys /\ recovery[key] = "none" THEN "due" ELSE recovery[key]]
    /\ UNCHANGED submitter

-----------------------------------------------------------------------------
(* The order: its completion, its refund, its cases *)

\* completeService looks at no refund, case or complaint.
CompleteService(e) ==
    /\ status[e] = "none" /\ refund[e] # "success"
    /\ SetFunds(e, "pending", "none")
    /\ UNCHANGED <<claimant, evidence, orderVars, complaint, dispute, debts, readings, transfers, outage>>

TimePasses(e) ==
    /\ status[e] # "none"
    /\ \/ age[e] = "window" /\ age' = [age EXCEPT ![e] = "hold"]
       \/ age[e] = "hold" /\ age' = [age EXCEPT ![e] = "matured"]
    /\ UNCHANGED <<funds, refund, cases, profileOk, complaint, dispute, debts, readings, transfers, outage>>

SetRefund(e, s) ==
    /\ refund' = [refund EXCEPT ![e] = s]
    /\ UNCHANGED <<age, cases, profileOk, complaint, dispute, readings, transfers, outage>>

\* A repeated request of a live refund holds the earning once more.
RequestRefund(e) ==
    /\ refund[e] # "success"
    /\ SetRefund(e, IF refund[e] = "none" THEN "active" ELSE refund[e])
    /\ HoldForOrder(e)
    /\ UNCHANGED <<claimant, evidence, debts>>

RetryRefund(e) ==
    /\ refund[e] = "failed"
    /\ SetRefund(e, "active")
    /\ HoldForOrder(e)
    /\ UNCHANGED <<claimant, evidence, debts>>

\* Nothing gives the earning back but the next reconciliation.
RejectRefund(e) == refund[e] = "active" /\ SetRefund(e, "none") /\ UNCHANGED <<funds, debts>>
RefundFails(e)  == refund[e] = "active" /\ SetRefund(e, "failed") /\ UNCHANGED <<funds, debts>>

\* Mutant of InDoubt: only evidence counts as a payout, a claim does not.
Evidenced(e) == status[e] = "paid" \/ evidence[e]

InDoubt(e) == status[e] = "paid" \/ evidence[e] \/ claimant[e] # Nobody

\* applyRefundResult with voidEarningForRefund
RefundSucceeds(e) ==
    /\ refund[e] \in {"active", "failed"}
    /\ SetRefund(e, "success")
    /\ IF InDoubt(e)
         THEN OpenRecoveries({<<"refund", e>>}) /\ UNCHANGED <<status, reason>>
         ELSE /\ IF status[e] \in Open THEN SetFunds(e, "void", "blocked") ELSE UNCHANGED <<status, reason>>
              /\ UNCHANGED debts
    /\ UNCHANGED <<claimant, evidence>>

SetCase(e, k, s) ==
    /\ cases' = [cases EXCEPT ![e] = [@ EXCEPT ![k] = s]]
    /\ UNCHANGED <<claimant, evidence, age, refund, profileOk, complaint, dispute, debts, readings,
                   transfers, outage>>

\* An order has one attendance dispute at most, and any number of tickets.
OpenCase(e, k) ==
    /\ cases[e][k] = "none" \/ k = "ticket"
    /\ SetCase(e, k, "open")
    /\ HoldForOrder(e)

\* The last open ticket is resolved, or the dispute has its final decision.
CloseCase(e, k) ==
    /\ cases[e][k] = "open"
    /\ SetCase(e, k, IF k = "ticket" THEN "none" ELSE "final")
    /\ UNCHANGED <<status, reason>>

\* The profile is suspended, expires or is verified again.
ProfileChanges ==
    /\ profileOk' = ~profileOk
    /\ UNCHANGED <<funds, age, refund, cases, complaint, dispute, debts, readings, transfers, outage>>

-----------------------------------------------------------------------------
(* Complaints *)

Complain(c) ==
    /\ \/ complaint[c] = "none" /\ complaint' = [complaint EXCEPT ![c] = "open"]
       \/ complaint[c] \in {"open", "reopened"} /\ complaint' = [complaint EXCEPT ![c] = "processed"]
       \/ complaint[c] = "processed" /\ complaint' = [complaint EXCEPT ![c] = "reopened"]
    /\ UNCHANGED <<funds, orderVars, dispute, debts, readings, transfers, outage>>

\* The states a complaint has had: a detail may be old when it is applied.
Heard(c) ==
    CASE complaint[c] = "none" -> {}
      [] complaint[c] = "open" -> {"open"}
      [] OTHER -> {"open", "resolved"}

\* Mutant of Paid: a payout under verification is not paid yet.
PaidOnly(e) == status[e] = "paid"

\* A payout that is recorded: confirmed, or with its reference on record
Paid(e) == status[e] = "paid" \/ evidence[e]

\* Mutant of HoldOrRecover: what is paid is left alone.
HoldUnpaid(c) ==
    LET free == {e \in Subjects[c] : status[e] \in {"pending", "available"}}
    IN  /\ status' = [e \in Earnings |-> IF e \in free THEN "held" ELSE status[e]]
        /\ reason' = [e \in Earnings |-> IF e \in free THEN "dispute" ELSE reason[e]]
        /\ UNCHANGED debts

\* holdOrRecoverFunding, for every order the complaint is about
HoldOrRecover(c) ==
    LET paid == {e \in Subjects[c] : Paid(e)}
        free == {e \in Subjects[c] \ paid : status[e] \in {"pending", "available"}}
        sent == {e \in paid : status[e] # "paid"}
    IN  /\ status' = [e \in Earnings |-> IF e \in free \cup sent THEN "held" ELSE status[e]]
        /\ reason' = [e \in Earnings |->
                         IF e \in free THEN "dispute" ELSE IF e \in sent THEN "blocked" ELSE reason[e]]
        /\ OpenRecoveries({c} \X paid)

\* Mutant of Releasable: a refund of the order does not count.
ReleasableRefunding(c, e) ==
    ActiveDisputes(e) \subseteq {c} /\ status[e] = "held" /\ reason[e] = "dispute"

\* releaseFundingIfSafe looks at other complaints and at refunds that have not failed.
Releasable(c, e) ==
    /\ ActiveDisputes(e) \subseteq {c}
    /\ refund[e] # "active"
    /\ status[e] = "held" /\ reason[e] = "dispute"

Release(c) ==
    LET free == {e \in Subjects[c] : Releasable(c, e)}
    IN  /\ status' = [e \in Earnings |-> IF e \in free THEN Matured(e) ELSE status[e]]
        /\ reason' = [e \in Earnings |-> IF e \in free THEN "none" ELSE reason[e]]
        /\ UNCHANGED debts

\* applyProviderDetail, after a notification, a poll, a payout step or a completion
Sync(c, s) ==
    /\ s \in Heard(c)
    /\ dispute' = [dispute EXCEPT ![c] = s]
    /\ IF s = "open" THEN HoldOrRecover(c) ELSE Release(c)
    /\ UNCHANGED <<claimant, evidence, orderVars, complaint, readings, transfers, outage>>

\* A row that is new (pendingSync) and one whose query failed are active; neither holds
\* anything by itself.
SyncFails(c) ==
    /\ complaint[c] # "none"
    /\ dispute' = [dispute EXCEPT ![c] = "syncFailed"]
    /\ UNCHANGED <<funds, orderVars, complaint, debts, readings, transfers, outage>>

\* refreshActiveForOrder: everything WeChat lists has been applied, then the rows are read.
Ask(e) ==
    /\ status[e] # "none"
    /\ \A c \in Complaints : e \in Subjects[c] /\ complaint[c] # "none" => dispute[c] # "none"
    /\ readings' = readings \cup {<<e, ActiveDisputes(e)>>}
    /\ UNCHANGED <<funds, orderVars, complaint, dispute, debts, transfers, outage>>

-----------------------------------------------------------------------------
(* The payout *)

\* The transaction of a payout step uses up the answer it was given.
Uses(e, ds) ==
    /\ <<e, ds>> \in readings
    /\ readings' = readings \ {<<e, ds>>}

\* WeChat reports a complaint or is out of reach: a claim is refused, an earning held.
RefuseClaim(e) ==
    /\ HoldForOrder(e)
    /\ UNCHANGED <<claimant, evidence, orderVars, complaint, dispute, debts, readings, transfers, outage>>

Claim(s, e) ==
    /\ Uses(e, {})
    /\ status[e] = "available" /\ profileOk
    /\ evidence' = [evidence EXCEPT ![e] = FALSE]
    /\ IF HoldReason(e) # "none"
         THEN SetFunds(e, "held", "blocked") /\ UNCHANGED claimant
         ELSE SetFunds(e, "held", "claimed") /\ claimant' = [claimant EXCEPT ![e] = s]
    /\ UNCHANGED <<orderVars, complaint, dispute, debts, transfers, outage>>

\* Whoever has claimed an earning transfers its money once.
Transfer(s, e) ==
    /\ claimant[e] = s /\ ~evidence[e] /\ status[e] = "held"
    /\ s \notin transfers[e]
    /\ transfers' = [transfers EXCEPT ![e] = @ \cup {s}]
    /\ UNCHANGED <<funds, orderVars, complaint, dispute, debts, readings, outage>>

\* Somebody other than the claimant cancels a claim that is not on hold.  The reference
\* to the evidence that no transfer has taken place is taken at its word.
CancelClaim(s, e) ==
    /\ status[e] = "held" /\ reason[e] = "claimed" /\ ~evidence[e]
    /\ claimant[e] \notin {Nobody, s}
    /\ transfers[e] = {}
    /\ claimant' = [claimant EXCEPT ![e] = Nobody]
    /\ IF HoldReason(e) # "none" THEN SetFunds(e, "held", "blocked") ELSE SetFunds(e, "available", "none")
    /\ UNCHANGED <<evidence, orderVars, complaint, dispute, debts, readings, transfers, outage>>

\* The money has left, or is believed to have left, and a complaint is alive.
Doubt(e, ds) == SetFunds(e, "held", "blocked") /\ OpenRecoveries(ds \X {e})

RecordsEvidence(s, e) ==
    /\ status[e] = "held" /\ reason[e] = "claimed"
    /\ claimant[e] = s /\ s \in transfers[e]

StoreEvidence(e) == evidence' = [evidence EXCEPT ![e] = TRUE]

\* Under a hold that is not a complaint's, the evidence is not stored.
RecordPayoutEvidence(s, e, ds) ==
    /\ RecordsEvidence(s, e)
    /\ Uses(e, ds)
    /\ \/ ds # {} /\ Doubt(e, ds) /\ StoreEvidence(e)
       \/ ds = {} /\ HoldReason(e) = "dispute_live" /\ Doubt(e, ActiveDisputes(e)) /\ StoreEvidence(e)
       \/ ds = {} /\ HoldReason(e) = "blocked" /\ SetFunds(e, "held", "blocked") /\ UNCHANGED <<evidence, debts>>
       \/ ds = {} /\ HoldReason(e) = "none" /\ SetFunds(e, "held", "verifying") /\ StoreEvidence(e) /\ UNCHANGED debts
    /\ UNCHANGED <<claimant, orderVars, complaint, dispute, transfers, outage>>

\* While WeChat is out of reach the transaction creates a recovery without a refund and
\* without a dispute, which CompanionRecovery_source_check forbids: nothing is stored.
EvidenceInOutage(s, e) ==
    /\ RecordsEvidence(s, e)
    /\ outage' = outage \cup {e}
    /\ UNCHANGED <<funds, orderVars, complaint, dispute, debts, readings, transfers>>

VerifyPayout(s, e, ds) ==
    /\ status[e] = "held" /\ reason[e] = "verifying"
    /\ evidence[e] /\ claimant[e] \notin {Nobody, s}
    /\ Uses(e, ds)
    /\ \/ ds # {} /\ Doubt(e, ds)
       \/ ds = {} /\ HoldReason(e) = "dispute_live" /\ Doubt(e, ActiveDisputes(e))
       \/ ds = {} /\ HoldReason(e) = "blocked" /\ SetFunds(e, "held", "blocked") /\ UNCHANGED debts
       \/ ds = {} /\ HoldReason(e) = "none" /\ SetFunds(e, "paid", "none") /\ UNCHANGED debts
    /\ UNCHANGED <<claimant, evidence, orderVars, complaint, dispute, transfers, outage>>

-----------------------------------------------------------------------------
(* Recoveries and the ledger's worker *)

RecordRecoveryEvidence(s, key) ==
    /\ recovery[key] = "due"
    /\ recovery' = [recovery EXCEPT ![key] = "pendingVerification"]
    /\ submitter' = [submitter EXCEPT ![key] = s]
    /\ UNCHANGED <<funds, orderVars, complaint, dispute, readings, transfers, outage>>

VerifyRecovery(s, key) ==
    /\ recovery[key] = "pendingVerification" /\ submitter[key] # s
    /\ recovery' = [recovery EXCEPT ![key] = "recovered"]
    /\ UNCHANGED <<funds, orderVars, complaint, dispute, submitter, readings, transfers, outage>>

\* Mutant of InBatch: the scan looks at pending earnings only.
InBatchPending(e) == status[e] = "pending"

\* The scan takes the first earnings that are not final, available ones included.
InBatch(e) ==
    /\ status[e] \in Open
    /\ Cardinality({d \in Earnings : d < e /\ status[d] \in Open}) < Batch

ClaimedReason(e) == IF evidence[e] THEN "verifying" ELSE "claimed"

\* reconcileEarnings, one earning
Reconcile(e) ==
    /\ InBatch(e)
    /\ \/ HoldReason(e) # "none" /\ SetFunds(e, "held", "blocked")
       \/ HoldReason(e) = "none" /\ claimant[e] # Nobody /\ SetFunds(e, "held", ClaimedReason(e))
       \/ /\ HoldReason(e) = "none" /\ claimant[e] = Nobody /\ age[e] = "matured"
          /\ status[e] # "available" /\ SetFunds(e, "available", "none")
    /\ UNCHANGED <<claimant, evidence, orderVars, complaint, dispute, debts, readings, transfers, outage>>

\* reconcileOrderEarning, after the final decision of an attendance dispute
ReconcileOrder(e) ==
    /\ status[e] \in Open
    /\ "attendance" \in CaseKinds /\ cases[e]["attendance"] = "final"
    /\ \/ HoldReason(e) # "none" /\ SetFunds(e, "held", "blocked")
       \/ HoldReason(e) = "none" /\ claimant[e] = Nobody /\ SetFunds(e, Matured(e), "none")
    /\ UNCHANGED <<claimant, evidence, orderVars, complaint, dispute, debts, readings, transfers, outage>>

-----------------------------------------------------------------------------
(* The specification *)

OrderStep(e) ==
    \/ CompleteService(e) \/ TimePasses(e)
    \/ RequestRefund(e) \/ RetryRefund(e) \/ RejectRefund(e) \/ RefundFails(e) \/ RefundSucceeds(e)
    \/ \E k \in CaseKinds : OpenCase(e, k) \/ CloseCase(e, k)

ComplaintStep(c) == Complain(c) \/ SyncFails(c) \/ \E s \in {"open", "resolved"} : Sync(c, s)

PayoutStep(s, e) ==
    \/ Claim(s, e) \/ Transfer(s, e) \/ CancelClaim(s, e) \/ EvidenceInOutage(s, e)
    \/ \E ds \in SUBSET Complaints : RecordPayoutEvidence(s, e, ds) \/ VerifyPayout(s, e, ds)

RecoveryStep(s, key) == RecordRecoveryEvidence(s, key) \/ VerifyRecovery(s, key)

LedgerStep(e) == Ask(e) \/ RefuseClaim(e) \/ Reconcile(e) \/ ReconcileOrder(e)

Next ==
    \/ \E e \in Earnings : OrderStep(e) \/ LedgerStep(e)
    \/ \E c \in Complaints : ComplaintStep(c)
    \/ \E s \in Staff, e \in Earnings : PayoutStep(s, e)
    \/ \E s \in Staff, key \in Causes \X Earnings : RecoveryStep(s, key)
    \/ ProfileChanges

Spec == Init /\ [][Next]_vars

\* The complaint worker queries every row that is not resolved, and the list of recent
\* complaints shows new ones.  A resolved row that is reopened is left to a notification.
Poll(c) ==
    /\ dispute[c] \in {"open", "syncFailed"} \/ complaint[c] = "open"
    /\ Sync(c, IF complaint[c] = "processed" THEN "resolved" ELSE "open")

\* The workers scan the ledger and the complaints again and again.
Fairness ==
    /\ \A e \in Earnings : WF_vars(Reconcile(e))
    /\ \A c \in Complaints : WF_vars(Poll(c))

FairSpec == Spec /\ Fairness

-----------------------------------------------------------------------------
(* Properties *)

\* Money that has left is never forgotten: the earning stays with the one person who
\* transferred it, so that nobody is invited to transfer it again, whatever refunds,
\* complaints, cases, reconciliations and late answers of WeChat follow.
TransferAccounted ==
    \A e \in Earnings :
        transfers[e] # {} => transfers[e] = {claimant[e]} /\ status[e] \in {"held", "paid"}

\* A refund that succeeds leaves no payout behind: the earning is void, or there is a
\* recovery for this refund beside whatever recoveries complaints have opened.
RefundRecovers ==
    \A e \in Earnings :
        refund[e] = "success" =>
            status[e] \in {"none", "void"} \/ recovery[<<"refund", e>>] # "none"

\* docs/COMMERCIAL_RELEASE.md, 5a: money that is paid or evidenced when a complaint about
\* its order is open has a recovery, whichever of the two came first.
DisputeRecovers ==
    \A c \in Complaints : \A e \in Subjects[c] :
        dispute[c] = "open" /\ (status[e] = "paid" \/ evidence[e])
            => \E k \in Complaints : recovery[<<k, e>>] # "none"

\* What is offered for payout has neither an open complaint nor a refund under way.
Frozen ==
    \A e \in Earnings :
        status[e] = "available" =>
            /\ refund[e] # "active"
            /\ \A c \in Complaints : e \in Subjects[c] => dispute[c] # "open"

\* While the companion owes money, no earning of theirs is claimed or confirmed as paid.
DebtStopsPayouts ==
    [][ (\E key \in Causes \X Earnings : recovery[key] \in {"due", "pendingVerification"})
        => \A e \in Earnings :
               /\ claimant'[e] \in {claimant[e], Nobody}
               /\ status'[e] = "paid" => status[e] = "paid" ]_vars

\* A paid or void earning stays what it is, whatever arrives late.
SettledIsFinal ==
    [][ \A e \in Earnings : status[e] \in {"paid", "void"} => status'[e] = status[e] ]_vars

\* An earning that nothing holds back any more comes back: to the payouts on offer, or
\* to the claim it was taken from.
HeldIsReleased ==
    \A e \in Earnings :
        status[e] \in Open /\ HoldReason(e) = "none" /\ age[e] = "matured"
            ~> \/ HoldReason(e) # "none"
               \/ status[e] = "available" /\ claimant[e] = Nobody
               \/ status[e] = "paid" \/ reason[e] \in {"claimed", "verifying"}

\* A new complaint about an order that is paid out leads to a recovery, or is over.
PaidDisputeRecovers ==
    \A c \in Complaints : \A e \in Subjects[c] :
        status[e] = "paid" /\ complaint[c] = "open"
            ~> complaint[c] = "processed" \/ recovery[<<c, e>>] # "none"

\* The handlers together do to earnings, transfers and recoveries only what
\* PayoutPromise allows: an earning is paid once and to the end, and what is taken
\* back is taken back once, in every order of payouts, refunds and complaints.
Funding == [e \in Earnings |-> IF status[e] \in Open THEN "owed" ELSE status[e]]
Debts == [key \in Causes \X Earnings |-> IF recovery[key] \in Unsettled THEN "due" ELSE recovery[key]]
Promise == INSTANCE PayoutPromise WITH
    state <- Funding, sent <- transfers, debt <- Debts,
    refunded <- {e \in Earnings : refund[e] = "success"}
PayoutsKept == Promise!Spec

\* Comment in recordPayoutEvidence: "Even when provider complaint verification is
\* unavailable, keep the claim and evidence durable and move into outcome-unknown recovery."
EvidenceSurvivesOutage == \A e \in outage : evidence[e]

=============================================================================
