------------------------------ MODULE Refunds ------------------------------
(***************************************************************************)
(* The refunds of one paid order (payments.service.ts), beside the service *)
(* it pays for (startService and completeService of orders.service.ts) and *)
(* its invoice (account-governance.service.ts).                            *)
(*                                                                         *)
(* Requests, reviews and results are transactions on the refund's row;     *)
(* those that meet the service, the invoice or another refund also hold    *)
(* the order's lock, so each is one action.  Between the claim of a row    *)
(* for submission and the result lies WeChat: requests arrive late or not  *)
(* at all, and every status the refund ever had there can reach this side  *)
(* at any later time and any number of times, as the reply of the call, as *)
(* a notification or as the answer of a query.  A process may stop between *)
(* any two actions; nothing it remembers is needed to go on.               *)
(***************************************************************************)
EXTENDS Naturals, FiniteSets

CONSTANTS
    Rows,      \* names for the refunds this order may see
    Staff,     \* finance and support staff
    Customer,  \* the customer, whom the system also impersonates
    Nobody     \* a null user reference

ASSUME PeopleAssumption == Customer \notin Staff /\ Nobody \notin Staff \cup {Customer}

VARIABLES
    orderStatus,   \* Order.status
    serviceEnded,  \* the scheduled end of the service has passed
    windowClosed,  \* refundRequestDeadlineAt has passed
    invoice,       \* status of the order's latest InvoiceRequest
    large,         \* amountCents >= REFUND_DUAL_CONTROL_THRESHOLD_CENTS
    status,        \* RefundTransaction.status
    initiator,     \* RefundTransaction.initiatedById
    exception,     \* RefundTransaction.exceptionReasonCode
    assignee,      \* RefundTransaction.assignedToUserId
    reviewer,      \* RefundTransaction.reviewedById
    absent,        \* answers NOTEXIST under way to a processing row not written since
    requests,      \* createRefund requests under way to WeChat
    remote,        \* the refund at WeChat under the row's outRefundNo
    history,       \* every status it has had there
    unretried      \* rows with an explicit failure nobody has retried since (history)

orderVars  == <<orderStatus, serviceEnded, windowClosed, invoice, large>>
people     == <<initiator, exception, assignee, reviewer>>
wechatVars == <<remote, history>>
vars == <<orderVars, status, people, absent, requests, wechatVars, unretried>>

OrderStatus  == {"paid", "inService", "completed", "refunded"}
InvoiceStatus == {"none", "submitted", "inReview", "issued"}
ExceptionReason == {"none", "support", "attendance", "deletion"}
Active == {"pendingReview", "pending", "processing", "failed"}
Blocking == Active \cup {"success"}
RefundStatus == Blocking \cup {"none", "rejected"}
RemoteStatus == {"PROCESSING", "SUCCESS", "FAILED"}

TypeOK ==
    /\ orderStatus \in OrderStatus
    /\ serviceEnded \in BOOLEAN /\ windowClosed \in BOOLEAN
    /\ invoice \in InvoiceStatus
    /\ large \in BOOLEAN
    /\ status \in [Rows -> RefundStatus]
    /\ initiator \in [Rows -> Staff \cup {Customer, Nobody}]
    /\ exception \in [Rows -> ExceptionReason]
    /\ assignee \in [Rows -> Staff \cup {Nobody}]
    /\ reviewer \in [Rows -> Staff \cup {Nobody}]
    /\ absent \subseteq Rows
    /\ requests \subseteq Rows
    /\ remote \in [Rows -> RemoteStatus \cup {"absent"}]
    /\ history \in [Rows -> SUBSET RemoteStatus]
    /\ unretried \subseteq Rows

Init ==
    /\ orderStatus = "paid"
    /\ serviceEnded = FALSE /\ windowClosed = FALSE
    /\ invoice = "none"
    /\ large \in BOOLEAN
    /\ status = [r \in Rows |-> "none"]
    /\ initiator = [r \in Rows |-> Nobody]
    /\ exception = [r \in Rows |-> "none"]
    /\ assignee = [r \in Rows |-> Nobody]
    /\ reviewer = [r \in Rows |-> Nobody]
    /\ absent = {}
    /\ requests = {}
    /\ remote = [r \in Rows |-> "absent"]
    /\ history = [r \in Rows |-> {}]
    /\ unretried = {}

\* Mutant of Existing: a failed refund no longer counts.
ExistingUnfailed == {r \in Rows : status[r] \in Blocking \ {"failed"}}

Existing == {r \in Rows : status[r] \in Blocking}

\* Mutant of Written: the reset is conditional on the status only.
WrittenUnversioned(r) == UNCHANGED absent

\* Every write moves the row's updatedAt, on which the reset of a processing
\* row that WeChat does not know is conditional.
Written(r) == absent' = absent \ {r}

-----------------------------------------------------------------------------
(* Requesting a refund *)

\* requestRefund; with a refund underway it creates nothing.
NewRefund(r, user, reason) ==
    /\ status[r] = "none"
    /\ invoice = "none"
    /\ Existing = {}
    /\ orderStatus \in {"paid", "inService", "completed"}
    /\ orderStatus = "completed" /\ reason = "none" => ~windowClosed
    /\ status' = [status EXCEPT ![r] =
            IF reason # "none" \/ orderStatus # "paid" THEN "pendingReview" ELSE "pending"]
    /\ initiator' = [initiator EXCEPT ![r] = user]
    /\ exception' = [exception EXCEPT ![r] = reason]
    /\ UNCHANGED <<orderVars, assignee, reviewer, absent, requests, wechatVars, unretried>>

CustomerRequest(r) == NewRefund(r, Customer, "none")

StaffRequest(r, s, reason) == reason # "none" /\ NewRefund(r, s, reason)

\* Mutant of ExpiredServiceRequest: a rejected refund also stops the worker.
ExpiredServiceFirstRequest(r) ==
    /\ orderStatus = "paid" /\ serviceEnded
    /\ \A q \in Rows : status[q] = "none"
    /\ NewRefund(r, Customer, "none")

\* refundIfServiceWindowExpired, by the worker and after a late payment
ExpiredServiceRequest(r) ==
    /\ orderStatus = "paid" /\ serviceEnded
    /\ NewRefund(r, Customer, "none")

-----------------------------------------------------------------------------
(* Reviewing it *)

Claim(r, s) ==
    /\ status[r] \in Active
    /\ assignee[r] = Nobody
    /\ assignee' = [assignee EXCEPT ![r] = s]
    /\ Written(r)
    /\ UNCHANGED <<orderVars, status, initiator, exception, reviewer, requests, wechatVars, unretried>>

\* Mutant of MayApprove: nobody needs to have claimed a large refund.
MayApproveUnclaimed(r, s) == IF large THEN assignee[r] # s ELSE assignee[r] = s

\* assertRefundReviewAuthorization
MayApprove(r, s) ==
    IF large THEN assignee[r] \notin {Nobody, s} ELSE assignee[r] = s

Approve(r, s) ==
    /\ status[r] = "pendingReview"
    /\ initiator[r] # s
    /\ MayApprove(r, s)
    /\ status' = [status EXCEPT ![r] = "pending"]
    /\ reviewer' = [reviewer EXCEPT ![r] = s]
    /\ Written(r)
    /\ UNCHANGED <<orderVars, initiator, exception, assignee, requests, wechatVars, unretried>>

Reject(r, s) ==
    /\ status[r] = "pendingReview"
    /\ exception[r] # "attendance"
    /\ initiator[r] # s
    /\ assignee[r] = s
    /\ status' = [status EXCEPT ![r] = "rejected"]
    /\ reviewer' = [reviewer EXCEPT ![r] = s]
    /\ Written(r)
    /\ UNCHANGED <<orderVars, initiator, exception, assignee, requests, wechatVars, unretried>>

Retry(r, s) ==
    /\ status[r] = "failed"
    /\ assignee[r] = s
    /\ status' = [status EXCEPT ![r] = "pending"]
    /\ unretried' = unretried \ {r}
    /\ Written(r)
    /\ UNCHANGED <<orderVars, people, requests, wechatVars>>

-----------------------------------------------------------------------------
(* Submitting it and learning the result *)

\* submitRefundToWechat, after a request, an approval or a retry, by the worker
\* or for a pending row that a query did not find: whoever wins the claim of the
\* row sends the request.
Submit(r) ==
    /\ status[r] = "pending"
    /\ status' = [status EXCEPT ![r] = "processing"]
    /\ requests' = requests \cup {r}
    /\ Written(r)
    /\ UNCHANGED <<orderVars, people, wechatVars, unretried>>

\* The process stops before the call, or the request never arrives.
RequestLost(r) ==
    /\ r \in requests
    /\ requests' = requests \ {r}
    /\ UNCHANGED <<orderVars, status, people, absent, wechatVars, unretried>>

\* WeChat takes an outRefundNo once and answers a repetition with what it has.
WechatAccepts(r) ==
    /\ r \in requests
    /\ requests' = requests \ {r}
    /\ IF remote[r] = "absent"
         THEN /\ remote' = [remote EXCEPT ![r] = "PROCESSING"]
              /\ history' = [history EXCEPT ![r] = {"PROCESSING"}]
         ELSE UNCHANGED wechatVars
    /\ UNCHANGED <<orderVars, status, people, absent, unretried>>

\* A failed refund (CLOSED, ABNORMAL) may still be paid by hand at the merchant platform.
WechatDecides(r, s) ==
    /\ \/ remote[r] = "PROCESSING" /\ s \in {"SUCCESS", "FAILED"}
       \/ remote[r] = "FAILED" /\ s = "SUCCESS"
    /\ remote' = [remote EXCEPT ![r] = s]
    /\ history' = [history EXCEPT ![r] = @ \cup {s}]
    /\ UNCHANGED <<orderVars, status, people, absent, requests, unretried>>

\* Mutant of Outcome: what is not a failure is a success.
OutcomeOptimistic(s) == IF s = "FAILED" THEN "failed" ELSE "success"

Outcome(s) ==
    CASE s = "SUCCESS" -> "success" [] s = "FAILED" -> "failed" [] s = "PROCESSING" -> "processing"

\* Mutant of ApplyResult: a failed row is closed to further news.
ApplyResultToOpen(r, s) ==
    /\ s \in history[r]
    /\ status[r] \notin {"success", "failed"}
    /\ status' = [status EXCEPT ![r] = Outcome(s)]
    /\ orderStatus' = IF s = "SUCCESS" THEN "refunded" ELSE orderStatus
    /\ unretried' = IF s = "FAILED" THEN unretried \cup {r} ELSE unretried
    /\ Written(r)
    /\ UNCHANGED <<serviceEnded, windowClosed, invoice, large, people, requests, wechatVars>>

\* applyRefundResult, with any status the refund has had
ApplyResult(r, s) ==
    /\ s \in history[r]
    /\ status[r] # "success"
    /\ s = "SUCCESS" \/ status[r] \notin {"rejected", "pendingReview"}
    /\ status' = [status EXCEPT ![r] = Outcome(s)]
    /\ orderStatus' = IF s = "SUCCESS" THEN "refunded" ELSE orderStatus
    /\ unretried' = IF s = "FAILED" THEN unretried \cup {r} ELSE unretried
    /\ Written(r)
    /\ UNCHANGED <<serviceEnded, windowClosed, invoice, large, people, requests, wechatVars>>

\* Mutant of QueryAbsent: only a request still under way is asked after.
QueryUnderWay(r) ==
    /\ status[r] = "processing"
    /\ remote[r] = "absent" /\ r \in requests
    /\ absent' = absent \cup {r}
    /\ UNCHANGED <<orderVars, status, people, requests, wechatVars, unretried>>

\* A query of a processing row that WeChat does not know (yet)
QueryAbsent(r) ==
    /\ status[r] = "processing"
    /\ remote[r] = "absent"
    /\ absent' = absent \cup {r}
    /\ UNCHANGED <<orderVars, status, people, requests, wechatVars, unretried>>

\* Its answer resets the row for another submission, if nobody has written it since.
ResetAbsent(r) ==
    /\ r \in absent
    /\ status[r] = "processing"
    /\ status' = [status EXCEPT ![r] = "pending"]
    /\ Written(r)
    /\ UNCHANGED <<orderVars, people, requests, wechatVars, unretried>>

-----------------------------------------------------------------------------
(* The service and the invoice *)

\* Mutant of StartService: it does not look for a refund.
StartServiceAnyway ==
    /\ orderStatus = "paid"
    /\ ~serviceEnded
    /\ orderStatus' = "inService"
    /\ UNCHANGED <<serviceEnded, windowClosed, invoice, large, status, people, absent, requests,
                   wechatVars, unretried>>

StartService ==
    /\ orderStatus = "paid"
    /\ Existing = {}
    /\ ~serviceEnded
    /\ orderStatus' = "inService"
    /\ UNCHANGED <<serviceEnded, windowClosed, invoice, large, status, people, absent, requests,
                   wechatVars, unretried>>

\* It looks at no refund.
CompleteService ==
    /\ orderStatus = "inService"
    /\ orderStatus' = "completed"
    /\ UNCHANGED <<serviceEnded, windowClosed, invoice, large, status, people, absent, requests,
                   wechatVars, unretried>>

TimePasses ==
    /\ \/ ~serviceEnded /\ serviceEnded' = TRUE /\ UNCHANGED windowClosed
       \/ orderStatus = "completed" /\ ~windowClosed /\ windowClosed' = TRUE /\ UNCHANGED serviceEnded
    /\ UNCHANGED <<orderStatus, invoice, large, status, people, absent, requests, wechatVars, unretried>>

SetInvoice(s) ==
    /\ invoice' = s
    /\ UNCHANGED <<orderStatus, serviceEnded, windowClosed, large, status, people, absent, requests,
                   wechatVars, unretried>>

\* Mutant of RequestInvoice: it does not look for a refund.
RequestInvoiceAnyway ==
    /\ orderStatus \in {"paid", "inService", "completed"}
    /\ invoice = "none"
    /\ SetInvoice("submitted")

RequestInvoice ==
    /\ orderStatus \in {"paid", "inService", "completed"}
    /\ Existing = {}
    /\ invoice = "none"
    /\ SetInvoice("submitted")

IssueInvoice ==
    /\ invoice = "inReview"
    /\ orderStatus \in {"paid", "inService", "completed"}
    /\ Existing = {}
    /\ SetInvoice("issued")

\* transitionInvoiceRequest to another status, and the customer's cancellation
ReviewInvoice == invoice = "submitted" /\ SetInvoice("inReview")
CloseInvoice  == invoice # "none" /\ SetInvoice("none")

-----------------------------------------------------------------------------
(* The specification *)

RequestStep(r) ==
    \/ CustomerRequest(r)
    \/ ExpiredServiceRequest(r)
    \/ \E s \in Staff, reason \in ExceptionReason : StaffRequest(r, s, reason)

ReviewStep(r, s) == Claim(r, s) \/ Approve(r, s) \/ Reject(r, s) \/ Retry(r, s)

SubmissionStep(r) ==
    \/ Submit(r) \/ QueryAbsent(r) \/ ResetAbsent(r)
    \/ \E s \in RemoteStatus : ApplyResult(r, s)

WechatStep(r) ==
    \/ RequestLost(r) \/ WechatAccepts(r)
    \/ \E s \in RemoteStatus : WechatDecides(r, s)

OrderStep ==
    \/ StartService \/ CompleteService \/ TimePasses
    \/ RequestInvoice \/ ReviewInvoice \/ IssueInvoice \/ CloseInvoice

Next ==
    \/ \E r \in Rows : RequestStep(r) \/ SubmissionStep(r) \/ WechatStep(r)
    \/ \E r \in Rows, s \in Staff : ReviewStep(r, s)
    \/ OrderStep

Spec == Init /\ [][Next]_vars

\* The reconciliation worker submits pending rows and queries processing ones for
\* as long as there are any, and requests the refunds of services that were never
\* started; WeChat decides what it accepted and does not lose every request.
\* Nothing is assumed of people or of notifications.
Fairness ==
    /\ WF_vars(\E r \in Rows : ExpiredServiceRequest(r))
    /\ \A r \in Rows :
        /\ WF_vars(Submit(r))
        /\ WF_vars(QueryAbsent(r) /\ r \notin absent)
        /\ WF_vars(ResetAbsent(r))
        /\ WF_vars(remote[r] \in {"SUCCESS", "FAILED"} /\ ApplyResult(r, remote[r]))
        /\ SF_vars(WechatAccepts(r))
        /\ WF_vars(remote[r] = "PROCESSING" /\ \E s \in RemoteStatus : WechatDecides(r, s))

FairSpec == Spec /\ Fairness

-----------------------------------------------------------------------------
(* Properties *)

\* The customer is paid back at most once: whatever is requested, rejected,
\* retried and resubmitted, WeChat never hears of two refunds of this order.
RefundOnce == Cardinality({r \in Rows : r \in requests \/ remote[r] # "absent"}) <= 1

\* The order is refunded exactly when WeChat's own success has been recorded:
\* no service transition overwrites it and no unknown result passes for success.
RefundedByWechat ==
    /\ orderStatus = "refunded" <=> \E r \in Rows : status[r] = "success"
    /\ \A r \in Rows : status[r] = "success" => remote[r] = "SUCCESS"

\* The refund of a service that has started does not leave without a review,
\* also when the companion starts it while the refund is being requested.
StartedNeedsReview ==
    \A r \in Rows :
        /\ status[r] \in {"pending", "processing", "failed"}
        /\ orderStatus \in {"inService", "completed"}
        => reviewer[r] # Nobody

\* An exception needs a second pair of eyes, and a large amount a third role:
\* whatever claims and retries follow the review.
FourEyes ==
    \A r \in Rows :
        reviewer[r] # Nobody =>
            /\ reviewer[r] # initiator[r]
            /\ large /\ status[r] # "rejected" => assignee[r] \notin {Nobody, reviewer[r]}

\* No order has both a live invoice and a refund that is active or done.
InvoiceXorRefund == invoice # "none" => Existing = {}

\* Comment in applyQueriedRefundResult: an explicit provider failure is submitted
\* again only by the audited retry, however late stale results and answers arrive.
FailureNeedsRetry == \A r \in unretried : status[r] # "pending"

\* A refund that succeeded is never taken back.
SuccessIsFinal ==
    [][ /\ \A r \in Rows : status[r] = "success" => status'[r] = "success"
        /\ orderStatus = "refunded" => orderStatus' = "refunded" ]_vars

\* A refund on its way reaches a result here: a crash before the call, a lost
\* request, a lost reply and a lost notification are all made up for.
SubmittedSettles ==
    \A r \in Rows : status[r] \in {"pending", "processing"} ~> status[r] \in {"success", "failed"}

\* Once WeChat has paid the customer back the order ends up refunded.
PaidBackIsRecorded == \A r \in Rows : remote[r] = "SUCCESS" ~> orderStatus = "refunded"

\* A paid service that was never started is refunded or under review once its
\* time is over, unless an invoice stands in the way.
OutOfRows == \A r \in Rows : status[r] # "none"

UnstartedIsRefunded ==
    orderStatus = "paid" /\ serviceEnded
        ~> orderStatus # "paid" \/ Existing # {} \/ invoice # "none" \/ OutOfRows

=============================================================================
