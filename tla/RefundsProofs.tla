--------------------------- MODULE RefundsProofs ---------------------------
(***************************************************************************)
(* What holds of Refunds for any number of refund rows and any staff.      *)
(* Whether a stale result or a stale answer can do harm depends on what    *)
(* WeChat has ever said of the row; IInv states that beside the invariants *)
(* of the runs.                                                            *)
(***************************************************************************)
EXTENDS Refunds, FiniteSetTheorems, TLAPS

\* At most one refund is active or done.
OneExisting == \A r, q \in Existing : r = q

\* WeChat hears only of refunds that have passed their review.
SentInv ==
    \A r \in Rows :
        r \in requests \/ remote[r] # "absent"
            => status[r] \in {"pending", "processing", "failed", "success"}

\* What WeChat has said of a refund, and what is remembered of it here.
HistoryInv ==
    \A r \in Rows :
        /\ history[r] # {} => remote[r] # "absent"
        /\ "SUCCESS" \in history[r] => remote[r] = "SUCCESS"
        /\ r \in unretried => history[r] # {}
        /\ r \in absent => r \notin unretried

\* Nobody has worked on a row before it exists.
FreshInv == \A r \in Rows : status[r] = "none" => reviewer[r] = Nobody /\ assignee[r] = Nobody

SendInv == OneExisting /\ SentInv /\ HistoryInv /\ FailureNeedsRetry
DeskInv == FreshInv /\ FourEyes
BookInv == RefundedByWechat /\ StartedNeedsReview /\ InvoiceXorRefund

IInv == SendInv /\ DeskInv /\ BookInv

-----------------------------------------------------------------------------
(* Types *)

LEMMA RowTypes ==
    ASSUME TypeOK, NEW r \in Rows,
           RequestStep(r) \/ SubmissionStep(r) \/ WechatStep(r)
    PROVE  TypeOK'
<1> USE DEF orderVars, people, wechatVars
<1>1. ASSUME NEW u \in Staff \cup {Customer}, NEW e \in ExceptionReason, NewRefund(r, u, e)
      PROVE  TypeOK'
    BY <1>1 DEF NewRefund, TypeOK, RefundStatus, Blocking, Active
<1>2. CASE RequestStep(r)
    BY <1>1, <1>2 DEF RequestStep, CustomerRequest, StaffRequest, ExpiredServiceRequest,
        ExceptionReason
<1>3. CASE Submit(r)
    BY <1>3 DEF Submit, Written, TypeOK, RefundStatus, Blocking, Active
<1>4. CASE QueryAbsent(r)
    BY <1>4 DEF QueryAbsent, TypeOK
<1>5. CASE ResetAbsent(r)
    BY <1>5 DEF ResetAbsent, Written, TypeOK, RefundStatus, Blocking, Active
<1>6. ASSUME NEW s \in RemoteStatus, ApplyResult(r, s)
      PROVE  TypeOK'
  <2>1. Outcome(s) \in RefundStatus
    BY DEF Outcome, RemoteStatus, RefundStatus, Blocking, Active
  <2> QED BY <1>6, <2>1 DEF ApplyResult, Written, TypeOK, OrderStatus
<1>7. CASE RequestLost(r)
    BY <1>7 DEF RequestLost, TypeOK
<1>8. CASE WechatAccepts(r)
    BY <1>8 DEF WechatAccepts, TypeOK, RemoteStatus
<1>9. ASSUME NEW s \in RemoteStatus, WechatDecides(r, s)
      PROVE  TypeOK'
    BY <1>9 DEF WechatDecides, TypeOK
<1> QED BY <1>2, <1>3, <1>4, <1>5, <1>6, <1>7, <1>8, <1>9 DEF SubmissionStep, WechatStep

LEMMA DeskTypes ==
    ASSUME TypeOK, NEW r \in Rows, NEW s \in Staff, ReviewStep(r, s)
    PROVE  TypeOK'
BY DEF ReviewStep, Claim, Approve, Reject, Retry, Written, TypeOK, RefundStatus, Blocking, Active,
    orderVars, people, wechatVars

LEMMA OrderTypes ==
    ASSUME TypeOK, OrderStep
    PROVE  TypeOK'
<1> USE DEF people, wechatVars
<1>1. CASE StartService \/ CompleteService
    BY <1>1 DEF StartService, CompleteService, TypeOK, OrderStatus
<1>2. CASE TimePasses
  <2>1. serviceEnded' \in BOOLEAN /\ windowClosed' \in BOOLEAN
    BY <1>2, Zenon DEF TimePasses, TypeOK
  <2> QED BY <1>2, <2>1 DEF TimePasses, TypeOK
<1>3. CASE RequestInvoice \/ ReviewInvoice \/ IssueInvoice \/ CloseInvoice
    BY <1>3 DEF RequestInvoice, ReviewInvoice, IssueInvoice, CloseInvoice, SetInvoice, TypeOK,
        InvoiceStatus
<1> QED BY <1>1, <1>2, <1>3 DEF OrderStep

\* Every column keeps to the values the schema and the code give it.
THEOREM TypeCorrect == Spec => []TypeOK
<1>1. Init => TypeOK
  <2> SUFFICES ASSUME Init PROVE TypeOK
      OBVIOUS
  <2>1. serviceEnded \in BOOLEAN /\ windowClosed \in BOOLEAN /\ large \in BOOLEAN
    BY Zenon DEF Init
  <2> QED BY <2>1 DEF Init, TypeOK, OrderStatus, InvoiceStatus, ExceptionReason, RefundStatus,
              RemoteStatus
<1>2. TypeOK /\ [Next]_vars => TypeOK'
  <2> SUFFICES ASSUME TypeOK, [Next]_vars PROVE TypeOK'
      OBVIOUS
  <2>1. CASE UNCHANGED vars
      BY <2>1 DEF vars, orderVars, people, wechatVars, TypeOK
  <2>2. CASE Next
      BY <2>2, RowTypes, DeskTypes, OrderTypes DEF Next
  <2> QED BY <2>1, <2>2
<1> QED BY <1>1, <1>2, PTL DEF Spec

-----------------------------------------------------------------------------
(* What is sent *)

\* A row that exists keeps its place, and no other can be added.
LEMMA SameExisting ==
    ASSUME \A r \in Rows : status'[r] \in Blocking => status[r] \in Blocking
    PROVE  /\ Existing' \subseteq Existing
           /\ OneExisting => OneExisting'
           /\ InvoiceXorRefund /\ (invoice' # "none" => invoice # "none") => InvoiceXorRefund'
BY DEF Existing, OneExisting, InvoiceXorRefund

LEMMA RowSend ==
    ASSUME TypeOK, SendInv, NEW r \in Rows,
           RequestStep(r) \/ SubmissionStep(r) \/ WechatStep(r)
    PROVE  SendInv'
<1> USE DEF SendInv, orderVars, people, wechatVars, Blocking, Active
<1>1. ASSUME NEW u, NEW e, NewRefund(r, u, e)
      PROVE  SendInv'
  <2>1. r \notin requests /\ remote[r] = "absent" /\ r \notin unretried
    BY <1>1 DEF NewRefund, SentInv, HistoryInv
  <2>2. OneExisting'
    BY <1>1 DEF NewRefund, OneExisting, Existing, TypeOK
  <2> QED BY <1>1, <2>1, <2>2 DEF NewRefund, SentInv, HistoryInv, FailureNeedsRetry, TypeOK
<1>2. CASE RequestStep(r)
    BY <1>1, <1>2 DEF RequestStep, CustomerRequest, StaffRequest, ExpiredServiceRequest
<1>3. CASE Submit(r)
  <2>1. OneExisting'
    BY <1>3, SameExisting DEF Submit, TypeOK
  <2> QED BY <1>3, <2>1 DEF Submit, Written, SentInv, HistoryInv, FailureNeedsRetry, TypeOK
<1>4. CASE QueryAbsent(r)
  <2>1. r \notin unretried
    BY <1>4 DEF QueryAbsent, HistoryInv
  <2> QED BY <1>4, <2>1 DEF QueryAbsent, OneExisting, Existing, SentInv, HistoryInv, FailureNeedsRetry
<1>5. CASE ResetAbsent(r)
  <2>1. OneExisting'
    BY <1>5, SameExisting DEF ResetAbsent, TypeOK
  <2> QED BY <1>5, <2>1 DEF ResetAbsent, Written, SentInv, HistoryInv, FailureNeedsRetry, TypeOK
<1>6. ASSUME NEW s \in RemoteStatus, ApplyResult(r, s)
      PROVE  SendInv'
  <2>1. status[r] \in {"pending", "processing", "failed"} /\ history[r] # {}
    BY <1>6 DEF ApplyResult, SentInv, HistoryInv
  <2>2. Outcome(s) \in {"success", "failed", "processing"}
    BY DEF Outcome, RemoteStatus
  <2>3. OneExisting'
    BY <1>6, <2>1, SameExisting DEF ApplyResult, TypeOK
  <2> QED BY <1>6, <2>1, <2>2, <2>3
          DEF ApplyResult, Written, SentInv, HistoryInv, FailureNeedsRetry, TypeOK
<1>7. CASE RequestLost(r)
    BY <1>7 DEF RequestLost, OneExisting, Existing, SentInv, HistoryInv, FailureNeedsRetry
<1>8. CASE WechatAccepts(r)
    BY <1>8 DEF WechatAccepts, OneExisting, Existing, SentInv, HistoryInv, FailureNeedsRetry, TypeOK
<1>9. ASSUME NEW s \in RemoteStatus, WechatDecides(r, s)
      PROVE  SendInv'
    BY <1>9 DEF WechatDecides, OneExisting, Existing, SentInv, HistoryInv, FailureNeedsRetry, TypeOK
<1> QED BY <1>2, <1>3, <1>4, <1>5, <1>6, <1>7, <1>8, <1>9 DEF SubmissionStep, WechatStep

LEMMA DeskSend ==
    ASSUME TypeOK, SendInv, NEW r \in Rows, NEW s \in Staff, ReviewStep(r, s)
    PROVE  SendInv'
<1> USE DEF SendInv, orderVars, people, wechatVars, Blocking, Active
<1>1. OneExisting'
    BY SameExisting DEF ReviewStep, Claim, Approve, Reject, Retry, TypeOK
<1>2. CASE Claim(r, s)
    BY <1>1, <1>2 DEF Claim, Written, SentInv, HistoryInv, FailureNeedsRetry
<1>3. CASE Approve(r, s) \/ Reject(r, s)
  <2>1. r \notin requests /\ remote[r] = "absent" /\ r \notin unretried
    BY <1>3 DEF Approve, Reject, SentInv, HistoryInv
  <2> QED BY <1>1, <1>3, <2>1
          DEF Approve, Reject, Written, SentInv, HistoryInv, FailureNeedsRetry, TypeOK
<1>4. CASE Retry(r, s)
    BY <1>1, <1>4 DEF Retry, Written, SentInv, HistoryInv, FailureNeedsRetry, TypeOK
<1> QED BY <1>2, <1>3, <1>4 DEF ReviewStep

LEMMA OrderSend ==
    ASSUME SendInv, OrderStep
    PROVE  SendInv'
BY DEF OrderStep, StartService, CompleteService, TimePasses, RequestInvoice, ReviewInvoice,
    IssueInvoice, CloseInvoice, SetInvoice, wechatVars, SendInv, OneExisting, Existing, SentInv,
    HistoryInv, FailureNeedsRetry

-----------------------------------------------------------------------------
(* Who decided *)

LEMMA RowDesk ==
    ASSUME TypeOK, SendInv, DeskInv, NEW r \in Rows,
           RequestStep(r) \/ SubmissionStep(r) \/ WechatStep(r)
    PROVE  DeskInv'
<1> USE DEF DeskInv, orderVars, people, wechatVars
<1>1. ASSUME NEW u, NEW e, NewRefund(r, u, e)
      PROVE  DeskInv'
    BY <1>1 DEF NewRefund, FreshInv, FourEyes, TypeOK
<1>2. CASE RequestStep(r)
    BY <1>1, <1>2 DEF RequestStep, CustomerRequest, StaffRequest, ExpiredServiceRequest
<1>3. CASE Submit(r) \/ ResetAbsent(r)
    BY <1>3 DEF Submit, ResetAbsent, FreshInv, FourEyes, TypeOK
<1>4. CASE QueryAbsent(r) \/ WechatStep(r)
    BY <1>4 DEF QueryAbsent, WechatStep, RequestLost, WechatAccepts, WechatDecides, FreshInv, FourEyes
<1>5. ASSUME NEW s \in RemoteStatus, ApplyResult(r, s)
      PROVE  DeskInv'
  <2>1. status[r] \notin {"none", "rejected"}
    BY <1>5 DEF ApplyResult, SendInv, SentInv, HistoryInv
  <2>2. Outcome(s) # "none"
    BY DEF Outcome, RemoteStatus
  <2> QED BY <1>5, <2>1, <2>2 DEF ApplyResult, FreshInv, FourEyes, TypeOK
<1> QED BY <1>2, <1>3, <1>4, <1>5 DEF SubmissionStep

LEMMA ReviewDesk ==
    ASSUME TypeOK, DeskInv, NEW r \in Rows, NEW s \in Staff, ReviewStep(r, s)
    PROVE  DeskInv'
<1> USE PeopleAssumption DEF DeskInv, orderVars, people, wechatVars, Active
<1>1. CASE Claim(r, s)
    BY <1>1 DEF Claim, FreshInv, FourEyes, TypeOK
<1>2. CASE Approve(r, s)
    BY <1>2 DEF Approve, MayApprove, FreshInv, FourEyes, TypeOK
<1>3. CASE Reject(r, s)
    BY <1>3 DEF Reject, FreshInv, FourEyes, TypeOK
<1>4. CASE Retry(r, s)
    BY <1>4 DEF Retry, FreshInv, FourEyes, TypeOK
<1> QED BY <1>1, <1>2, <1>3, <1>4 DEF ReviewStep

LEMMA OrderDesk ==
    ASSUME DeskInv, OrderStep
    PROVE  DeskInv'
BY DEF OrderStep, StartService, CompleteService, TimePasses, RequestInvoice, ReviewInvoice,
    IssueInvoice, CloseInvoice, SetInvoice, people, DeskInv, FreshInv, FourEyes

-----------------------------------------------------------------------------
(* The order, the service and the invoice *)

LEMMA RowBook ==
    ASSUME TypeOK, SendInv, BookInv, NEW r \in Rows,
           RequestStep(r) \/ SubmissionStep(r) \/ WechatStep(r)
    PROVE  BookInv'
<1> USE DEF BookInv, orderVars, people, wechatVars, Blocking, Active
<1>1. ASSUME NEW u, NEW e, NewRefund(r, u, e)
      PROVE  BookInv'
  <2>1. InvoiceXorRefund'
    BY <1>1 DEF NewRefund, InvoiceXorRefund
  <2> QED BY <1>1, <2>1 DEF NewRefund, RefundedByWechat, StartedNeedsReview, TypeOK
<1>2. CASE RequestStep(r)
    BY <1>1, <1>2 DEF RequestStep, CustomerRequest, StaffRequest, ExpiredServiceRequest
<1>3. CASE Submit(r) \/ ResetAbsent(r)
  <2>1. InvoiceXorRefund'
    BY <1>3, SameExisting DEF Submit, ResetAbsent, TypeOK
  <2> QED BY <1>3, <2>1 DEF Submit, ResetAbsent, RefundedByWechat, StartedNeedsReview, TypeOK
<1>4. CASE QueryAbsent(r) \/ RequestLost(r)
    BY <1>4 DEF QueryAbsent, RequestLost, InvoiceXorRefund, Existing, RefundedByWechat,
        StartedNeedsReview
<1>5. CASE WechatAccepts(r)
    BY <1>5 DEF WechatAccepts, InvoiceXorRefund, Existing, RefundedByWechat, StartedNeedsReview, TypeOK
<1>6. ASSUME NEW s \in RemoteStatus, WechatDecides(r, s)
      PROVE  BookInv'
    BY <1>6 DEF WechatDecides, InvoiceXorRefund, Existing, RefundedByWechat, StartedNeedsReview, TypeOK
<1>7. ASSUME NEW s \in RemoteStatus, ApplyResult(r, s)
      PROVE  BookInv'
  <2>1. /\ status[r] \in {"pending", "processing", "failed"}
        /\ s = "SUCCESS" => remote[r] = "SUCCESS"
    BY <1>7 DEF ApplyResult, SendInv, SentInv, HistoryInv
  <2>2. /\ s = "SUCCESS" => Outcome(s) = "success"
        /\ s # "SUCCESS" => Outcome(s) \in {"failed", "processing"}
    BY DEF Outcome, RemoteStatus
  <2>3. InvoiceXorRefund'
    BY <1>7, <2>1, SameExisting DEF ApplyResult, TypeOK
  <2>4. RefundedByWechat'
    BY <1>7, <2>1, <2>2 DEF ApplyResult, RefundedByWechat, TypeOK
  <2>5. StartedNeedsReview'
    BY <1>7, <2>1, <2>2 DEF ApplyResult, StartedNeedsReview, TypeOK
  <2> QED BY <2>3, <2>4, <2>5
<1> QED BY <1>2, <1>3, <1>4, <1>5, <1>6, <1>7 DEF SubmissionStep, WechatStep

LEMMA DeskBook ==
    ASSUME TypeOK, SendInv, BookInv, NEW r \in Rows, NEW s \in Staff, ReviewStep(r, s)
    PROVE  BookInv'
<1> USE PeopleAssumption DEF BookInv, orderVars, people, wechatVars, Blocking, Active
<1>1. InvoiceXorRefund'
    BY SameExisting DEF ReviewStep, Claim, Approve, Reject, Retry, TypeOK
<1>2. RefundedByWechat'
    BY DEF ReviewStep, Claim, Approve, Reject, Retry, RefundedByWechat, TypeOK
<1>3. StartedNeedsReview'
    BY DEF ReviewStep, Claim, Approve, Reject, Retry, StartedNeedsReview, TypeOK
<1> QED BY <1>1, <1>2, <1>3

LEMMA OrderBook ==
    ASSUME TypeOK, BookInv, OrderStep
    PROVE  BookInv'
<1> USE DEF BookInv, people, wechatVars, Blocking, Active
<1>1. CASE StartService
    BY <1>1 DEF StartService, Existing, InvoiceXorRefund, RefundedByWechat, StartedNeedsReview
<1>2. CASE CompleteService
    BY <1>2 DEF CompleteService, Existing, InvoiceXorRefund, RefundedByWechat, StartedNeedsReview
<1>3. CASE TimePasses
    BY <1>3 DEF TimePasses, Existing, InvoiceXorRefund, RefundedByWechat, StartedNeedsReview
<1>4. CASE RequestInvoice \/ ReviewInvoice \/ IssueInvoice \/ CloseInvoice
    BY <1>4 DEF RequestInvoice, ReviewInvoice, IssueInvoice, CloseInvoice, SetInvoice, Existing,
        InvoiceXorRefund, RefundedByWechat, StartedNeedsReview
<1> QED BY <1>1, <1>2, <1>3, <1>4 DEF OrderStep

-----------------------------------------------------------------------------
(* The theorems *)

LEMMA Inductive == Spec => []IInv
<1>1. Init => IInv
    BY PeopleAssumption
    DEF Init, IInv, SendInv, DeskInv, BookInv, OneExisting, Existing, Blocking, Active, SentInv,
        HistoryInv, FailureNeedsRetry, FreshInv, FourEyes, RefundedByWechat, StartedNeedsReview,
        InvoiceXorRefund
<1>2. TypeOK /\ IInv /\ [Next]_vars => IInv'
  <2> SUFFICES ASSUME TypeOK, IInv, [Next]_vars PROVE IInv'
      OBVIOUS
  <2>1. CASE UNCHANGED vars
      BY <2>1
      DEF vars, orderVars, people, wechatVars, IInv, SendInv, DeskInv, BookInv, OneExisting,
          Existing, SentInv, HistoryInv, FailureNeedsRetry, FreshInv, FourEyes, RefundedByWechat,
          StartedNeedsReview, InvoiceXorRefund
  <2>2. ASSUME NEW r \in Rows, RequestStep(r) \/ SubmissionStep(r) \/ WechatStep(r)
        PROVE  IInv'
      BY <2>2, RowSend, RowDesk, RowBook DEF IInv
  <2>3. ASSUME NEW r \in Rows, NEW s \in Staff, ReviewStep(r, s)
        PROVE  IInv'
      BY <2>3, DeskSend, ReviewDesk, DeskBook DEF IInv
  <2>4. CASE OrderStep
      BY <2>4, OrderSend, OrderDesk, OrderBook DEF IInv
  <2> QED BY <2>1, <2>2, <2>3, <2>4 DEF Next
<1> QED BY <1>1, <1>2, TypeCorrect, PTL DEF Spec

\* However often a refund is requested, rejected, lost, queried, reset and retried,
\* WeChat never hears of two refunds of the order.
THEOREM RefundOnceAlways == Spec => []RefundOnce
<1> DEFINE Sent == {r \in Rows : r \in requests \/ remote[r] # "absent"}
<1>1. IInv => RefundOnce
  <2> SUFFICES ASSUME IInv PROVE Cardinality(Sent) <= 1
      BY DEF RefundOnce
  <2>1. Sent \subseteq Existing
    BY DEF IInv, SendInv, SentInv, Existing, Blocking, Active
  <2>2. Sent = {} \/ \E r \in Sent : Sent = {r}
    BY <2>1 DEF IInv, SendInv, OneExisting
  <2> HIDE DEF Sent
  <2> QED BY <2>2, FS_EmptySet, FS_Singleton
<1> QED BY <1>1, Inductive, PTL

\* The order is refunded exactly when a success of WeChat's has been recorded.
THEOREM RefundedByWechatAlways == Spec => []RefundedByWechat
<1>1. IInv => RefundedByWechat
    BY DEF IInv, BookInv
<1> QED BY <1>1, Inductive, PTL

\* The refund of a service that has started never leaves without a review.
THEOREM StartedNeedsReviewAlways == Spec => []StartedNeedsReview
<1>1. IInv => StartedNeedsReview
    BY DEF IInv, BookInv
<1> QED BY <1>1, Inductive, PTL

\* Nobody reviews a refund alone that needs a second person.
THEOREM FourEyesAlways == Spec => []FourEyes
<1>1. IInv => FourEyes
    BY DEF IInv, DeskInv
<1> QED BY <1>1, Inductive, PTL

\* An order never has a live invoice beside an active or successful refund.
THEOREM InvoiceXorRefundAlways == Spec => []InvoiceXorRefund
<1>1. IInv => InvoiceXorRefund
    BY DEF IInv, BookInv
<1> QED BY <1>1, Inductive, PTL

\* No stale result and no stale answer authorises a failed refund again.
THEOREM FailureNeedsRetryAlways == Spec => []FailureNeedsRetry
<1>1. IInv => FailureNeedsRetry
    BY DEF IInv, SendInv
<1> QED BY <1>1, Inductive, PTL

\* A success is never overwritten, neither the row's nor the order's.
THEOREM SuccessIsFinalAlways == Spec => SuccessIsFinal
<1>1. TypeOK /\ [Next]_vars =>
        [ /\ \A r \in Rows : status[r] = "success" => status'[r] = "success"
          /\ orderStatus = "refunded" => orderStatus' = "refunded" ]_vars
  <2> SUFFICES ASSUME TypeOK, Next
               PROVE  /\ \A r \in Rows : status[r] = "success" => status'[r] = "success"
                      /\ orderStatus = "refunded" => orderStatus' = "refunded"
      OBVIOUS
  <2> USE DEF orderVars
  <2>1. ASSUME NEW q \in Rows, RequestStep(q) \/ SubmissionStep(q) \/ WechatStep(q)
        PROVE  /\ \A r \in Rows : status[r] = "success" => status'[r] = "success"
               /\ orderStatus = "refunded" => orderStatus' = "refunded"
      BY <2>1 DEF RequestStep, CustomerRequest, ExpiredServiceRequest, StaffRequest, NewRefund,
          SubmissionStep, Submit, QueryAbsent, ResetAbsent, ApplyResult, WechatStep, RequestLost,
          WechatAccepts, WechatDecides, TypeOK
  <2>2. ASSUME NEW q \in Rows, NEW s \in Staff, ReviewStep(q, s)
        PROVE  /\ \A r \in Rows : status[r] = "success" => status'[r] = "success"
               /\ orderStatus = "refunded" => orderStatus' = "refunded"
      BY <2>2 DEF ReviewStep, Claim, Approve, Reject, Retry, TypeOK
  <2>3. CASE OrderStep
      BY <2>3 DEF OrderStep, StartService, CompleteService, TimePasses, RequestInvoice,
          ReviewInvoice, IssueInvoice, CloseInvoice, SetInvoice
  <2> QED BY <2>1, <2>2, <2>3 DEF Next
<1> QED BY <1>1, TypeCorrect, PTL DEF Spec, SuccessIsFinal

=============================================================================
