CONSTANTS
    Rows = {r1, r2}
    Staff = {s1, s2}
    Customer = customer
    Nobody = nobody
SPECIFICATION FairSpec
CHECK_DEADLOCK FALSE
INVARIANTS
    RefundOnce
    StartedNeedsReview
    
    InvoiceXorRefund
    FailureNeedsRetry
PROPERTIES
    SubmittedSettles
    PaidBackIsRecorded
    UnstartedIsRefunded
