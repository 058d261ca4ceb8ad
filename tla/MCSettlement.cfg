CONSTANTS
    Earnings = {1, 2}
    Staff = {s1, s2}
    Nobody = nobody
    Complaints = {c1}
    Subjects <- AboutAll
    CaseKinds = {"attendance", "ticket"}
    Batch = 2
    Withdrawals = {w1, w2}
SPECIFICATION MixSpec
CHECK_DEADLOCK FALSE
INVARIANTS
    TransferAccounted
    DisputeRecovers
    Frozen
    WithdrawnOnce
PROPERTIES
    PayoutsKept
    DebtStopsPayouts
    HeldIsReleased
    PaidDisputeRecovers
