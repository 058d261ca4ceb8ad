CONSTANTS
    Earnings = {1}
    Staff = {s1, s2}
    Nobody = nobody
    Complaints = {c1}
    Subjects <- AboutAll
    CaseKinds = {}
    Batch = 1
    Withdrawals = {}
SPECIFICATION WithdrawalSpec
SYMMETRY Symmetry
CHECK_DEADLOCK FALSE
INVARIANTS
    EvidenceSurvivesOutage
