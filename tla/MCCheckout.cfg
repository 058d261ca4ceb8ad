CONSTANTS
    Orders = {o1, o2}
    Attempts = {a1, a2}
    Capacity = 1
    ScheduledAt = 8
    ResponseWindow = 1
    ReservationTTL = 3
    PrepayTTL = 3
    PaymentLead = 1
    UsableWindow = 1
    IssuanceAllowance = 0
    MaxTime = 8
SPECIFICATION Spec
SYMMETRY Symmetry
CHECK_DEADLOCK FALSE
INVARIANTS
    OneOpenPrepay
    NoOrphanedMoney
    NoOverbooking
