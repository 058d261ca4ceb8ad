CONSTANTS
    Orders = {o1, o2}
    Attempts = {a1}
    Capacity = 1
    ScheduledAt = 6
    ResponseWindow = 1
    ReservationTTL = 2
    PrepayTTL = 2
    PaymentLead = 1
    UsableWindow = 1
    IssuanceAllowance = 0
    MaxTime = 6
SPECIFICATION FairSpec
CHECK_DEADLOCK FALSE
PROPERTIES
    UnconfirmedSettles
