CONSTANTS
    Orders = {o1}
    Windows = {w1}
    Shapes <- Long
    RuleShapes <- Nothing
    Blackouts <- Nothing
    Duration = 1
    EarlyStart = 1
    ResponseWindow = 1
    ReservationTTL = 1
    PaymentLead = 0
    NegotiationWindow = 4
    MaxTime = 5
    None = None
SPECIFICATION Spec
CHECK_DEADLOCK FALSE
PROPERTIES
    AcceptedInFuture
