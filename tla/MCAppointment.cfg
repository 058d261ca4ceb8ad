CONSTANTS
    Orders = {o1, o2}
    Windows = {w1, w2}
    Shapes <- TwoShapes
    RuleShapes <- OneShape
    Blackouts <- OneBlackout
    Duration = 1
    EarlyStart = 1
    ResponseWindow = 1
    ReservationTTL = 1
    PaymentLead = 0
    NegotiationWindow = 2
    MaxTime = 3
    None = None
SPECIFICATION Spec
SYMMETRY Symmetry
CHECK_DEADLOCK FALSE
INVARIANTS
    SeatsWithinCapacity
    WindowHonoured
    LiveProposalIsOpen
