CONSTANTS
    Controllers = {w1, w2}
    Scanners = {w1, w2}
    Posts = {m1}
    None = None
    MaxRetries = 1
    Agendas <- Mixes
SPECIFICATION Spec
CHECK_DEADLOCK FALSE
INVARIANTS
    DecidedOnce
PROPERTIES
    
    QueuedIsDecided
