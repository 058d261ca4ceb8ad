CONSTANTS
    Admins = {a1, a2}
    None = None
    Deliveries = {d1, d2}
    EventGrants = {e1, e2}
    ReminderGrants = {g1, g2}
    Slots = {h1, h2}
    MaxTries = 1
    MaxFails = 2
    Logins = {l1, l2}
    MaxSessions = 3
    SessionBatch = 1
    ra = ra
    rb = rb
    m1 = m1
    m2 = m2
    Records = {ra, rb}
    Media = {m1, m2}
    Uploader <- UploaderOf
    Parties <- PartiesOf
    Batches = 1
    Own = ra
    Agendas <- Mixes
SPECIFICATION Spec
SYMMETRY Symmetry
CHECK_DEADLOCK FALSE
INVARIANTS
    MessageOnce
    
    ClosedForGood
    NothingErasedUnlessApproved
    FilesGoWithRows
    NoWayBack
