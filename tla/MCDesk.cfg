CONSTANTS
    Admins = {a1, a2}
    Support = {p}
    Supply = {q}
    Finance = {f}
    None = None
    Cases = {c}
    Replies = {n1, n2}
    Texts = {x}
    Keys = {k}
    Actions = {n1, n2}
    Tickets = {t}
    Incidents = {i}
    Requests = {d}
    References = {b}
    Workers = {n1, n2}
    Leads = {l}
    Reviewers = {v}
    Files = {n1, n2}
    Agendas <- Mixes
SPECIFICATION Spec
SYMMETRY Symmetry
CHECK_DEADLOCK FALSE
INVARIANTS
    StaffedWork
    AppealIndependent
    RepliesAreReal
    GoodStanding
    ClearMeansReconciled
    OverturnedIsUndone
