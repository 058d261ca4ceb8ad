CONSTANTS
    Admins = {a1, a2}
    Support = {p}
    Supply = {q}
    Finance = {f}
    None = None
    Cases = {c}
    Replies = {n1}
    Texts = {x}
    Keys = {k}
    Actions = {n1}
    Tickets = {t}
    Incidents = {i}
    Requests = {d}
    References = {b}
    Workers = {n1}
    Leads = {l}
    Reviewers = {v}
    Files = {n1}
    Agendas <- OnlyCases
SPECIFICATION Spec
CHECK_DEADLOCK FALSE
INVARIANT AppealsAreReviewed
