\* Two requests and the approvals API at the same time, on a task and its dependents.
SPECIFICATION Spec
CONSTANTS
    g1 = g1
    g2 = g2
    Tasks = {1, 2, 3}
    Agents = {g1}
    Requests = {r1, r2}
    Rules = {"pending"}
    Payloads <- RaceBodies
    Creates <- RaceRows
    Commenters = {}
    Linkable = {1}
    Overlap = TRUE
    CanCrash = FALSE
    None = None
    Same = Same
INVARIANT NoUpdateCircle
PROPERTY PendingHolds
CHECK_DEADLOCK FALSE
