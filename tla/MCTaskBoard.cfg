\* One request at a time; all rules but lead_only are on.
SPECIFICATION Spec
CONSTANTS
    g1 = g1
    g2 = g2
    Tasks = {1, 2}
    Agents = {g1, g2}
    Requests = {r1}
    Rules = {"approval", "review", "pending"}
    Payloads <- AllBodies
    Creates <- NewRows
    Commenters = {g1}
    Linkable = {1, 2}
    Overlap = FALSE
    CanCrash = TRUE
    None = None
    Same = Same
INVARIANTS TypeOK Ready Stamped
PROPERTIES DoneEarned
CHECK_DEADLOCK FALSE
