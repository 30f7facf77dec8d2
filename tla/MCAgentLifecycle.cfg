SPECIFICATION Spec
CONSTANTS
    Requests = {r1, r2, r3, r4}
    Kinds = {"lead", "worker", "added", "update", "delete", "beat", "report"}
    MaxAgents = 1
    None = None
INVARIANTS TypeOK OneLead OnlineIsKeyed NoOrphan UpdatesEnd
PROPERTY SpawnLimit
SYMMETRY RequestSymmetry
CHECK_DEADLOCK FALSE
