SPECIFICATION Spec
CONSTANTS
    Requests = {r1, r2, r3}
    Kinds = {"lead"}
    MaxAgents = 1
    None = None
INVARIANT RetryProvisions
CHECK_DEADLOCK FALSE
