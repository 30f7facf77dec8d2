SPECIFICATION Spec
CONSTANTS
    a1 = a1
    a2 = a2
    b1 = b1
    b2 = b2
    Tasks = {1, 2}
    Approvals = {a1, a2}
    Boards = {b1}
    BoardOf <- SameBoard
    Writers = {w1, w2}
    Deleters = {d1}
    Decisions = {approved, rejected}
    None = None
INVARIANTS TypeOK OnePending PrimaryLinked NoDeadlock DecisionReported
PROPERTY LedgerSpec
SYMMETRY Symmetry
CHECK_DEADLOCK FALSE
