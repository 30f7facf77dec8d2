\* Two boards: an approval of one board can name a task of the other.
SPECIFICATION Spec
CONSTANTS
    a1 = a1
    a2 = a2
    b1 = b1
    b2 = b2
    Tasks = {1}
    Approvals = {a1, a2}
    Decisions = {approved, rejected}
    Boards = {b1, b2}
    BoardOf <- TwoBoards
    Writers = {w1, w2}
    Deleters = {d1}
    None = None
INVARIANT OnePendingPerTask
CHECK_DEADLOCK FALSE
