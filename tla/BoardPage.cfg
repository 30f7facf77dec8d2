SPECIFICATION FairSpec
CONSTANTS
    Tasks = {t1, t2}
    Old = {t1}
    PageJobs = {1, 2}
    Jobs = {1, 2, f1}
    MaxClock = 1
    MaxSent = 2
    MaxBreaks = 1
    None = None
INVARIANTS TypeOK OneCard NoPhantom
PROPERTIES LossOnlyBy CatchesUp
CHECK_DEADLOCK FALSE
