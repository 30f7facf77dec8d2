SPECIFICATION FairSpec
CONSTANTS
    Calls = {1, 2, 3}
    MaxGets = 2
    None = None
INVARIANTS TypeOK AnsweredOnce ConfirmedAsShown
PROPERTY WaitingEnds
CHECK_DEADLOCK FALSE
