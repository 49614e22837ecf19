SPECIFICATION FairSpec
CONSTANTS
    Task = {t1}
    Worker = {w1}
    Internal = {i1, i2}
    Budget = 1
    MaxRetries = 1
    DeliveryLimit = 0
    DlqLimit = 1
    MaxFaults = 1
INVARIANTS AttemptsMatchRuns ExactlyOneCopy
PROPERTY SuccessOnlyBuried DispatchedIsSettled DeadIsAnnounced
CHECK_DEADLOCK FALSE
