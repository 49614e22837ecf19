SPECIFICATION Spec
CONSTANTS
    Task = {t1}
    Worker = {w1, w2}
    Internal = {i1}
    Budget = 1
    MaxRetries = 1
    DeliveryLimit = 1
    DlqLimit = 0
    MaxFaults = 1
SYMMETRY Children
INVARIANTS TypeOK DeadOnlyAfterBudget RedeliveryLadder NoTaskLost ExecutionBound
PROPERTY KeepsPromise RowNeverRegresses
CHECK_DEADLOCK FALSE
