SPECIFICATION Spec
CONSTANTS
    Task = {t1}
    Worker = {w1, w2}
    Internal = {i1}
    Budget = 1
    MaxRetries = 1
    DeliveryLimit = 1
    DlqLimit = 1
    MaxFaults = 0
PROPERTY TerminalFrozen
CHECK_DEADLOCK FALSE
