SPECIFICATION OutboxFairSpec
CONSTANTS
    Events = {e1, e2, e3}
    Flushers = {f1, f2}
    Nothing = Nothing
    BatchSize = 2
    MaxFaults = 1
INVARIANT DeliveryCounted
PROPERTY EventuallyProcessed
CHECK_DEADLOCK FALSE
