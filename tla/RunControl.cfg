SPECIFICATION MCSpec
CONSTANTS
    Callers = {1, 2, 3}
    Tenants = {t1, t2}
    Keys = {k1}
    Costs = {1, 2}
    MaxCost = 2
    MaxSteps = 2
    StoredSteps <- MCSteps
    None = None
    MaxFaults = 1
    t1 = t1
    t2 = t2
    k1 = k1
INVARIANT WorkersBehave
INVARIANT KeyNamesOneRun
INVARIANT SpentAccounted
PROPERTY RunsKeepLifecycle
PROPERTY CancellationStopsWorker
CHECK_DEADLOCK FALSE
