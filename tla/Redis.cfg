SPECIFICATION Spec
CONSTANTS
    Requests = {r1, r2, r3}
    Limit = 2
    Runs = {u1, u2, u3}
    Tenants = {t1, t2}
    Owner <- MCOwner
    Global = global
    RunLimit = 1
    GlobalLimit = 2
    MaxFaults = 1
    NotGiven = NotGiven
    Calls = {r1, r2, r3}
    CallKinds <- MCCallKinds
    Grants <- MCGrants
    Length <- MCLength
    MaxTime = 6
    MaxCrashes = 1
    Users = {r1, r2, r3}
    Limits = {0, 2}
    Amounts = {1}
    Missing = Missing
    Absent = Absent
    MaxLost = 1
    MemoryCalls = {r1, r2, r3}
    Names = {n1, n2}
    Values = {v1, v2}
    MaxBroken = 1
SYMMETRY Symmetry
INVARIANT WindowLimit
INVARIANT RunsCounted
INVARIANT ToolCallsHeld
INVARIANT BudgetsKept
INVARIANT MemoryScanned
CHECK_DEADLOCK FALSE
