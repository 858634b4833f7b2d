SPECIFICATION Spec
CONSTANTS
    r1 = r1
    r2 = r2
    r3 = r3
    None = None
    EmptyBody = EmptyBody
    Requests <- MCRequests
    Keys = {"k1"}
    Operations = {"POST /v1/runs"}
    Extracted = {"json"}
    MaxFaults = 0
INVARIANT OneHandlerPerKey
CHECK_DEADLOCK FALSE
