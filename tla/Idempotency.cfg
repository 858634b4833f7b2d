SPECIFICATION FairSpec
CONSTANTS
    r1 = r1
    r2 = r2
    r3 = r3
    None = None
    EmptyBody = EmptyBody
    Requests <- MCRequests
    Keys = {"k1", "k2"}
    Operations = {"POST /v1/runs"}
    Extracted = {"json", "empty"}
    MaxFaults = 1
INVARIANT DuplicatesAnswered
PROPERTY KeysAreFreed
CHECK_DEADLOCK FALSE
