SPECIFICATION Spec
CONSTANTS
    ChunkSize = 10
    Overlap = 1
    MaxMemorySize = 20
    Requests = {r1, r2, r3}
    Texts <- MCTexts
    Unit = 8
    Policies <- MCPolicies
    ResultLimit = 1
    Times = {0, 1, 2, 8}
    Never = Never
    None = None
    MaxEntries = 2
    SummaryItems = 1
    MaxFaults = 1
SYMMETRY Symmetry
INVARIANT StoredWhole
INVARIANT MessagesKept
PROPERTY QuotaKept
PROPERTY CleanupExact
PROPERTY DeletionEndsAll
CHECK_DEADLOCK FALSE
