SPECIFICATION Spec
CONSTANTS
    Responders = {p1, p2, p3}
    None = None
INVARIANT ApprovalsGiven
CHECK_DEADLOCK FALSE
