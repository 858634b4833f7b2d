SPECIFICATION Spec
CONSTANTS
    Requests = {r1, r2, r3}
    Agents = {a1, a2}
    MainAgent = a1
    Names = {n1, n2}
    FirstName = n1
    Versions = {v1, v2, v3}
    None = None
SYMMETRY Symmetry
INVARIANT VersionsCoherent
PROPERTY PublishTakesEffect
PROPERTY FixedUnlessOvertaken
CHECK_DEADLOCK FALSE
