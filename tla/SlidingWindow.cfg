SPECIFICATION Spec
CONSTANTS
    Clients = {c1, c2}
    Keys = {k1, k2}
    MaxRequests = 2
    Window = 2
    MaxTime = 4
    NoClient = NoClient
SYMMETRY Symmetry
INVARIANTS
    TypeOK
    LimiterInv
    WindowLimit
PROPERTIES
    RemainingHonest
    RetryAfterSuffices
    RefinesRateLimit
