\* One slot per group, two priorities, no error without blocking; the requests
\* of h1 ignore the limits.
CONSTANTS
    a = a
    b = b
    h1 = h1
    h2 = h2
    h3 = h3
    s1 = s1
    s2 = s2
    s3 = s3
    s4 = s4
    None = None
    Groups = {a, b}
    Handles = {h1, h2, h3}
    IgnoreLimits = {h1}
    SocketIds = {s1, s2, s3, s4}
    MaxSockets = 2
    MaxSocketsPerGroup = 1
    Priorities = {0, 1}
    Preconnects = {1}
    SyncErrors = FALSE
    MaxJobs = 2
    MaxFlushes = 0
    MaxPosted = 1
SPECIFICATION Spec
SYMMETRY SymmetryLimits
INVARIANTS
    NoNeedlessStall
