\* One group, its requests in order; without symmetry.
CONSTANTS
    a = a
    h1 = h1
    h2 = h2
    h3 = h3
    s1 = s1
    s2 = s2
    None = None
    Groups = {a}
    Handles = {h1, h2, h3}
    IgnoreLimits = {}
    SocketIds = {s1, s2}
    MaxSockets = 1
    MaxSocketsPerGroup = 1
    Priorities = {0}
    Preconnects = {}
    SyncErrors = FALSE
    MaxJobs = 1
    MaxFlushes = 1
    MaxPosted = 1
SPECIFICATION FairSpec
PROPERTIES
    NoStarvation
