\* Two groups that share two slots; a group may use both.
CONSTANTS
    a = a
    b = b
    h1 = h1
    h2 = h2
    h3 = h3
    s1 = s1
    s2 = s2
    s3 = s3
    None = None
    Groups = {a, b}
    Handles = {h1, h2, h3}
    IgnoreLimits = {}
    SocketIds = {s1, s2, s3}
    MaxSockets = 2
    MaxSocketsPerGroup = 2
    Priorities = {0}
    Preconnects = {2}
    SyncErrors = TRUE
    MaxJobs = 2
    MaxFlushes = 1
    MaxPosted = 2
SPECIFICATION Spec
SYMMETRY Symmetry
INVARIANTS
    GroupsConsistent
    CountersExact
    LimitsRespected
    NoStaleReuse
    CallbacksScheduled
