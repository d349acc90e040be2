\* As ClientSocketPoolLiveness, but Connect may fail without blocking.
CONSTANTS
    a = a
    h1 = h1
    h2 = h2
    h3 = h3
    s1 = s1
    s2 = s2
    None = None
    Groups = {a}
    Handles = {h1, h2, h3}
    IgnoreLimits = {}
    SocketIds = {s1, s2}
    MaxSockets = 1
    MaxSocketsPerGroup = 1
    Priorities = {0}
    Preconnects = {}
    SyncErrors = TRUE
    MaxJobs = 1
    MaxFlushes = 0
    MaxPosted = 1
SPECIFICATION FairSpec
PROPERTIES
    NoStarvation
