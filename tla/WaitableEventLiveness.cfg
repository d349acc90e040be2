\* Without symmetry, which TLC cannot combine with liveness.
CONSTANTS
    p1 = p1
    p2 = p2
    None = None
    Events = {1, 2, 3}
    ManualReset = {2}
    Threads = {p1, p2}
SPECIFICATION FairSpec
PROPERTIES
    CallsReturn
